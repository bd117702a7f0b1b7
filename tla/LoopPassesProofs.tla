-------------------------- MODULE LoopPassesProofs --------------------------
(***************************************************************************)
(* Nests of any depth, any trip counts, any lists of tile sizes: the loop  *)
(* passes leave a nest in which a bound refers only to loops further out,  *)
(* loop-remove misses no loop, and the tiles the tiling pass chooses       *)
(* itself divide the loops.                                                *)
(***************************************************************************)
EXTENDS LoopPasses, SequenceTheorems, FiniteSetTheorems, WellFoundedInduction, TLAPS

Bound == [of : Nat, plus : Int]
Loop == [iv : Nat \ {None}, lb : Bound, ub : Seq(Bound) \ {<<>>}, step : Nat \ {0},
         consts : SUBSET [value : Int, used : BOOLEAN]]

(* The induction variables that the bounds of a loop use.                   *)
usedBy(loop) == {b.of : b \in {loop.lb} \cup Range(loop.ub)} \ {None}

-----------------------------------------------------------------------------
(* A set of numbers up to n has a least and a greatest one.                 *)
LEMMA LeastOf ==
  ASSUME NEW S \in SUBSET Nat, S # {}
  PROVE  Min(S) \in S /\ \A y \in S : Min(S) <= y
<1> DEFINE less == {ss \in Nat \X Nat : ss[1] < ss[2]}
<1>1. IsWellFoundedOn(less, Nat)
  BY NatLessThanWellFounded DEF OpToRel
<1>2. PICK x \in S : \A y \in S : ~ (<<y, x>> \in less)
  BY <1>1, WFMin
<1>3. ASSUME NEW y \in S
      PROVE  x <= y
  <2>1. y < x => <<y, x>> \in less
    OBVIOUS
  <2> QED BY <1>2, <2>1
<1> QED
  BY <1>3 DEF Min

LEMMA GreatestOf ==
  ASSUME NEW n \in Nat, NEW S \in SUBSET (1 .. n), S # {}
  PROVE  Max(S) \in S /\ \A y \in S : Max(S) >= y
<1> DEFINE D == {n - y : y \in S}
<1>1. D \in SUBSET Nat /\ D # {}
  <2>1. \A y \in S : n - y \in Nat
    OBVIOUS
  <2> QED BY <2>1
<1>2. PICK x \in S : Min(D) = n - x
  <2>1. Min(D) \in D
    BY <1>1, LeastOf
  <2> QED BY <2>1
<1>3. ASSUME NEW y \in S
      PROVE  x >= y
  <2>1. n - x <= n - y
    BY <1>1, <1>2, LeastOf
  <2> QED BY <2>1
<1> QED
  BY <1>3 DEF Max

(* The fold of merge-loop multiplies integers.  The function that it is     *)
(* defined by exists on the sets of up to n loops, for every n: a least n   *)
(* without one would have one, made from that for n - 1.                    *)
ProductSteps(f, g, T) ==
  \A s \in T : f[s] = IF s = {} THEN 1
                      ELSE LET x == CHOOSE y \in s : TRUE
                           IN  f[s \ {x}] * g[x]

LEMMA ProductExists ==
  ASSUME NEW S, IsFiniteSet(S), NEW g \in [S -> Int]
  PROVE  \E f \in [SUBSET S -> Int] : ProductSteps(f, g, SUBSET S)
<1> DEFINE upTo(n) == {s \in SUBSET S : Cardinality(s) <= n}
           Has(n) == \E f \in [upTo(n) -> Int] : ProductSteps(f, g, upTo(n))
           less == {ss \in Nat \X Nat : ss[1] < ss[2]}
<1>0. \A s \in SUBSET S : IsFiniteSet(s) /\ Cardinality(s) \in Nat
  BY FS_Subset, FS_CardinalityType
<1>1. Has(0)
  <2>1. upTo(0) = {{}}
    BY <1>0, FS_EmptySet
  <2>2. [s \in upTo(0) |-> 1] \in [upTo(0) -> Int]
    OBVIOUS
  <2>3. ProductSteps([s \in upTo(0) |-> 1], g, upTo(0))
    BY <2>1 DEF ProductSteps
  <2> QED BY <2>2, <2>3
<1>2. ASSUME NEW n \in Nat, Has(n)
      PROVE  Has(n + 1)
  <2>1. PICK f \in [upTo(n) -> Int] : ProductSteps(f, g, upTo(n))
    BY <1>2
  <2> DEFINE h == [s \in upTo(n + 1) |->
                     IF s = {} THEN 1
                     ELSE LET x == CHOOSE y \in s : TRUE IN f[s \ {x}] * g[x]]
  <2>2. ASSUME NEW s \in upTo(n + 1), s # {}, NEW x, x = CHOOSE y \in s : TRUE
        PROVE  x \in S /\ s \ {x} \in upTo(n)
    <3>1. x \in s
      BY <2>2
    <3>2. Cardinality(s \ {x}) = Cardinality(s) - 1
      BY <1>0, <3>1, FS_RemoveElement
    <3> QED BY <1>0, <3>1, <3>2
  <2>3. h \in [upTo(n + 1) -> Int]
    <3>1. ASSUME NEW s \in upTo(n + 1) PROVE h[s] \in Int
      <4>1. CASE s = {}
        BY <4>1
      <4>2. CASE s # {}
        <5>1. PICK x : x = CHOOSE y \in s : TRUE
          OBVIOUS
        <5>2. h[s] = f[s \ {x}] * g[x]
          BY <4>2, <5>1
        <5>3. f[s \ {x}] \in Int /\ g[x] \in Int
          BY <2>1, <2>2, <4>2, <5>1
        <5> QED BY <5>2, <5>3
      <4> QED BY <4>1, <4>2
    <3> QED BY <3>1
  <2>4. ASSUME NEW t \in upTo(n) PROVE h[t] = f[t]
    <3>1. t \in upTo(n + 1)
      BY <1>0
    <3> QED BY <2>1, <3>1 DEF ProductSteps
  <2>5. ProductSteps(h, g, upTo(n + 1))
    <3>1. ASSUME NEW s \in upTo(n + 1), s # {}, NEW x, x = CHOOSE y \in s : TRUE
          PROVE  h[s] = h[s \ {x}] * g[x]
      <4>1. h[s \ {x}] = f[s \ {x}]
        BY <2>2, <2>4, <3>1
      <4>2. h[s] = f[s \ {x}] * g[x]
        BY <3>1
      <4> QED BY <4>1, <4>2
    <3>2. ASSUME NEW s \in upTo(n + 1), s = {}
          PROVE  h[s] = 1
      BY <3>2
    <3> HIDE DEF h
    <3> QED BY <3>1, <3>2 DEF ProductSteps
  <2> QED BY <2>3, <2>5
<1>3. ASSUME NEW n \in Nat PROVE Has(n)
  <2> SUFFICES ASSUME ~ Has(n) PROVE FALSE
    OBVIOUS
  <2> DEFINE Without == {k \in Nat : ~ Has(k)}
  <2> HIDE DEF Has
  <2>1. Min(Without) \in Without /\ \A y \in Without : Min(Without) <= y
    BY LeastOf
  <2>2. PICK k \in Nat : ~ Has(k) /\ \A y \in Without : k <= y
    BY <2>1
  <2>3. k # 0
    BY <1>1, <2>2
  <2>4. Has(k - 1)
    BY <2>2, <2>3
  <2>5. Has(k - 1 + 1)
    BY <1>2, <2>3, <2>4
  <2> QED BY <2>2, <2>5
<1>4. upTo(Cardinality(S)) = SUBSET S
  BY <1>0, FS_Subset
<1>5. Cardinality(S) \in Nat
  BY FS_CardinalityType
<1> QED BY <1>3, <1>4, <1>5

LEMMA ProductsAreInt ==
  ASSUME NEW S, IsFiniteSet(S), NEW g \in [S -> Int], NEW f, ProductSteps(f, g, SUBSET S)
  PROVE  f[S] \in Int
<1> DEFINE Sizes == {Cardinality(s) : s \in {s \in SUBSET S : f[s] \notin Int}}
<1>1. \A s \in SUBSET S : IsFiniteSet(s) /\ Cardinality(s) \in Nat
  BY FS_Subset, FS_CardinalityType
<1> SUFFICES ASSUME f[S] \notin Int PROVE FALSE
  OBVIOUS
<1>2. Sizes \in SUBSET Nat /\ Sizes # {}
  BY <1>1
<1>3. PICK s \in SUBSET S : f[s] \notin Int /\ \A n \in Sizes : Cardinality(s) <= n
  <2>1. Min(Sizes) \in Sizes /\ \A n \in Sizes : Min(Sizes) <= n
    BY <1>2, LeastOf
  <2> QED BY <2>1
<1>4. s # {}
  BY <1>3 DEF ProductSteps
<1>5. PICK x : x = CHOOSE y \in s : TRUE
  OBVIOUS
<1>6. x \in s
  BY <1>4, <1>5
<1>7. f[s] = f[s \ {x}] * g[x]
  BY <1>4, <1>5 DEF ProductSteps
<1>8. Cardinality(s \ {x}) = Cardinality(s) - 1
  BY <1>1, <1>6, FS_RemoveElement
<1>9. f[s \ {x}] \in Int
  <2>1. Cardinality(s \ {x}) \notin Sizes
    BY <1>1, <1>3, <1>8
  <2> QED BY <2>1
<1> QED BY <1>3, <1>6, <1>7, <1>9

-----------------------------------------------------------------------------
(* The inductive invariant, in its parts.                                   *)
Typed ==
  /\ original \in Nests /\ nest \in Seq(Loop)
  /\ pass \in Range(Passes) /\ at \in 1 .. Len(nest) + 1
  /\ uses \in [DOMAIN uses -> Bound]
  /\ merged \subseteq DOMAIN uses /\ cut \in BOOLEAN

(* No two loops have the same induction variable ...                        *)
IvsDistinct == \A m, n \in DOMAIN nest : nest[m].iv = nest[n].iv => m = n

(* ... so that a bound, which refers to loops further out, and the body     *)
(* refer to one loop each.                                                  *)
BoundsOuter ==
  \A n \in DOMAIN nest : usedBy(nest[n]) \subseteq {nest[m].iv : m \in 1 .. n - 1}
UsesOfLoops ==
  \A d \in DOMAIN uses : uses[d].of \in {None} \cup {nest[n].iv : n \in DOMAIN nest}

(* The loops are those of the source until they are tiled.                  *)
plain(loop) ==
  hasConstantBounds(loop) /\ Len(loop.ub) = 1 /\ loop.iv \in 1 .. Len(original)
PlainBeforeTiling ==
  pass \in {"reorder", "merge", "remove", "cse", "tile"} =>
    \A n \in DOMAIN nest : plain(nest[n])
AsRead ==
  /\ pass = "reorder" => /\ \A n \in DOMAIN nest : nest[n].iv = n
                         /\ \A d \in DOMAIN uses : uses[d].of # None
  /\ pass \in {"reorder", "merge"} => Len(nest) = Len(original)

(* Where loop-remove has walked, no loop is left that runs once.            *)
Removing == pass \in {"remove", "removeAgain"}
WalkClean ==
  /\ ~ Removing => at = 1
  /\ Removing => \A n \in 1 .. at - 1 : ~ Removable(nest[n])

NestInv == /\ Typed /\ IvsDistinct /\ BoundsOuter /\ UsesOfLoops
           /\ PlainBeforeTiling /\ AsRead /\ WalkClean

-----------------------------------------------------------------------------
(* What the operators on loops return. *)
LEMMA FunctionIsSeq ==
  ASSUME NEW S, NEW n \in Nat, NEW f \in [1 .. n -> S]
  PROVE  f \in Seq(S) /\ Len(f) = n /\ DOMAIN f = 1 .. n
OBVIOUS

LEMMA PassOrder ==
  /\ DOMAIN Passes = 1 .. 8
  /\ Passes[1] = "reorder" /\ Passes[2] = "merge" /\ Passes[3] = "remove" /\ Passes[4] = "cse"
  /\ Passes[5] = "tile" /\ Passes[6] = "simplify" /\ Passes[7] = "removeAgain"
  /\ Passes[8] = "done"
BY DEF Passes

LEMMA NextPass ==
  /\ next("reorder") = "merge" /\ next("merge") = "remove" /\ next("remove") = "cse"
  /\ next("cse") = "tile" /\ next("tile") = "simplify" /\ next("simplify") = "removeAgain"
  /\ next("removeAgain") = "done"
<1> DEFINE follows(p, i) == i \in DOMAIN Passes /\ i > 1 /\ Passes[i - 1] = p
<1>1. ASSUME NEW p, NEW k, follows(p, k), \A i : follows(p, i) => i = k
      PROVE  next(p) = Passes[k]
  BY <1>1 DEF next
<1>2. \A i \in DOMAIN Passes : i > 1 => i \in {2, 3, 4, 5, 6, 7, 8}
  BY PassOrder
<1>3. follows("reorder", 2) /\ \A i : follows("reorder", i) => i = 2
  BY <1>2, PassOrder
<1>4. follows("merge", 3) /\ \A i : follows("merge", i) => i = 3
  BY <1>2, PassOrder
<1>5. follows("remove", 4) /\ \A i : follows("remove", i) => i = 4
  BY <1>2, PassOrder
<1>6. follows("cse", 5) /\ \A i : follows("cse", i) => i = 5
  BY <1>2, PassOrder
<1>7. follows("tile", 6) /\ \A i : follows("tile", i) => i = 6
  BY <1>2, PassOrder
<1>8. follows("simplify", 7) /\ \A i : follows("simplify", i) => i = 7
  BY <1>2, PassOrder
<1>9. follows("removeAgain", 8) /\ \A i : follows("removeAgain", i) => i = 8
  BY <1>2, PassOrder
<1> HIDE DEF follows
<1> QED BY <1>1, <1>3, <1>4, <1>5, <1>6, <1>7, <1>8, <1>9, PassOrder

LEMMA PassNames ==
  Range(Passes) = {"reorder", "merge", "remove", "cse", "tile", "simplify",
                   "removeAgain", "done"}
<1>1. \A i \in DOMAIN Passes : i \in {1, 2, 3, 4, 5, 6, 7, 8}
  BY PassOrder
<1>2. {1, 2, 3, 4, 5, 6, 7, 8} \subseteq DOMAIN Passes
  BY PassOrder
<1> QED BY <1>1, <1>2, PassOrder DEF Range

LEMMA TripInt ==
  ASSUME NEW loop \in Loop
  PROVE  tripCount(loop) \in Int
<1>1. /\ loop.ub[1] \in Bound /\ loop.lb \in Bound /\ loop.step \in Nat \ {0}
  <2>1. loop.ub \in Seq(Bound) /\ loop.ub # <<>>
    BY DEF Loop
  <2>2. 1 \in 1 .. Len(loop.ub)
    BY <2>1, EmptySeq
  <2> QED BY <2>1, <2>2, ElementOfSeq DEF Loop
<1>2. loop.ub[1].plus \in Int /\ loop.lb.plus \in Int
  BY <1>1 DEF Bound
<1> QED BY <1>1, <1>2 DEF tripCount, CeilDiv

(* Substituting a number for an induction variable removes it from the      *)
(* bounds and nothing else.                                                 *)
LEMMA InLoopProperties ==
  ASSUME NEW loop \in Loop, NEW i \in Nat \ {None}, NEW n \in Int
  PROVE  /\ inLoop(loop, i, n) \in Loop
         /\ inLoop(loop, i, n).iv = loop.iv
         /\ inLoop(loop, i, n).step = loop.step
         /\ inLoop(loop, i, n).consts = loop.consts
         /\ Len(inLoop(loop, i, n).ub) = Len(loop.ub)
         /\ usedBy(inLoop(loop, i, n)) \subseteq usedBy(loop) \ {i}
         /\ i \notin usedBy(loop) => inLoop(loop, i, n) = loop
<1> DEFINE lower == replaceUses(loop.lb, i, n)
           upper == [j \in DOMAIN loop.ub |-> replaceUses(loop.ub[j], i, n)]
<1>1. /\ loop.lb \in Bound /\ loop.ub \in Seq(Bound) /\ loop.ub # <<>>
      /\ DOMAIN loop.ub = 1 .. Len(loop.ub) /\ Len(loop.ub) \in Nat \ {0}
  BY EmptySeq, LenProperties DEF Loop
<1>2. ASSUME NEW b \in Bound
      PROVE  /\ replaceUses(b, i, n) \in Bound
             /\ replaceUses(b, i, n).of \in ({None} \cup {b.of}) \ {i}
             /\ b.of # i => replaceUses(b, i, n) = b
  BY DEF replaceUses, Bound, const, None
<1>3. \A j \in DOMAIN loop.ub : loop.ub[j] \in Bound
  BY <1>1, ElementOfSeq
<1>4. lower \in Bound /\ upper \in [1 .. Len(loop.ub) -> Bound]
  BY <1>1, <1>2, <1>3
<1>5. upper \in Seq(Bound) /\ Len(upper) = Len(loop.ub) /\ DOMAIN upper = DOMAIN loop.ub
      /\ upper # <<>>
  BY <1>1, <1>4, FunctionIsSeq
<1>6. /\ inLoop(loop, i, n) = [loop EXCEPT !.lb = lower, !.ub = upper]
  BY DEF inLoop
<1> HIDE DEF lower, upper
<1>7. /\ inLoop(loop, i, n) \in Loop
      /\ inLoop(loop, i, n).iv = loop.iv
      /\ inLoop(loop, i, n).step = loop.step
      /\ inLoop(loop, i, n).consts = loop.consts
      /\ inLoop(loop, i, n).lb = lower /\ inLoop(loop, i, n).ub = upper
  BY <1>4, <1>5, <1>6 DEF Loop
<1>8. usedBy(inLoop(loop, i, n)) \subseteq usedBy(loop) \ {i}
  <2> SUFFICES ASSUME NEW b \in {lower} \cup Range(upper), b.of # None
               PROVE  b.of \in usedBy(loop) /\ b.of # i
    BY <1>7 DEF usedBy
  <2>1. PICK c \in {loop.lb} \cup Range(loop.ub) : c \in Bound /\ b = replaceUses(c, i, n)
    <3>1. CASE b = lower
      BY <1>1, <3>1 DEF lower
    <3>2. CASE b \in Range(upper)
      <4>1. PICK j \in DOMAIN loop.ub : b = upper[j]
        BY <1>5, <3>2 DEF Range
      <4>2. b = replaceUses(loop.ub[j], i, n)
        BY <4>1 DEF upper
      <4> QED BY <1>3, <4>2 DEF Range
    <3> QED BY <3>1, <3>2
  <2>2. b.of = c.of /\ b.of # i
    BY <1>2, <2>1
  <2> QED BY <2>1, <2>2 DEF usedBy
<1>9. ASSUME i \notin usedBy(loop) PROVE inLoop(loop, i, n) = loop
  <2>1. loop.lb.of # i /\ \A j \in DOMAIN loop.ub : loop.ub[j].of # i
    BY <1>9 DEF usedBy, Range
  <2>2. lower = loop.lb
    BY <1>1, <1>2, <2>1 DEF lower
  <2>3. \A j \in DOMAIN loop.ub : upper[j] = loop.ub[j]
    BY <1>2, <1>3, <2>1 DEF upper
  <2>4. upper = loop.ub
    BY <1>1, <1>5, <2>3, SeqEqual
  <2> QED BY <1>6, <2>2, <2>4 DEF Loop
<1> QED BY <1>5, <1>7, <1>8, <1>9

-----------------------------------------------------------------------------
(* The facts about the state that every step uses.                          *)
LEMMA NestFacts ==
  ASSUME Typed
  PROVE  /\ Len(nest) \in Nat /\ DOMAIN nest = 1 .. Len(nest)
         /\ \A n \in DOMAIN nest : nest[n] \in Loop
         /\ Len(original) \in Nat \ {0} /\ DOMAIN original = 1 .. Len(original)
         /\ \A d \in DOMAIN original : original[d] \in Nat \ {0}
<1>1. nest \in Seq(Loop) /\ original \in Seq(Nat \ {0}) /\ original # <<>>
  BY NestsAssumption DEF Typed
<1>2. /\ Len(nest) \in Nat /\ DOMAIN nest = 1 .. Len(nest)
      /\ \A n \in DOMAIN nest : nest[n] \in Loop
  BY <1>1, LenProperties, ElementOfSeq
<1>3. /\ Len(original) \in Nat \ {0} /\ DOMAIN original = 1 .. Len(original)
      /\ \A d \in DOMAIN original : original[d] \in Nat \ {0}
  BY <1>1, EmptySeq, LenProperties, ElementOfSeq
<1> QED BY <1>2, <1>3

(* A pass that leaves each loop its induction variable and lets its bounds  *)
(* refer to nothing new keeps the nest in order.                            *)
LEMMA SameIvs ==
  ASSUME Typed, IvsDistinct, BoundsOuter, UsesOfLoops,
         nest' \in Seq(Loop), Len(nest') = Len(nest),
         \A n \in DOMAIN nest : /\ nest'[n].iv = nest[n].iv
                                /\ usedBy(nest'[n]) \subseteq usedBy(nest[n])
  PROVE  IvsDistinct' /\ BoundsOuter' /\ (uses' = uses => UsesOfLoops')
<1>1. DOMAIN nest = 1 .. Len(nest) /\ DOMAIN nest' = DOMAIN nest /\ Len(nest) \in Nat
  BY NestFacts, LenProperties
<1>2. IvsDistinct'
  BY <1>1 DEF IvsDistinct
<1>3. BoundsOuter'
  <2> SUFFICES ASSUME NEW n \in DOMAIN nest, NEW i \in usedBy(nest'[n])
               PROVE  \E m \in 1 .. n - 1 : nest'[m].iv = i
    BY <1>1 DEF BoundsOuter
  <2>1. PICK m \in 1 .. n - 1 : nest[m].iv = i
    BY DEF BoundsOuter
  <2>2. m \in DOMAIN nest
    BY <1>1
  <2> QED BY <2>1, <2>2
<1>4. ASSUME uses' = uses PROVE UsesOfLoops'
  BY <1>1, <1>4 DEF UsesOfLoops
<1> QED BY <1>2, <1>3, <1>4

(* The bounds of a loop that are constants refer to nothing.                *)
LEMMA ConstantBoundsUseNothing ==
  ASSUME NEW loop \in Loop
  PROVE  hasConstantBounds(loop) <=> usedBy(loop) = {}
BY DEF hasConstantBounds, usedBy

-----------------------------------------------------------------------------
LEMMA InitNest == Init => NestInv
<1> SUFFICES ASSUME Init PROVE NestInv
  OBVIOUS
<1>1. /\ original \in Seq(Nat \ {0}) /\ Len(original) \in Nat
      /\ DOMAIN original = 1 .. Len(original)
      /\ \A d \in DOMAIN original : original[d] \in Nat \ {0}
  BY NestsAssumption, LenProperties, ElementOfSeq DEF Init
<1> DEFINE loop(d) == [iv |-> d, lb |-> const(0), ub |-> <<const(original[d])>>,
                       step |-> 1, consts |-> {}]
<1>2. ASSUME NEW d \in DOMAIN original
      PROVE  /\ loop(d) \in Loop /\ hasConstantBounds(loop(d)) /\ Len(loop(d).ub) = 1
             /\ loop(d).iv = d
  <2>1. const(0) \in Bound /\ const(original[d]) \in Bound
    BY <1>1 DEF const, Bound, None
  <2>2. <<const(original[d])>> \in Seq(Bound) \ {<<>>} /\ Len(<<const(original[d])>>) = 1
    BY <2>1
  <2>3. d \in Nat \ {None}
    BY <1>1 DEF None
  <2>4. loop(d) \in Loop
    BY <2>1, <2>2, <2>3 DEF Loop
  <2>5. hasConstantBounds(loop(d))
    BY DEF hasConstantBounds, const, Range
  <2> QED BY <2>2, <2>4, <2>5
<1>3. nest = [d \in 1 .. Len(original) |-> loop(d)]
  BY <1>1 DEF Init
<1> HIDE DEF loop
<1>4. nest \in [1 .. Len(original) -> Loop]
  BY <1>1, <1>2, <1>3
<1>5. nest \in Seq(Loop) /\ Len(nest) = Len(original) /\ DOMAIN nest = 1 .. Len(original)
  BY <1>1, <1>4, FunctionIsSeq
<1>6. PICK used \in SUBSET DOMAIN original : uses = [d \in used |-> iv(d, 0)]
  BY DEF Init
<1>7. \A d \in used : iv(d, 0) \in Bound /\ iv(d, 0).of = d
  BY <1>1 DEF iv, Bound
<1>8. Typed
  <2>1. uses \in [DOMAIN uses -> Bound]
    BY <1>6, <1>7
  <2>2. pass \in Range(Passes) /\ at \in 1 .. Len(nest) + 1
    BY <1>1, <1>5, PassNames DEF Init
  <2>3. original \in Nests /\ merged \subseteq DOMAIN uses /\ cut \in BOOLEAN
    BY DEF Init
  <2> QED BY <1>5, <2>1, <2>2, <2>3 DEF Typed
<1>9. \A n \in DOMAIN nest : /\ nest[n].iv = n /\ hasConstantBounds(nest[n])
                            /\ Len(nest[n].ub) = 1 /\ nest[n] \in Loop
  BY <1>1, <1>2, <1>3, <1>5
<1>10. IvsDistinct /\ PlainBeforeTiling
  BY <1>1, <1>5, <1>9 DEF IvsDistinct, PlainBeforeTiling, plain
<1>11. BoundsOuter
  BY <1>9, ConstantBoundsUseNothing DEF BoundsOuter
<1>12. UsesOfLoops
  BY <1>1, <1>5, <1>6, <1>7, <1>9 DEF UsesOfLoops
<1>13. \A d \in DOMAIN uses : uses[d].of # None
  BY <1>1, <1>6, <1>7 DEF None
<1>14. AsRead /\ WalkClean
  BY <1>5, <1>9, <1>13 DEF AsRead, WalkClean, Removing, Init
<1> QED BY <1>8, <1>10, <1>11, <1>12, <1>14 DEF NestInv

-----------------------------------------------------------------------------
(* Every pass keeps the invariant. *)
LEMMA SkipKeeps == ASSUME NestInv, Skip PROVE NestInv'
<1>1. /\ pass \in Range(Passes) /\ pass # "done" /\ at = 1 /\ pass' = next(pass)
      /\ UNCHANGED <<nest, top, uses, at, original, merged, cut>>
  BY DEF NestInv, Typed, Skip
<1>2. pass' \in Range(Passes) /\ pass' # "reorder"
      /\ (pass' \in {"merge", "remove", "cse", "tile"} =>
            pass \in {"reorder", "merge", "remove", "cse"})
      /\ (pass' = "merge" => pass = "reorder")
  BY <1>1, NextPass, PassNames
<1>3. Typed'
  BY <1>1, <1>2 DEF NestInv, Typed
<1>4. IvsDistinct' /\ BoundsOuter' /\ UsesOfLoops'
  BY <1>1 DEF NestInv, IvsDistinct, BoundsOuter, UsesOfLoops
<1>5. PlainBeforeTiling'
  BY <1>1, <1>2 DEF NestInv, PlainBeforeTiling, plain
<1>6. AsRead'
  BY <1>1, <1>2 DEF NestInv, AsRead
<1>7. WalkClean'
  <2>1. Len(nest) \in Nat
    BY NestFacts DEF NestInv
  <2>2. 1 .. at - 1 = {}
    BY <1>1
  <2> QED BY <1>1, <2>2 DEF WalkClean
<1> QED BY <1>3, <1>4, <1>5, <1>6, <1>7 DEF NestInv

(* orders is a permutation of the loops. *)
LEMMA OrdersPermute ==
  ASSUME NEW n \in Nat, NEW orders \in SetToSeqs(1 .. n)
  PROVE  /\ orders \in [1 .. n -> 1 .. n] /\ DOMAIN orders = 1 .. n
         /\ \A j \in 1 .. n : \E i \in 1 .. n : orders[i] = j
<1>1. IsFiniteSet(1 .. n) /\ Cardinality(1 .. n) = n
  BY FS_Interval
<1>2. orders \in [1 .. n -> 1 .. n]
      /\ \A i, j \in 1 .. n : orders[i] = orders[j] => i = j
  BY <1>1 DEF SetToSeqs
<1>3. orders \in Injection(1 .. n, 1 .. n)
  BY <1>2 DEF Injection, IsInjective
<1>4. orders \in Surjection(1 .. n, 1 .. n)
  BY <1>1, <1>3, FS_Injection
<1> QED BY <1>2, <1>4 DEF Surjection

LEMMA LoopReorderKeeps ==
  ASSUME NestInv, NEW orders \in SetToSeqs(DOMAIN original), LoopReorder(orders)
  PROVE  NestInv'
<1>1. /\ pass = "reorder" /\ pass' = "merge"
      /\ UNCHANGED <<top, at, original, merged, cut>>
  BY NextPass DEF LoopReorder
<1>2. /\ Len(nest) \in Nat /\ DOMAIN nest = 1 .. Len(nest) /\ Len(nest) = Len(original)
      /\ DOMAIN original = 1 .. Len(nest)
      /\ \A n \in DOMAIN nest : nest[n] \in Loop
      /\ \A n \in DOMAIN nest : nest[n].iv = n /\ plain(nest[n])
      /\ \A d \in DOMAIN uses : uses[d].of # None
  BY <1>1, NestFacts DEF NestInv, AsRead, PlainBeforeTiling
<1>3. /\ orders \in [DOMAIN nest -> DOMAIN nest] /\ DOMAIN orders = DOMAIN nest
      /\ \A j \in DOMAIN nest : \E i \in DOMAIN nest : orders[i] = j
  <2>1. PICK n \in Nat : n = Len(nest)
    BY <1>2
  <2>2. DOMAIN original = 1 .. n /\ DOMAIN nest = 1 .. n
    BY <1>2, <2>1
  <2>3. orders \in SetToSeqs(1 .. n)
    BY <2>2
  <2>4. /\ orders \in [1 .. n -> 1 .. n] /\ DOMAIN orders = 1 .. n
        /\ \A j \in 1 .. n : \E i \in 1 .. n : orders[i] = j
    BY <2>3, OrdersPermute
  <2> QED BY <2>2, <2>4
<1> DEFINE loop(i) == [nest[i] EXCEPT !.lb = nest[orders[i]].lb, !.ub = nest[orders[i]].ub]
<1>4. ASSUME NEW i \in DOMAIN nest
      PROVE  /\ loop(i) \in Loop /\ loop(i).iv = nest[i].iv
             /\ loop(i).lb = nest[orders[i]].lb /\ loop(i).ub = nest[orders[i]].ub
  <2>1. nest[i] \in Loop /\ nest[orders[i]] \in Loop
    BY <1>2, <1>3
  <2> QED BY <2>1 DEF Loop
<1>5. ASSUME NEW i \in DOMAIN nest
      PROVE  usedBy(loop(i)) = {} /\ plain(loop(i))
  <2>1. plain(nest[orders[i]]) /\ plain(nest[i])
    BY <1>2, <1>3
  <2>2. plain(loop(i))
    BY <1>4, <2>1 DEF plain, hasConstantBounds
  <2> QED BY <1>4, <2>2, ConstantBoundsUseNothing DEF plain
<1>6. nest' = [i \in 1 .. Len(nest) |-> loop(i)]
  BY <1>2 DEF LoopReorder
<1> HIDE DEF loop
<1>7. nest' \in Seq(Loop) /\ Len(nest') = Len(nest) /\ DOMAIN nest' = DOMAIN nest
  BY <1>2, <1>4, <1>6, FunctionIsSeq
<1>8. \A n \in DOMAIN nest : nest'[n] = loop(n)
  BY <1>2, <1>6
<1>9. /\ DOMAIN uses' = DOMAIN uses /\ uses' \in [DOMAIN uses -> Bound]
      /\ \A d \in DOMAIN uses : uses'[d].of \in {nest[n].iv : n \in DOMAIN nest}
  <2>1. ASSUME NEW d \in DOMAIN uses
        PROVE  LET i == CHOOSE i \in DOMAIN orders :
                          uses[d].of = nest[orders[orders[i]]].iv
               IN  i \in DOMAIN nest
    <3>1. uses[d].of \in {nest[n].iv : n \in DOMAIN nest}
      BY <1>2 DEF NestInv, UsesOfLoops
    <3>2. PICK n \in DOMAIN nest : uses[d].of = nest[n].iv
      BY <3>1
    <3>3. PICK k \in DOMAIN nest : orders[k] = n
      BY <1>3
    <3>4. PICK i \in DOMAIN nest : orders[i] = k
      BY <1>3
    <3> QED BY <1>3, <3>2, <3>3, <3>4
  <2>2. ASSUME NEW d \in DOMAIN uses, NEW i \in DOMAIN nest
        PROVE  /\ iv(nest[orders[i]].iv, uses[d].plus) \in Bound
               /\ iv(nest[orders[i]].iv, uses[d].plus).of \in {nest[n].iv : n \in DOMAIN nest}
    <3>1. nest[orders[i]] \in Loop /\ uses[d] \in Bound
      BY <1>2, <1>3 DEF NestInv, Typed
    <3> QED BY <1>3, <3>1 DEF Loop, Bound, iv
  <2>3. uses' = [d \in DOMAIN uses |->
                   LET i == CHOOSE i \in DOMAIN orders :
                              uses[d].of = nest[orders[orders[i]]].iv
                   IN  iv(nest[orders[i]].iv, uses[d].plus)]
    BY DEF LoopReorder
  <2>4. ASSUME NEW d \in DOMAIN uses
        PROVE  \E i \in DOMAIN nest : uses'[d] = iv(nest[orders[i]].iv, uses[d].plus)
    BY <2>1, <2>3
  <2>5. DOMAIN uses' = DOMAIN uses
    BY <2>3
  <2>6. \A d \in DOMAIN uses : /\ uses'[d] \in Bound
                               /\ uses'[d].of \in {nest[n].iv : n \in DOMAIN nest}
    BY <2>2, <2>4
  <2> QED BY <2>3, <2>5, <2>6
<1>10. IvsDistinct' /\ BoundsOuter'
  BY <1>4, <1>5, <1>7, <1>8, SameIvs DEF NestInv
<1>11. UsesOfLoops'
  BY <1>4, <1>7, <1>8, <1>9 DEF UsesOfLoops
<1>12. Typed'
  <2>1. pass' \in Range(Passes)
    BY <1>1, PassNames
  <2> QED BY <1>1, <1>7, <1>9, <2>1 DEF NestInv, Typed
<1>13. PlainBeforeTiling'
  BY <1>1, <1>5, <1>7, <1>8 DEF PlainBeforeTiling, plain
<1>14. AsRead' /\ WalkClean'
  BY <1>1, <1>2, <1>7 DEF NestInv, AsRead, WalkClean, Removing
<1> QED BY <1>10, <1>11, <1>12, <1>13, <1>14 DEF NestInv

(* The bound that merge-loop gives the first loop. *)
LEMMA MergedBoundInt ==
  ASSUME NEW touched, IsFiniteSet(touched), \A n \in touched : nest[n] \in Loop
  PROVE  FoldSet(LAMBDA n, product : product * tripCount(nest[n]), 1, touched) \in Int
<1> DEFINE g == [n \in touched |-> tripCount(nest[n])]
           body(f) == [s \in SUBSET touched |->
                         IF s = {} THEN 1
                         ELSE LET x == CHOOSE y \in s : TRUE
                              IN  f[s \ {x}] * tripCount(nest[x])]
           fold == CHOOSE f : f = body(f)
<1>1. g \in [touched -> Int] /\ \A x \in touched : g[x] = tripCount(nest[x])
  BY TripInt
<1> HIDE DEF g
<1>2. ASSUME NEW s \in SUBSET touched, s # {}, NEW x, x = CHOOSE y \in s : TRUE
      PROVE  g[x] = tripCount(nest[x])
  BY <1>1, <1>2
<1>3. PICK f \in [SUBSET touched -> Int] : ProductSteps(f, g, SUBSET touched)
  BY <1>1, ProductExists
<1>4. f = body(f)
  <2>1. ASSUME NEW s \in SUBSET touched PROVE f[s] = body(f)[s]
    <3>1. PICK x : x = CHOOSE y \in s : TRUE
      OBVIOUS
    <3>2. f[s] = IF s = {} THEN 1 ELSE f[s \ {x}] * g[x]
      BY <1>3, <3>1 DEF ProductSteps
    <3>3. body(f)[s] = IF s = {} THEN 1 ELSE f[s \ {x}] * tripCount(nest[x])
      BY <3>1
    <3>4. s # {} => g[x] = tripCount(nest[x])
      BY <1>2, <3>1
    <3> HIDE DEF body
    <3> QED BY <3>2, <3>3, <3>4
  <2> QED BY <1>3, <2>1
<1>5. fold = body(fold)
  BY <1>4
<1>6. ProductSteps(fold, g, SUBSET touched)
  <2> HIDE DEF fold
  <2>1. ASSUME NEW s \in SUBSET touched
        PROVE  fold[s] = IF s = {} THEN 1 ELSE LET x == CHOOSE y \in s : TRUE
                                               IN  fold[s \ {x}] * g[x]
    <3>1. PICK x : x = CHOOSE y \in s : TRUE
      OBVIOUS
    <3>2. body(fold)[s] = IF s = {} THEN 1 ELSE fold[s \ {x}] * tripCount(nest[x])
      BY <3>1
    <3>3. s # {} => g[x] = tripCount(nest[x])
      BY <1>2, <3>1
    <3> HIDE DEF body
    <3>4. fold[s] = body(fold)[s]
      BY <1>5
    <3> QED BY <3>1, <3>2, <3>3, <3>4
  <2> QED BY <2>1 DEF ProductSteps
<1>7. fold[touched] \in Int
  BY <1>1, <1>6, ProductsAreInt
<1> QED BY <1>7 DEF FoldSet, MapThenFoldSet

LEMMA MergeLoopKeeps ==
  ASSUME NestInv, NEW indices \in SetToAllKPermutations(0 .. Len(original) - 1),
         Len(indices) \in 1 .. MaxMerged, MergeLoop(indices)
  PROVE  NestInv'
<1> DEFINE touched == {Len(nest) - indices[i] : i \in DOMAIN indices}
           first == Len(nest) - indices[1]
           bound == FoldSet(LAMBDA n, product : product * tripCount(nest[n]), 1, touched)
<1>1. /\ pass = "merge" /\ UNCHANGED <<top, uses, at, pass, original, cut>>
      /\ merged' = merged \cup {d \in DOMAIN uses : \E n \in touched : uses[d].of = nest[n].iv}
      /\ nest' = [n \in DOMAIN nest |->
                    IF n \in touched
                    THEN [nest[n] EXCEPT !.ub = <<const(IF n = first THEN bound ELSE 1)>>]
                    ELSE nest[n]]
  BY DEF MergeLoop
<1>2. /\ Len(nest) \in Nat /\ DOMAIN nest = 1 .. Len(nest) /\ Len(nest) = Len(original)
      /\ \A n \in DOMAIN nest : nest[n] \in Loop /\ plain(nest[n])
  BY <1>1, NestFacts DEF NestInv, AsRead, PlainBeforeTiling
<1>3. touched \in SUBSET DOMAIN nest
  <2>1. PICK s \in SUBSET (0 .. Len(original) - 1) : indices \in SetToSeqs(s)
    BY DEF SetToAllKPermutations
  <2>2. indices \in [1 .. Cardinality(s) -> s]
    BY <2>1 DEF SetToSeqs
  <2>3. \A i \in DOMAIN indices : indices[i] \in 0 .. Len(original) - 1
    BY <2>2
  <2>4. \A k \in 0 .. Len(original) - 1 : Len(nest) - k \in 1 .. Len(nest)
    BY <1>2
  <2> QED BY <1>2, <2>3, <2>4
<1>4. bound \in Int
  <2> HIDE DEF touched
  <2>0. IsFiniteSet(DOMAIN nest)
    BY <1>2, FS_Interval
  <2>1. IsFiniteSet(touched)
    BY <1>3, <2>0, FS_Subset
  <2>2. \A n \in touched : nest[n] \in Loop
    BY <1>2, <1>3
  <2> QED BY <2>1, <2>2, MergedBoundInt
<1> HIDE DEF touched, first, bound
<1>5. ASSUME NEW n \in DOMAIN nest
      PROVE  nest'[n] \in Loop /\ nest'[n].iv = nest[n].iv /\ plain(nest'[n])
  <2>1. nest[n] \in Loop /\ plain(nest[n])
    BY <1>2
  <2>2. CASE n \in touched
    <3>1. PICK t \in Int : nest'[n] = [nest[n] EXCEPT !.ub = <<const(t)>>]
      BY <1>1, <1>4, <2>2
    <3>2. const(t) \in Bound /\ const(t).of = None
      BY DEF const, Bound, None
    <3>3. /\ <<const(t)>> \in Seq(Bound) \ {<<>>} /\ Len(<<const(t)>>) = 1
          /\ Range(<<const(t)>>) = {const(t)}
      BY <3>2 DEF Range
    <3>4. /\ nest'[n] \in Loop /\ nest'[n].iv = nest[n].iv /\ nest'[n].lb = nest[n].lb
          /\ nest'[n].ub = <<const(t)>>
      BY <2>1, <3>1, <3>3 DEF Loop
    <3>5. plain(nest'[n])
      BY <2>1, <3>2, <3>3, <3>4 DEF plain, hasConstantBounds
    <3> QED BY <3>4, <3>5
  <2>3. CASE n \notin touched
    BY <1>1, <2>1, <2>3
  <2> QED BY <2>2, <2>3
<1>6. nest' \in Seq(Loop) /\ Len(nest') = Len(nest) /\ DOMAIN nest' = DOMAIN nest
  <2>1. nest' \in [1 .. Len(nest) -> Loop]
    BY <1>1, <1>2, <1>5
  <2> QED BY <1>2, <2>1, FunctionIsSeq
<1>7. IvsDistinct' /\ BoundsOuter' /\ UsesOfLoops'
  <2>1. \A n \in DOMAIN nest : usedBy(nest'[n]) = {}
    BY <1>5, ConstantBoundsUseNothing DEF plain
  <2> QED BY <1>1, <1>5, <1>6, <2>1, SameIvs DEF NestInv
<1>8. Typed'
  BY <1>1, <1>6 DEF NestInv, Typed
<1>9. PlainBeforeTiling'
  BY <1>1, <1>5, <1>6 DEF PlainBeforeTiling, plain
<1>10. AsRead' /\ WalkClean'
  BY <1>1, <1>2, <1>6 DEF NestInv, AsRead, WalkClean, Removing
<1> QED BY <1>7, <1>8, <1>9, <1>10 DEF NestInv

LEMMA PassesByKeeps == ASSUME NestInv, PassesBy PROVE NestInv'
<1>1. /\ Removing /\ at \in DOMAIN nest /\ ~ Removable(nest[at]) /\ at' = at + 1
      /\ UNCHANGED <<nest, top, uses, pass, original, merged, cut>>
  BY DEF PassesBy, RemovingPass, Removing
<1>2. DOMAIN nest = 1 .. Len(nest) /\ Len(nest) \in Nat
  BY NestFacts DEF NestInv
<1>3. Typed'
  BY <1>1, <1>2 DEF NestInv, Typed
<1>4. IvsDistinct' /\ BoundsOuter' /\ UsesOfLoops' /\ PlainBeforeTiling' /\ AsRead'
  BY <1>1 DEF NestInv, IvsDistinct, BoundsOuter, UsesOfLoops, PlainBeforeTiling, plain, AsRead
<1>5. WalkClean'
  <2>1. \A n \in 1 .. at' - 1 : ~ Removable(nest[n])
    <3>1. \A n \in 1 .. at' - 1 : n \in 1 .. at - 1 \/ n = at
      BY <1>1, <1>2
    <3> QED BY <1>1, <3>1 DEF NestInv, WalkClean
  <2> QED BY <1>1, <2>1 DEF WalkClean, Removing
<1> QED BY <1>3, <1>4, <1>5 DEF NestInv

LEMMA RemovedKeeps == ASSUME NestInv, Removed PROVE NestInv'
<1>1. /\ pass \in {"remove", "removeAgain"} /\ pass' \in {"cse", "done"} /\ at' = 1
      /\ (pass' = "cse" => pass = "remove")
      /\ UNCHANGED <<nest, top, uses, original, merged, cut>>
  BY NextPass DEF Removed
<1>2. DOMAIN nest = 1 .. Len(nest) /\ Len(nest) \in Nat
  BY NestFacts DEF NestInv
<1>3. Typed'
  BY <1>1, <1>2, PassNames DEF NestInv, Typed
<1>4. IvsDistinct' /\ BoundsOuter' /\ UsesOfLoops'
  BY <1>1 DEF NestInv, IvsDistinct, BoundsOuter, UsesOfLoops
<1>5. PlainBeforeTiling' /\ AsRead' /\ WalkClean'
  BY <1>1 DEF NestInv, PlainBeforeTiling, plain, AsRead, WalkClean, Removing
<1> QED BY <1>3, <1>4, <1>5 DEF NestInv

LEMMA CSEKeeps == ASSUME NestInv, CSE PROVE NestInv'
<1>1. pass = "cse" /\ pass' = "tile" /\ UNCHANGED <<uses, at, original, merged, cut>>
  BY NextPass DEF CSE
<1>2. /\ DOMAIN nest = 1 .. Len(nest) /\ Len(nest) \in Nat
      /\ \A n \in DOMAIN nest : nest[n] \in Loop
  BY NestFacts DEF NestInv
<1>3. PICK left : nest' = [n \in DOMAIN nest |-> [nest[n] EXCEPT !.consts = left[n]]]
                  /\ \A n \in DOMAIN nest : left[n] \subseteq nest[n].consts
  <2> DEFINE live(consts) == {c \in consts : c.used}
             outer(n) == live(top) \cup UNION {live(nest[m].consts) : m \in 1 .. n - 1}
             left == [n \in DOMAIN nest |-> live(nest[n].consts) \ outer(n)]
  <2>1. nest' = [n \in DOMAIN nest |->
                   [nest[n] EXCEPT !.consts = live(@) \ outer(n)]]
    BY DEF CSE
  <2>2. nest' = [n \in DOMAIN nest |-> [nest[n] EXCEPT !.consts = left[n]]]
    BY <2>1
  <2>3. \A n \in DOMAIN nest : left[n] \subseteq nest[n].consts
    OBVIOUS
  <2> HIDE DEF left
  <2> QED BY <2>2, <2>3
<1>4. ASSUME NEW n \in DOMAIN nest
      PROVE  /\ nest'[n] \in Loop /\ nest'[n].iv = nest[n].iv
             /\ nest'[n].lb = nest[n].lb /\ nest'[n].ub = nest[n].ub
  <2>1. nest'[n] = [nest[n] EXCEPT !.consts = left[n]] /\ nest[n] \in Loop
        /\ left[n] \subseteq nest[n].consts
    BY <1>2, <1>3
  <2> QED BY <2>1 DEF Loop
<1>5. nest' \in Seq(Loop) /\ Len(nest') = Len(nest) /\ DOMAIN nest' = DOMAIN nest
  <2>1. nest' \in [1 .. Len(nest) -> Loop]
    BY <1>2, <1>3, <1>4
  <2> QED BY <1>2, <2>1, FunctionIsSeq
<1>6. IvsDistinct' /\ BoundsOuter' /\ UsesOfLoops'
  <2>1. \A n \in DOMAIN nest : usedBy(nest'[n]) = usedBy(nest[n])
    BY <1>4 DEF usedBy
  <2> QED BY <1>1, <1>4, <1>5, <2>1, SameIvs DEF NestInv
<1>7. Typed'
  BY <1>1, <1>5, PassNames DEF NestInv, Typed
<1>8. PlainBeforeTiling'
  BY <1>1, <1>4, <1>5 DEF NestInv, PlainBeforeTiling, plain, hasConstantBounds
<1>9. AsRead' /\ WalkClean'
  BY <1>1 DEF NestInv, AsRead, WalkClean, Removing
<1> QED BY <1>6, <1>7, <1>8, <1>9 DEF NestInv

LEMMA TailOf ==
  ASSUME NEW s \in Seq(Loop), NEW w \in Nat, w <= Len(s)
  PROVE  /\ SubSeq(s, w + 1, Len(s)) \in Seq(Loop)
         /\ Len(SubSeq(s, w + 1, Len(s))) = Len(s) - w
         /\ \A n \in 1 .. Len(s) - w : SubSeq(s, w + 1, Len(s))[n] = s[w + n]
<1>1. PICK size \in Nat : size = Len(s)
  BY LenProperties
<1>2. \A n \in w + 1 .. size : s[n] \in Loop
  <2>1. \A n \in w + 1 .. size : n \in 1 .. Len(s)
    BY <1>1
  <2> QED BY <2>1, ElementOfSeq
<1>3. w + 1 \in Int /\ size \in Int
  OBVIOUS
<1>4. /\ SubSeq(s, w + 1, size) \in Seq(Loop)
      /\ Len(SubSeq(s, w + 1, size)) = IF w + 1 <= size THEN size - (w + 1) + 1 ELSE 0
      /\ \A n \in 1 .. size - (w + 1) + 1 : SubSeq(s, w + 1, size)[n] = s[w + 1 + n - 1]
  BY <1>2, <1>3, SubSeqProperties
<1> DEFINE tail == SubSeq(s, w + 1, size)
<1> HIDE DEF tail
<1>5. Len(tail) = size - w
  BY <1>1, <1>4 DEF tail
<1>6. ASSUME NEW n \in 1 .. size - w
      PROVE  tail[n] = s[w + n]
  <2>1. w + 1 + n - 1 = w + n /\ n \in 1 .. size - (w + 1) + 1
    OBVIOUS
  <2>2. tail[n] = s[w + 1 + n - 1]
    BY <1>4, <2>1 DEF tail
  <2> QED BY <2>1, <2>2
<1> QED BY <1>1, <1>4, <1>5, <1>6 DEF tail

(* The loop that stays at n when loop at is removed was at keep(n).         *)
keep(n) == IF n < at THEN n ELSE n + 1

LEMMA RemoveAtProperties ==
  ASSUME Typed, at \in DOMAIN nest
  PROVE  /\ Len(RemoveAt(nest, at)) = Len(nest) - 1
         /\ DOMAIN RemoveAt(nest, at) = 1 .. Len(nest) - 1
         /\ \A n \in 1 .. Len(nest) - 1 : RemoveAt(nest, at)[n] = nest[keep(n)]
<1>1. /\ DOMAIN nest = 1 .. Len(nest) /\ Len(nest) \in Nat /\ at \in 1 .. Len(nest)
      /\ \A n \in 1 .. Len(nest) : nest[n] \in Loop
  BY NestFacts
<1> DEFINE before == SubSeq(nest, 1, at - 1)
           behind == SubSeq(nest, at + 1, Len(nest))
<1>2. /\ before \in Seq(Loop) /\ Len(before) = at - 1
      /\ \A n \in 1 .. at - 1 : before[n] = nest[n]
  <2>1. \A n \in 1 .. at - 1 : nest[n] \in Loop
    BY <1>1
  <2>2. /\ before \in Seq(Loop) /\ Len(before) = IF 1 <= at - 1 THEN at - 1 - 1 + 1 ELSE 0
        /\ \A n \in 1 .. at - 1 - 1 + 1 : before[n] = nest[1 + n - 1]
    BY <1>1, <2>1, SubSeqProperties
  <2> HIDE DEF before
  <2> QED BY <1>1, <2>2
<1>3. /\ behind \in Seq(Loop) /\ Len(behind) = Len(nest) - at
      /\ \A n \in 1 .. Len(nest) - at : behind[n] = nest[at + n]
  <2>1. nest \in Seq(Loop) /\ at \in Nat /\ at <= Len(nest)
    BY <1>1 DEF Typed
  <2> QED BY <2>1, TailOf
<1>4. RemoveAt(nest, at) = before \o behind
  BY DEF RemoveAt
<1> HIDE DEF before, behind
<1>5. /\ Len(before \o behind) = Len(nest) - 1 /\ before \o behind \in Seq(Loop)
      /\ \A n \in 1 .. Len(nest) - 1 :
           (before \o behind)[n] = IF n <= at - 1 THEN before[n] ELSE behind[n - (at - 1)]
  <2>1. /\ before \o behind \in Seq(Loop)
        /\ Len(before \o behind) = Len(before) + Len(behind)
        /\ \A n \in 1 .. Len(before) + Len(behind) :
             (before \o behind)[n] = IF n <= Len(before) THEN before[n]
                                     ELSE behind[n - Len(before)]
    BY <1>2, <1>3, ConcatProperties
  <2>2. Len(before) + Len(behind) = Len(nest) - 1
    BY <1>1, <1>2, <1>3
  <2> QED BY <1>2, <2>1, <2>2
<1>6. ASSUME NEW n \in 1 .. Len(nest) - 1
      PROVE  (before \o behind)[n] = nest[keep(n)]
  <2>1. CASE n < at
    <3>1. n \in 1 .. at - 1
      BY <1>1, <2>1
    <3> QED BY <1>1, <1>2, <1>5, <2>1, <3>1 DEF keep
  <2>2. CASE ~ (n < at)
    <3>1. n - (at - 1) \in 1 .. Len(nest) - at /\ at + (n - (at - 1)) = n + 1
          /\ ~ (n <= at - 1)
      BY <1>1, <2>2
    <3>2. (before \o behind)[n] = behind[n - (at - 1)]
      BY <1>5, <3>1
    <3>3. behind[n - (at - 1)] = nest[at + (n - (at - 1))]
      BY <1>3, <3>1
    <3> QED BY <2>2, <3>1, <3>2, <3>3 DEF keep
  <2> QED BY <2>1, <2>2
<1> QED BY <1>4, <1>5, <1>6, LenProperties

LEMMA LoopRemoveKeeps == ASSUME NestInv, LoopRemove PROVE NestInv'
<1> DEFINE gone == nest[at].iv
           lower == nest[at].lb.plus
           moved == nest[at].consts \cup {constant(lower, IvUsed(gone))}
           kept(n) == [inLoop(nest[keep(n)], gone, lower) EXCEPT
                         !.consts = IF n = at - 1 THEN @ \cup moved ELSE @]
<1>1. /\ Removing /\ at \in DOMAIN nest /\ Removable(nest[at]) /\ at' = at
      /\ uses' = [d \in DOMAIN uses |-> replaceUses(uses[d], gone, lower)]
      /\ UNCHANGED <<pass, original, merged, cut>>
  BY DEF LoopRemove, RemovingPass, Removing, nextWithin
<1>2. /\ DOMAIN nest = 1 .. Len(nest) /\ Len(nest) \in Nat
      /\ \A n \in DOMAIN nest : nest[n] \in Loop
  BY NestFacts DEF NestInv
<1>3. /\ gone \in Nat \ {None} /\ lower \in Int
      /\ moved \in SUBSET [value : Int, used : BOOLEAN]
  <2>1. nest[at] \in Loop
    BY <1>1, <1>2
  <2>2. gone \in Nat \ {None} /\ lower \in Int
        /\ nest[at].consts \in SUBSET [value : Int, used : BOOLEAN]
    BY <2>1 DEF Loop, Bound
  <2>3. IvUsed(gone) \in BOOLEAN
    BY DEF IvUsed
  <2>4. constant(lower, IvUsed(gone)) \in [value : Int, used : BOOLEAN]
    BY <2>2, <2>3 DEF constant
  <2> QED BY <2>2, <2>4
<1>4. ASSUME NEW n \in 1 .. Len(nest) - 1
      PROVE  keep(n) \in 1 .. Len(nest) /\ keep(n) # at
  BY <1>1, <1>2 DEF keep
<1>5. nest' = [n \in 1 .. Len(nest) - 1 |-> kept(n)]
  <2>1. /\ DOMAIN RemoveAt(nest, at) = 1 .. Len(nest) - 1
        /\ \A n \in 1 .. Len(nest) - 1 : RemoveAt(nest, at)[n] = nest[keep(n)]
    BY <1>1, RemoveAtProperties DEF NestInv
  <2>2. nest' = [n \in DOMAIN RemoveAt(nest, at) |->
                   [inLoop(RemoveAt(nest, at)[n], gone, lower) EXCEPT
                      !.consts = IF n = at - 1 THEN @ \cup moved ELSE @]]
    BY DEF LoopRemove
  <2> HIDE DEF gone, lower, moved
  <2> QED BY <2>1, <2>2
<1> HIDE DEF gone, lower, moved
<1>6. ASSUME NEW n \in 1 .. Len(nest) - 1
      PROVE  /\ kept(n) \in Loop /\ kept(n).iv = nest[keep(n)].iv
             /\ usedBy(kept(n)) \subseteq usedBy(nest[keep(n)]) \ {gone}
             /\ Len(kept(n).ub) = Len(nest[keep(n)].ub)
             /\ gone \notin usedBy(nest[keep(n)]) =>
                  /\ kept(n).lb = nest[keep(n)].lb /\ kept(n).ub = nest[keep(n)].ub
                  /\ kept(n).step = nest[keep(n)].step
  <2> DEFINE inner == inLoop(nest[keep(n)], gone, lower)
  <2>1. nest[keep(n)] \in Loop
    BY <1>2, <1>4
  <2>2. /\ inner \in Loop /\ inner.iv = nest[keep(n)].iv
        /\ usedBy(inner) \subseteq usedBy(nest[keep(n)]) \ {gone}
        /\ Len(inner.ub) = Len(nest[keep(n)].ub)
        /\ gone \notin usedBy(nest[keep(n)]) => inner = nest[keep(n)]
    BY <1>3, <2>1, InLoopProperties
  <2>3. kept(n) = [inner EXCEPT !.consts = IF n = at - 1 THEN @ \cup moved ELSE @]
    OBVIOUS
  <2> HIDE DEF inner, kept
  <2>4. /\ kept(n) \in Loop /\ kept(n).iv = inner.iv /\ kept(n).step = inner.step
        /\ kept(n).lb = inner.lb /\ kept(n).ub = inner.ub
    BY <1>3, <2>2, <2>3 DEF Loop
  <2>5. usedBy(kept(n)) = usedBy(inner)
    BY <2>4 DEF usedBy
  <2> QED BY <2>2, <2>4, <2>5
<1> HIDE DEF kept
<1>7. /\ nest' \in Seq(Loop) /\ Len(nest') = Len(nest) - 1
      /\ DOMAIN nest' = 1 .. Len(nest) - 1
  <2>1. Len(nest) - 1 \in Nat
    BY <1>1, <1>2
  <2>2. nest' \in [1 .. Len(nest) - 1 -> Loop]
    BY <1>5, <1>6
  <2> QED BY <2>1, <2>2, FunctionIsSeq
<1>8. \A n \in 1 .. Len(nest) - 1 : nest'[n] = kept(n)
  BY <1>5
(* Where the loop at m has gone, if it is not the one removed.              *)
<1>9. ASSUME NEW m \in 1 .. Len(nest), m # at
      PROVE  \E n \in 1 .. Len(nest) - 1 : keep(n) = m
  <2>1. CASE m < at
    BY <1>1, <1>2, <2>1 DEF keep
  <2>2. CASE ~ (m < at)
    <3>1. m - 1 \in 1 .. Len(nest) - 1 /\ ~ (m - 1 < at) /\ m - 1 + 1 = m
      BY <1>1, <1>2, <1>9, <2>2
    <3> QED BY <3>1 DEF keep
  <2> QED BY <2>1, <2>2
<1>10. IvsDistinct'
  <2> SUFFICES ASSUME NEW m \in 1 .. Len(nest) - 1, NEW n \in 1 .. Len(nest) - 1,
                      kept(m).iv = kept(n).iv
               PROVE  m = n
    BY <1>7, <1>8 DEF IvsDistinct
  <2>1. nest[keep(m)].iv = nest[keep(n)].iv
    BY <1>6
  <2>2. keep(m) = keep(n)
    BY <1>2, <1>4, <2>1 DEF NestInv, IvsDistinct
  <2> QED BY <1>1, <1>2, <2>2 DEF keep
<1>11. BoundsOuter'
  <2> SUFFICES ASSUME NEW n \in 1 .. Len(nest) - 1, NEW i \in usedBy(kept(n))
               PROVE  \E m \in 1 .. n - 1 : nest'[m].iv = i
    BY <1>7, <1>8 DEF BoundsOuter
  <2>1. i \in usedBy(nest[keep(n)]) /\ i # gone
    BY <1>6
  <2>2. PICK m \in 1 .. keep(n) - 1 : nest[m].iv = i
    BY <1>2, <1>4, <2>1 DEF NestInv, BoundsOuter
  <2>3. m # at /\ m \in 1 .. Len(nest)
    BY <1>1, <1>2, <1>4, <2>1, <2>2 DEF gone
  <2>4. PICK k \in 1 .. Len(nest) - 1 : keep(k) = m
    BY <1>9, <2>3
  <2>5. k \in 1 .. n - 1
    BY <1>1, <1>2, <2>2, <2>4 DEF keep
  <2> QED BY <1>6, <1>8, <2>2, <2>4, <2>5
<1>12. /\ DOMAIN uses' = DOMAIN uses /\ uses' \in [DOMAIN uses -> Bound]
       /\ UsesOfLoops'
  <2>1. ASSUME NEW d \in DOMAIN uses
        PROVE  /\ uses'[d] \in Bound /\ uses'[d].of \in {None, uses[d].of} \ {gone}
    <3>1. uses[d] \in Bound
      BY DEF NestInv, Typed
    <3> QED BY <1>1, <1>3, <3>1 DEF replaceUses, const, Bound, None
  <2>2. ASSUME NEW d \in DOMAIN uses, uses'[d].of # None
        PROVE  \E n \in 1 .. Len(nest) - 1 : nest'[n].iv = uses'[d].of
    <3>1. uses'[d].of = uses[d].of /\ uses[d].of # gone
      BY <2>1, <2>2
    <3>2. PICK m \in 1 .. Len(nest) : nest[m].iv = uses[d].of
      BY <1>2, <2>2, <3>1 DEF NestInv, UsesOfLoops
    <3>3. m # at
      BY <3>1, <3>2 DEF gone
    <3>4. PICK k \in 1 .. Len(nest) - 1 : keep(k) = m
      BY <1>9, <3>3
    <3> QED BY <1>6, <1>8, <3>1, <3>2, <3>4
  <2>3. DOMAIN uses' = DOMAIN uses
    BY <1>1
  <2>4. uses' \in [DOMAIN uses -> Bound]
    BY <1>1, <2>1, <2>3
  <2> QED BY <1>7, <2>2, <2>3, <2>4 DEF UsesOfLoops
<1>13. Typed'
  <2>1. at' \in 1 .. Len(nest') + 1
    BY <1>1, <1>2, <1>7
  <2> QED BY <1>1, <1>7, <1>12, <2>1 DEF NestInv, Typed
<1>14. PlainBeforeTiling'
  <2> SUFFICES ASSUME pass = "remove", NEW n \in 1 .. Len(nest) - 1
               PROVE  /\ hasConstantBounds(nest'[n]) /\ Len(nest'[n].ub) = 1
                      /\ nest'[n].iv \in 1 .. Len(original)
    BY <1>1, <1>7 DEF PlainBeforeTiling, plain, Removing
  <2>1. plain(nest[keep(n)]) /\ nest[keep(n)] \in Loop
    BY <1>2, <1>4 DEF NestInv, PlainBeforeTiling
  <2>2. usedBy(kept(n)) = {}
    BY <1>6, <2>1, ConstantBoundsUseNothing DEF plain
  <2> QED BY <1>6, <1>8, <2>1, <2>2, ConstantBoundsUseNothing DEF plain
<1>15. AsRead'
  BY <1>1 DEF AsRead, Removing
(* A loop further out than the one removed does not refer to it.            *)
<1>16. WalkClean'
  <2> SUFFICES ASSUME NEW n \in 1 .. at - 1
               PROVE  ~ Removable(nest'[n])
    BY <1>1 DEF WalkClean, Removing
  <2>1. n \in 1 .. Len(nest) - 1 /\ n \in 1 .. Len(nest) /\ keep(n) = n
    BY <1>1, <1>2 DEF keep
  <2>2. gone \notin usedBy(nest[n])
    <3> SUFFICES ASSUME gone \in usedBy(nest[n]) PROVE FALSE
      OBVIOUS
    <3>1. PICK m \in 1 .. n - 1 : nest[m].iv = gone
      BY <1>2, <2>1 DEF NestInv, BoundsOuter
    <3>2. m = at
      BY <1>1, <1>2, <2>1, <3>1 DEF NestInv, IvsDistinct, gone
    <3> QED BY <1>1, <1>2, <2>1, <3>2
  <2>3. /\ nest'[n].lb = nest[n].lb /\ nest'[n].ub = nest[n].ub
        /\ nest'[n].step = nest[n].step
    BY <1>6, <1>8, <2>1, <2>2
  <2>4. ~ Removable(nest[n])
    BY <1>1 DEF NestInv, WalkClean
  <2> QED BY <2>3, <2>4 DEF Removable, hasConstantBounds
<1> QED BY <1>10, <1>11, <1>12, <1>13, <1>14, <1>15, <1>16 DEF NestInv

LEMMA SimplifyKeeps == ASSUME NestInv, SimplifyAffineLoop PROVE NestInv'
<1> DEFINE unused == {n \in DOMAIN nest : ~ IvUsed(nest[n].iv)}
           zero(n) == IF n \in unused THEN inLoop(nest[n], nest[n].lb.of, 0) ELSE nest[n]
           simple(n) == [zero(n) EXCEPT !.consts = IF n + 1 \in unused
                                                   THEN @ \cup {constant(0, TRUE)} ELSE @]
<1>1. /\ pass = "simplify" /\ pass' = "removeAgain" /\ cut' \in BOOLEAN
      /\ \A n \in unused : Operands(nest[n])
      /\ UNCHANGED <<uses, at, original, merged>>
  BY NextPass DEF SimplifyAffineLoop
<1>2. /\ DOMAIN nest = 1 .. Len(nest) /\ Len(nest) \in Nat
      /\ \A n \in DOMAIN nest : nest[n] \in Loop
  BY NestFacts DEF NestInv
<1>3. nest' = [n \in 1 .. Len(nest) |-> simple(n)]
  BY <1>2 DEF SimplifyAffineLoop
<1> HIDE DEF unused
<1>4. ASSUME NEW n \in DOMAIN nest
      PROVE  /\ zero(n) \in Loop /\ zero(n).iv = nest[n].iv
             /\ usedBy(zero(n)) \subseteq usedBy(nest[n])
  <2>1. nest[n] \in Loop
    BY <1>2
  <2>2. CASE n \in unused
    <3>1. nest[n].lb.of \in Nat \ {None}
      BY <1>1, <2>1, <2>2 DEF Operands, Loop, Bound
    <3>2. 0 \in Int
      OBVIOUS
    <3> QED BY <2>1, <2>2, <3>1, <3>2, InLoopProperties
  <2>3. CASE n \notin unused
    BY <2>1, <2>3
  <2> QED BY <2>2, <2>3
<1> HIDE DEF zero
<1>5. ASSUME NEW n \in DOMAIN nest
      PROVE  /\ simple(n) \in Loop /\ simple(n).iv = nest[n].iv
             /\ usedBy(simple(n)) \subseteq usedBy(nest[n])
  <2>1. constant(0, TRUE) \in [value : Int, used : BOOLEAN]
    BY DEF constant
  <2>2. /\ simple(n) \in Loop /\ simple(n).iv = zero(n).iv
        /\ simple(n).lb = zero(n).lb /\ simple(n).ub = zero(n).ub
    BY <1>4, <2>1 DEF Loop
  <2> HIDE DEF simple
  <2> QED BY <1>4, <2>2 DEF usedBy
<1> HIDE DEF simple
<1>6. nest' \in Seq(Loop) /\ Len(nest') = Len(nest) /\ DOMAIN nest' = DOMAIN nest
      /\ \A n \in DOMAIN nest : nest'[n] = simple(n)
  <2>1. nest' \in [1 .. Len(nest) -> Loop]
    BY <1>2, <1>3, <1>5
  <2> QED BY <1>2, <1>3, <2>1, FunctionIsSeq
<1>7. IvsDistinct' /\ BoundsOuter' /\ UsesOfLoops'
  BY <1>1, <1>5, <1>6, SameIvs DEF NestInv
<1>8. Typed'
  BY <1>1, <1>6, PassNames DEF NestInv, Typed
<1>9. PlainBeforeTiling' /\ AsRead'
  BY <1>1 DEF PlainBeforeTiling, AsRead
<1>10. WalkClean'
  <2>1. at' = 1
    BY <1>1 DEF NestInv, WalkClean, Removing
  <2>2. 1 .. at' - 1 = {}
    BY <2>1
  <2> QED BY <2>1, <2>2 DEF WalkClean
<1> QED BY <1>7, <1>8, <1>9, <1>10 DEF NestInv

-----------------------------------------------------------------------------
(* The loop over the tiles and the loop within a tile. *)
LEMMA TileLoopProperties ==
  ASSUME NEW loop \in Loop, plain(loop), Len(original) \in Nat, NEW size \in Nat \ {0}
  PROVE  /\ tileLoop(loop, size) \in Loop
         /\ tileLoop(loop, size).iv = loop.iv + Len(original)
         /\ usedBy(tileLoop(loop, size)) = {}
         /\ Len(tileLoop(loop, size).ub) = 1
<1>1. loop.iv \in Nat \ {None} /\ tileIv(loop) \in Nat \ {None}
  BY DEF Loop, tileIv, None
<1>2. /\ tileLoop(loop, size) \in Loop /\ tileLoop(loop, size).iv = tileIv(loop)
      /\ tileLoop(loop, size).lb = loop.lb /\ tileLoop(loop, size).ub = loop.ub
  BY <1>1 DEF tileLoop, Loop
<1>3. usedBy(tileLoop(loop, size)) = usedBy(loop)
  BY <1>2 DEF usedBy
<1> QED BY <1>2, <1>3, ConstantBoundsUseNothing DEF plain, tileIv

LEMMA PointLoopProperties ==
  ASSUME NEW loop \in Loop, plain(loop), Len(original) \in Nat, NEW size \in Nat \ {0}
  PROVE  /\ pointLoop(loop, size) \in Loop /\ pointLoop(loop, size).iv = loop.iv
         /\ usedBy(pointLoop(loop, size)) \subseteq {loop.iv + Len(original)}
         /\ tripCount(loop) % size = 0 => Len(pointLoop(loop, size).ub) = 1
<1> DEFINE tile == iv(tileIv(loop), 0)
           trips == tripCount(loop)
           upper == CASE trips < size -> <<[tile EXCEPT !.plus = trips]>>
                      [] trips >= size /\ trips % size # 0 ->
                           <<[tile EXCEPT !.plus = size]>> \o loop.ub
                      [] OTHER -> <<[tile EXCEPT !.plus = size]>>
           InTile(b) == b \in Bound /\ b.of \in {None, tileIv(loop)}
<1>1. tileIv(loop) \in Nat \ {None} /\ trips \in Int /\ size \in Int
  BY TripInt DEF tileIv, Loop, None
<1>2. InTile(tile)
  BY <1>1 DEF iv, Bound
<1>3. ASSUME NEW k \in Int
      PROVE  InTile([tile EXCEPT !.plus = k])
  BY <1>1, <1>3 DEF iv, Bound
<1>4. /\ loop.ub \in Seq(Bound) /\ loop.ub # <<>> /\ Len(loop.ub) = 1
      /\ \A j \in 1 .. Len(loop.ub) : InTile(loop.ub[j])
  <2>1. loop.ub \in Seq(Bound) /\ loop.ub # <<>> /\ Len(loop.ub) = 1
    BY DEF Loop, plain
  <2>2. \A j \in 1 .. Len(loop.ub) : loop.ub[j] \in Bound /\ loop.ub[j].of = None
    BY <2>1, ElementOfSeq, LenProperties DEF plain, hasConstantBounds, Range
  <2> QED BY <2>1, <2>2
<1>5. ASSUME NEW b, InTile(b)
      PROVE  /\ <<b>> \in Seq(Bound) /\ <<b>> # <<>> /\ Len(<<b>>) = 1
             /\ \A j \in 1 .. Len(<<b>>) : InTile(<<b>>[j])
  BY <1>5
<1>6. ASSUME NEW b, InTile(b)
      PROVE  /\ <<b>> \o loop.ub \in Seq(Bound) /\ <<b>> \o loop.ub # <<>>
             /\ \A j \in 1 .. Len(<<b>> \o loop.ub) : InTile((<<b>> \o loop.ub)[j])
  <2>1. /\ <<b>> \in Seq(Bound) /\ Len(<<b>>) = 1 /\ <<b>>[1] = b
    BY <1>6
  <2>2. /\ <<b>> \o loop.ub \in Seq(Bound) /\ Len(<<b>> \o loop.ub) = 2
        /\ \A j \in 1 .. 2 : (<<b>> \o loop.ub)[j]
                            = IF j <= 1 THEN <<b>>[j] ELSE loop.ub[j - 1]
    <3>1. /\ <<b>> \o loop.ub \in Seq(Bound)
          /\ Len(<<b>> \o loop.ub) = Len(<<b>>) + Len(loop.ub)
          /\ \A j \in 1 .. Len(<<b>>) + Len(loop.ub) : (<<b>> \o loop.ub)[j]
                 = IF j <= Len(<<b>>) THEN <<b>>[j] ELSE loop.ub[j - Len(<<b>>)]
      BY <1>4, <2>1, ConcatProperties
    <3> QED BY <1>4, <2>1, <3>1
  <2>3. (<<b>> \o loop.ub)[1] = b /\ (<<b>> \o loop.ub)[2] = loop.ub[1]
    BY <2>1, <2>2
  <2>4. \A j \in 1 .. 2 : j = 1 \/ j = 2
    OBVIOUS
  <2>5. InTile(loop.ub[1])
    BY <1>4
  <2>6. <<b>> \o loop.ub # <<>>
    BY <2>2, EmptySeq
  <2> HIDE DEF InTile
  <2> QED BY <1>6, <2>2, <2>3, <2>4, <2>5, <2>6
<1>7. /\ upper \in Seq(Bound) /\ upper # <<>>
      /\ \A j \in 1 .. Len(upper) : InTile(upper[j])
      /\ trips % size = 0 => Len(upper) = 1
  <2> HIDE DEF InTile, tile
  <2>1. CASE trips < size
    <3>1. upper = <<[tile EXCEPT !.plus = trips]>>
      BY <1>1, <2>1
    <3> QED BY <1>1, <1>3, <1>5, <3>1
  <2>2. CASE ~ (trips < size) /\ trips % size # 0
    <3>1. upper = <<[tile EXCEPT !.plus = size]>> \o loop.ub
      BY <1>1, <2>2
    <3>2. InTile([tile EXCEPT !.plus = size])
      BY <1>1, <1>3
    <3> HIDE DEF upper
    <3> QED BY <1>6, <2>2, <3>1, <3>2
  <2>3. CASE ~ (trips < size) /\ trips % size = 0
    BY <1>1, <1>3, <1>5, <2>3
  <2> QED BY <2>1, <2>2, <2>3
<1>8. pointLoop(loop, size) = [loop EXCEPT !.lb = tile, !.step = 1, !.ub = upper]
  BY DEF pointLoop
<1> HIDE DEF tile, upper
<1>9. /\ pointLoop(loop, size) \in Loop /\ pointLoop(loop, size).iv = loop.iv
      /\ pointLoop(loop, size).lb = tile /\ pointLoop(loop, size).ub = upper
  <2>1. tile \in Bound /\ upper \in Seq(Bound) \ {<<>>} /\ 1 \in Nat \ {0}
    BY <1>2, <1>7
  <2> QED BY <1>8, <2>1 DEF Loop
<1>10. usedBy(pointLoop(loop, size)) \subseteq {tileIv(loop)}
  <2> SUFFICES ASSUME NEW b \in {tile} \cup Range(upper) PROVE InTile(b)
    BY <1>9 DEF usedBy
  <2>1. DOMAIN upper = 1 .. Len(upper)
    BY <1>7, LenProperties
  <2> HIDE DEF InTile
  <2> QED BY <1>2, <1>7, <2>1 DEF Range
<1> QED BY <1>7, <1>9, <1>10 DEF tileIv

LEMMA LoopTileKeeps ==
  ASSUME NestInv, NEW sizes \in Seq(Nat \ {0}), Len(sizes) \in 1 .. Len(nest),
         LoopTile(sizes)
  PROVE  /\ NestInv'
         /\ (\A n \in DOMAIN sizes : tripCount(nest[n]) % sizes[n] = 0) =>
              \A n \in DOMAIN nest' : Len(nest'[n].ub) = 1
<1> DEFINE w == Len(sizes)
           tiles == [n \in DOMAIN sizes |-> tileLoop(nest[n], sizes[n])]
           points == [n \in DOMAIN sizes |-> pointLoop(nest[n], sizes[n])]
           rest == SubSeq(nest, w + 1, Len(nest))
<1>1. /\ pass = "tile" /\ pass' = "simplify"
      /\ UNCHANGED <<top, uses, at, original, merged, cut>>
      /\ nest' = tiles \o points \o rest
  BY NextPass DEF LoopTile
<1>2. /\ DOMAIN nest = 1 .. Len(nest) /\ Len(nest) \in Nat /\ Len(original) \in Nat
      /\ \A n \in DOMAIN nest : nest[n] \in Loop /\ plain(nest[n])
      /\ \A n \in DOMAIN nest : nest[n].iv \in 1 .. Len(original)
  BY <1>1, NestFacts DEF NestInv, PlainBeforeTiling, plain
<1>3. /\ w \in Nat /\ DOMAIN sizes = 1 .. w /\ \A n \in 1 .. w : sizes[n] \in Nat \ {0}
      /\ w \in 1 .. Len(nest)
  BY LenProperties, ElementOfSeq
<1> HIDE DEF w
<1>4. \A n \in 1 .. w : n \in DOMAIN nest
  BY <1>2, <1>3
<1> PICK size \in Nat : size = Len(nest)
  BY <1>2
<1>0. w \in Nat /\ size \in Nat /\ size = Len(nest) /\ 1 <= w /\ w <= size
  BY <1>2, <1>3
<1>5. /\ tiles \in Seq(Loop) /\ Len(tiles) = w
      /\ \A n \in 1 .. w : tiles[n] = tileLoop(nest[n], sizes[n])
  <2>1. tiles \in [1 .. w -> Loop]
    BY <1>2, <1>3, <1>4, TileLoopProperties
  <2> QED BY <1>3, <2>1, FunctionIsSeq
<1>6. /\ points \in Seq(Loop) /\ Len(points) = w
      /\ \A n \in 1 .. w : points[n] = pointLoop(nest[n], sizes[n])
  <2>1. points \in [1 .. w -> Loop]
    BY <1>2, <1>3, <1>4, PointLoopProperties
  <2> QED BY <1>3, <2>1, FunctionIsSeq
<1>7. /\ rest \in Seq(Loop) /\ Len(rest) = Len(nest) - w
      /\ \A n \in 1 .. Len(nest) - w : rest[n] = nest[w + n]
  <2>1. nest \in Seq(Loop) /\ w \in Nat /\ w <= Len(nest)
    BY <1>0 DEF NestInv, Typed
  <2> QED BY <2>1, TailOf
<1> HIDE DEF tiles, points, rest
<1>8. /\ tiles \o points \in Seq(Loop) /\ Len(tiles \o points) = w + w
      /\ \A n \in 1 .. w + w : (tiles \o points)[n] = IF n <= w THEN tiles[n]
                                                    ELSE points[n - w]
  <2>1. /\ tiles \o points \in Seq(Loop)
        /\ Len(tiles \o points) = Len(tiles) + Len(points)
        /\ \A n \in 1 .. Len(tiles) + Len(points) :
             (tiles \o points)[n] = IF n <= Len(tiles) THEN tiles[n]
                                     ELSE points[n - Len(tiles)]
    BY <1>5, <1>6, ConcatProperties
  <2> QED BY <1>5, <1>6, <2>1
<1>9. /\ nest' \in Seq(Loop) /\ Len(nest') = Len(nest) + w
      /\ \A n \in 1 .. Len(nest) + w : nest'[n] = IF n <= w + w THEN (tiles \o points)[n]
                                               ELSE rest[n - (w + w)]
  <2>1. /\ tiles \o points \o rest \in Seq(Loop)
        /\ Len(tiles \o points \o rest) = w + w + (Len(nest) - w)
        /\ \A n \in 1 .. w + w + (Len(nest) - w) :
             (tiles \o points \o rest)[n] = IF n <= w + w THEN (tiles \o points)[n]
                                           ELSE rest[n - (w + w)]
    <3>1. /\ tiles \o points \o rest \in Seq(Loop)
          /\ Len(tiles \o points \o rest) = Len(tiles \o points) + Len(rest)
          /\ \A n \in 1 .. Len(tiles \o points) + Len(rest) :
               (tiles \o points \o rest)[n]
                 = IF n <= Len(tiles \o points) THEN (tiles \o points)[n]
                   ELSE rest[n - Len(tiles \o points)]
      BY <1>7, <1>8, ConcatProperties
    <3> QED BY <1>7, <1>8, <3>1
  <2>2. w + w + (Len(nest) - w) = Len(nest) + w
    BY <1>2, <1>3
  <2> QED BY <1>1, <2>1, <2>2
<1>10. DOMAIN nest' = 1 .. Len(nest) + w
  BY <1>9, LenProperties
(* The loops over the tiles are the outermost ones; the loops of the nest   *)
(* follow, those that were tiled as the loops within a tile.                *)
<1>11. ASSUME NEW n \in 1 .. w
       PROVE  /\ nest'[n] = tileLoop(nest[n], sizes[n])
              /\ nest'[n].iv = nest[n].iv + Len(original)
              /\ usedBy(nest'[n]) = {} /\ Len(nest'[n].ub) = 1
  <2>1. n \in 1 .. Len(nest) + w /\ n \in 1 .. w + w /\ n <= w + w /\ n <= w
    BY <1>2, <1>3
  <2>2. nest'[n] = tileLoop(nest[n], sizes[n])
    BY <1>5, <1>8, <1>9, <2>1
  <2>3. nest[n] \in Loop /\ plain(nest[n]) /\ sizes[n] \in Nat \ {0}
    BY <1>2, <1>3, <1>4
  <2> QED BY <1>2, <2>2, <2>3, TileLoopProperties
<1>12. ASSUME NEW n \in 1 .. Len(nest)
       PROVE  /\ nest'[w + n].iv = nest[n].iv
              /\ n <= w => /\ nest'[w + n] = pointLoop(nest[n], sizes[n])
                           /\ usedBy(nest'[w + n]) \subseteq {nest[n].iv + Len(original)}
              /\ n > w => nest'[w + n] = nest[n] /\ usedBy(nest'[w + n]) = {}
  <2>0. nest[n] \in Loop /\ plain(nest[n])
    BY <1>2
  <2>1. CASE n <= w
    <3>1. /\ w + n \in 1 .. Len(nest) + w /\ w + n \in 1 .. w + w /\ w + n <= w + w
          /\ ~ (w + n <= w) /\ w + n - w = n /\ n \in 1 .. w
      <4>1. n \in 1 .. size
        BY <1>0
      <4> QED BY <1>0, <2>1, <4>1
    <3>2. nest'[w + n] = pointLoop(nest[n], sizes[n])
      <4>1. PICK p : p = w + n
        OBVIOUS
      <4>2. p \in 1 .. Len(nest) + w /\ p \in 1 .. w + w /\ p <= w + w /\ ~ (p <= w)
            /\ p - w = n
        BY <1>0, <3>1, <4>1
      <4>3. nest'[p] = (tiles \o points)[p]
        BY <1>9, <4>2
      <4>4. (tiles \o points)[p] = points[p - w]
        BY <1>8, <4>2
      <4> QED BY <1>6, <3>1, <4>1, <4>2, <4>3, <4>4
    <3>3. sizes[n] \in Nat \ {0}
      BY <1>3, <3>1
    <3> QED BY <1>2, <1>3, <2>0, <2>1, <3>2, <3>3, PointLoopProperties
  <2>2. CASE n > w
    <3>1. /\ w + n \in 1 .. Len(nest) + w /\ ~ (w + n <= w + w)
          /\ w + n - (w + w) \in 1 .. Len(nest) - w /\ w + (w + n - (w + w)) = n
      <4>1. n \in 1 .. size
        BY <1>0
      <4> QED BY <1>0, <2>2, <4>1
    <3>2. nest'[w + n] = rest[w + n - (w + w)]
      <4>1. PICK p : p = w + n
        OBVIOUS
      <4>2. p \in 1 .. Len(nest) + w /\ ~ (p <= w + w)
        BY <3>1, <4>1
      <4>3. nest'[p] = rest[p - (w + w)]
        BY <1>9, <4>2
      <4>4. p - (w + w) = w + n - (w + w)
        BY <1>0, <4>1, <4>2
      <4> QED BY <4>1, <4>3, <4>4
    <3>3. rest[w + n - (w + w)] = nest[w + (w + n - (w + w))]
      BY <1>7, <3>1
    <3>4. nest'[w + n] = nest[n]
      BY <3>1, <3>2, <3>3
    <3>5. usedBy(nest[n]) = {}
      BY <2>0, ConstantBoundsUseNothing DEF plain
    <3> QED BY <1>3, <2>2, <3>4, <3>5
  <2> QED BY <1>3, <2>1, <2>2
<1>13. ASSUME NEW n \in 1 .. Len(nest) + w
       PROVE  n \in 1 .. w \/ \E k \in 1 .. Len(nest) : n = w + k
  <2>1. CASE n <= w
    BY <1>3, <2>1
  <2>2. CASE n > w
    <3>1. n - w \in 1 .. Len(nest) /\ n = w + (n - w)
      BY <1>2, <1>3, <2>2
    <3> QED BY <3>1
  <2> QED BY <1>2, <1>3, <2>1, <2>2
<1>14. Typed'
  <2>1. pass' \in Range(Passes)
    BY <1>1, PassNames
  <2>2. at' \in 1 .. Len(nest') + 1
    BY <1>1, <1>2, <1>3, <1>9 DEF NestInv, Typed
  <2> QED BY <1>1, <1>9, <2>1, <2>2 DEF NestInv, Typed
<1>15. IvsDistinct'
  <2> SUFFICES ASSUME NEW m \in 1 .. Len(nest) + w, NEW n \in 1 .. Len(nest) + w,
                      nest'[m].iv = nest'[n].iv
               PROVE  m = n
    BY <1>10 DEF IvsDistinct
  <2>0. \A j, k \in 1 .. Len(nest) : nest[j].iv = nest[k].iv => j = k
    BY <1>2 DEF NestInv, IvsDistinct
  <2>1. CASE m \in 1 .. w /\ n \in 1 .. w
    <3>1. nest[m].iv + Len(original) = nest[n].iv + Len(original)
      BY <1>11, <2>1
    <3>2. nest[m].iv = nest[n].iv
      <4>1. ASSUME NEW l \in Int, NEW x \in Int, NEW y \in Int, x + l = y + l PROVE x = y
        BY <4>1
      <4>2. nest[m].iv \in Int /\ nest[n].iv \in Int /\ Len(original) \in Int
        BY <1>2, <1>4, <2>1
      <4> QED BY <3>1, <4>1, <4>2
    <3> QED BY <1>2, <1>4, <2>0, <2>1, <3>2
  <2>2. ASSUME NEW j \in 1 .. w, NEW k \in 1 .. Len(nest)
        PROVE  nest'[j].iv # nest'[w + k].iv
    <3>1. nest'[j].iv = nest[j].iv + Len(original) /\ nest'[w + k].iv = nest[k].iv
      BY <1>11, <1>12
    <3>2. nest[j].iv \in 1 .. Len(original) /\ nest[k].iv \in 1 .. Len(original)
      BY <1>2, <1>4
    <3>3. ASSUME NEW l \in Nat, NEW x \in 1 .. l, NEW y \in 1 .. l PROVE x + l # y
      OBVIOUS
    <3>4. nest[j].iv + Len(original) # nest[k].iv
      BY <1>2, <3>2, <3>3
    <3> QED BY <3>1, <3>4
  <2>3. CASE m \notin 1 .. w /\ n \notin 1 .. w
    <3>1. PICK j \in 1 .. Len(nest) : m = w + j
      BY <1>13, <2>3
    <3>2. PICK k \in 1 .. Len(nest) : n = w + k
      BY <1>13, <2>3
    <3>3. nest[j].iv = nest[k].iv
      BY <1>12, <3>1, <3>2
    <3> QED BY <2>0, <3>1, <3>2, <3>3
  <2> QED BY <1>13, <2>1, <2>2, <2>3
<1>16. BoundsOuter'
  <2> SUFFICES ASSUME NEW n \in 1 .. Len(nest) + w, NEW i \in usedBy(nest'[n])
               PROVE  \E m \in 1 .. n - 1 : nest'[m].iv = i
    BY <1>10 DEF BoundsOuter
  <2>1. n \notin 1 .. w
    BY <1>11
  <2>2. PICK k \in 1 .. Len(nest) : n = w + k
    BY <1>13, <2>1
  <2>3. k <= w /\ i = nest[k].iv + Len(original)
    <3>1. i \in usedBy(nest'[w + k])
      BY <2>2
    <3>2. k <= w \/ k > w
      BY <1>0
    <3> QED BY <1>12, <3>1, <3>2
  <2>4. k \in 1 .. w /\ k \in 1 .. n - 1
    BY <1>2, <1>3, <2>2, <2>3
  <2>5. nest'[k].iv = i
    BY <1>11, <2>3, <2>4
  <2> QED BY <2>4, <2>5
<1>17. UsesOfLoops'
  <2> SUFFICES ASSUME NEW d \in DOMAIN uses, uses[d].of # None
               PROVE  \E m \in 1 .. Len(nest) + w : nest'[m].iv = uses[d].of
    BY <1>1, <1>10 DEF UsesOfLoops
  <2>1. PICK k \in 1 .. Len(nest) : nest[k].iv = uses[d].of
    BY <1>2 DEF NestInv, UsesOfLoops
  <2>2. w + k \in 1 .. Len(nest) + w
    BY <1>2, <1>3
  <2> QED BY <1>12, <2>1, <2>2
<1>18. PlainBeforeTiling' /\ AsRead' /\ WalkClean'
  BY <1>1 DEF NestInv, PlainBeforeTiling, AsRead, WalkClean, Removing
<1>19. ASSUME \A n \in DOMAIN sizes : tripCount(nest[n]) % sizes[n] = 0
       PROVE  \A n \in DOMAIN nest' : Len(nest'[n].ub) = 1
  <2> SUFFICES ASSUME NEW n \in 1 .. Len(nest) + w PROVE Len(nest'[n].ub) = 1
    BY <1>10
  <2>1. CASE n \in 1 .. w
    BY <1>11, <2>1
  <2>2. ASSUME NEW k \in 1 .. Len(nest), n = w + k PROVE Len(nest'[n].ub) = 1
    <3>0. nest[k] \in Loop /\ plain(nest[k])
      BY <1>2
    <3>1. CASE k <= w
      <4>1. k \in 1 .. w /\ sizes[k] \in Nat \ {0} /\ tripCount(nest[k]) % sizes[k] = 0
        BY <1>3, <1>19, <3>1
      <4> QED BY <1>2, <1>12, <2>2, <3>0, <3>1, <4>1, PointLoopProperties
    <3>2. CASE k > w
      BY <1>12, <2>2, <3>0, <3>2 DEF plain
    <3> QED BY <1>3, <3>1, <3>2
  <2> QED BY <1>13, <2>1, <2>2
<1> QED BY <1>14, <1>15, <1>16, <1>17, <1>18, <1>19 DEF NestInv

-----------------------------------------------------------------------------
(* The sizes that the tiling pass takes. *)
LEMMA BandWidthType ==
  ASSUME NestInv, nest # <<>>
  PROVE  bandWidth \in 1 .. Len(nest)
<1> DEFINE ends == {n \in DOMAIN nest : n = Len(nest) \/ nest[n].consts # {}}
<1>1. DOMAIN nest = 1 .. Len(nest) /\ Len(nest) \in Nat \ {0}
  BY NestFacts, EmptySeq DEF NestInv, Typed
<1>2. Len(nest) \in ends
  BY <1>1
<1>3. ends \in SUBSET Nat /\ ends # {} /\ ends \subseteq DOMAIN nest
  BY <1>1, <1>2
<1> HIDE DEF ends
<1>4. Min(ends) \in ends
  BY <1>3, LeastOf
<1> QED BY <1>1, <1>3, <1>4 DEF bandWidth, ends

LEMMA GivenSizesType ==
  ASSUME NestInv, nest # <<>>, NEW list \in TileSizes
  PROVE  /\ givenSizes(list) \in Seq(Nat \ {0})
         /\ Len(givenSizes(list)) \in 1 .. Len(nest)
<1>1. bandWidth \in 1 .. Len(nest) /\ bandWidth \in Nat
  BY BandWidthType, NestFacts DEF NestInv
<1>2. list \in Seq(Nat \ {0}) /\ Len(list) \in Nat
  BY TilesAssumption, LenProperties
<1>3. ASSUME NEW n \in 1 .. bandWidth
      PROVE  (IF n <= Len(list) THEN list[n] ELSE kDefaultTileSize) \in Nat \ {0}
  <2>1. CASE n <= Len(list)
    BY <1>1, <1>2, <2>1, ElementOfSeq
  <2>2. CASE ~ (n <= Len(list))
    BY <2>2 DEF kDefaultTileSize
  <2> QED BY <2>1, <2>2
<1>4. givenSizes(list) \in [1 .. bandWidth -> Nat \ {0}]
  BY <1>3 DEF givenSizes
<1> QED BY <1>1, <1>4, FunctionIsSeq

(* Sizes are reduced to divisors, of which 1 is the least. *)
LEMMA DivisorSizes ==
  ASSUME NEW w \in Nat, NEW sizes \in [1 .. w -> Nat \ {0}],
         \A n \in 1 .. w : nest[n] \in Loop
  PROVE  LET adjusted == adjustToDivisorsOfTripCounts(sizes)
         IN  /\ adjusted \in Seq(Nat \ {0}) /\ Len(adjusted) = w
             /\ \A n \in DOMAIN adjusted : tripCount(nest[n]) % adjusted[n] = 0
<1> DEFINE adjusted == adjustToDivisorsOfTripCounts(sizes)
<1>1. ASSUME NEW n \in 1 .. w
      PROVE  adjusted[n] \in Nat \ {0} /\ tripCount(nest[n]) % adjusted[n] = 0
  <2> DEFINE trips == tripCount(nest[n])
             size == IF trips > 1 /\ sizes[n] > trips \div 2 THEN trips \div 2 ELSE sizes[n]
             divisors == {s \in 1 .. size : trips % s = 0}
  <2>1. trips \in Int /\ sizes[n] \in Nat \ {0}
    BY TripInt
  <2>2. adjusted[n] = Max(divisors)
    BY DEF adjustToDivisorsOfTripCounts
  <2> HIDE DEF trips
  <2>3. size \in Nat \ {0}
    BY <2>1
  <2>4. trips % 1 = 0
    BY <2>1
  <2> HIDE DEF size
  <2>5. 1 \in divisors
    BY <2>3, <2>4
  <2>6. Max(divisors) \in divisors
    BY <2>3, <2>5, GreatestOf
  <2> QED BY <2>2, <2>3, <2>6 DEF trips
<1>2. adjusted \in [1 .. w -> Nat \ {0}]
  <2>1. DOMAIN sizes = 1 .. w
    OBVIOUS
  <2>2. DOMAIN adjusted = 1 .. w /\ adjusted = [n \in 1 .. w |-> adjusted[n]]
    BY <2>1 DEF adjustToDivisorsOfTripCounts
  <2> HIDE DEF adjusted
  <2> QED BY <1>1, <2>2
<1> HIDE DEF adjusted
<1>3. adjusted \in Seq(Nat \ {0}) /\ Len(adjusted) = w /\ DOMAIN adjusted = 1 .. w
  BY <1>2, FunctionIsSeq
<1> QED BY <1>1, <1>3 DEF adjusted

(* The sizes the pass chooses itself divide the trip counts. *)
Dividing(sizes) ==
  /\ sizes \in Seq(Nat \ {0}) /\ Len(sizes) \in 1 .. Len(nest)
  /\ \A n \in DOMAIN sizes : tripCount(nest[n]) % sizes[n] = 0

LEMMA DefaultSizesDivide ==
  ASSUME NestInv, nest # <<>>
  PROVE  Dividing(defaultSizes)
<1>1. /\ bandWidth \in 1 .. Len(nest) /\ bandWidth \in Nat
      /\ \A n \in 1 .. bandWidth : nest[n] \in Loop
  BY BandWidthType, NestFacts DEF NestInv
<1>2. [n \in 1 .. bandWidth |-> kDefaultTileSize] \in [1 .. bandWidth -> Nat \ {0}]
  BY DEF kDefaultTileSize
<1> QED BY <1>1, <1>2, DivisorSizes DEF Dividing, defaultSizes

LEMMA FittingSizesDivide ==
  ASSUME NestInv, nest # <<>>, NEW excess \in ExcessFactors, NEW root \in roots(excess)
  PROVE  Dividing(fittingSizes(excess, root))
<1>1. /\ bandWidth \in 1 .. Len(nest) /\ bandWidth \in Nat
      /\ \A n \in 1 .. bandWidth : nest[n] \in Loop
  BY BandWidthType, NestFacts DEF NestInv
<1>2. excess \in Nat
  BY TilesAssumption
<1>3. CASE excess <= 1
  <2>1. fittingSizes(excess, root) = [n \in 1 .. bandWidth |-> 1]
    BY <1>3 DEF fittingSizes
  <2>2. [n \in 1 .. bandWidth |-> 1] \in [1 .. bandWidth -> Nat \ {0}]
    OBVIOUS
  <2>3. /\ fittingSizes(excess, root) \in Seq(Nat \ {0})
        /\ Len(fittingSizes(excess, root)) = bandWidth
        /\ DOMAIN fittingSizes(excess, root) = 1 .. bandWidth
    BY <1>1, <2>1, <2>2, FunctionIsSeq
  <2>4. ASSUME NEW n \in 1 .. bandWidth PROVE tripCount(nest[n]) % 1 = 0
    <3>1. tripCount(nest[n]) \in Int
      BY <1>1, TripInt
    <3> QED BY <3>1
  <2> QED BY <1>1, <2>1, <2>3, <2>4 DEF Dividing
<1>4. CASE ~ (excess <= 1)
  <2> DEFINE lasts == {s \in 1 .. excess : s = 1 \/ s * root ^ (bandWidth - 1) <= excess}
             last == Max(lasts)
             sizes == [n \in 1 .. bandWidth |-> IF n < bandWidth THEN root ELSE last]
  <2>1. fittingSizes(excess, root) = adjustToDivisorsOfTripCounts(sizes)
    BY <1>4 DEF fittingSizes
  <2>2. 1 \in 1 .. excess
    BY <1>2, <1>4
  <2>3. lasts \in SUBSET (1 .. excess) /\ lasts # {}
    BY <2>2, Zenon
  <2> HIDE DEF lasts
  <2>4. root \in 1 .. excess /\ last \in 1 .. excess
    BY <1>2, <1>4, <2>3, GreatestOf DEF roots
  <2> HIDE DEF last
  <2>5. sizes \in [1 .. bandWidth -> Nat \ {0}]
    BY <1>2, <2>4
  <2> HIDE DEF sizes
  <2> QED BY <1>1, <2>1, <2>5, DivisorSizes DEF Dividing
<1> QED BY <1>3, <1>4

LEMMA TilesToFitKeeps ==
  ASSUME NestInv, TilesToFit
  PROVE  NestInv' /\ \A n \in DOMAIN nest' : Len(nest'[n].ub) = 1
<1>1. PICK sizes : Dividing(sizes) /\ LoopTile(sizes)
  BY DefaultSizesDivide, FittingSizesDivide DEF TilesToFit
<1> QED BY <1>1, LoopTileKeeps DEF Dividing

LEMMA TilesAsGivenKeeps == ASSUME NestInv, TilesAsGiven PROVE NestInv'
  BY GivenSizesType, LoopTileKeeps DEF TilesAsGiven

-----------------------------------------------------------------------------
LEMMA NextKeeps == NestInv /\ [Next]_vars => NestInv'
<1> SUFFICES ASSUME NestInv, [Next]_vars PROVE NestInv'
  OBVIOUS
<1>1. CASE Skip
  BY <1>1, SkipKeeps
<1>2. ASSUME NEW orders \in SetToSeqs(DOMAIN original), LoopReorder(orders) PROVE NestInv'
  BY <1>2, LoopReorderKeeps
<1>3. ASSUME NEW indices \in SetToAllKPermutations(0 .. Len(original) - 1),
             Len(indices) \in 1 .. MaxMerged, MergeLoop(indices)
      PROVE  NestInv'
  BY <1>3, MergeLoopKeeps
<1>4. CASE PassesBy
  BY <1>4, PassesByKeeps
<1>5. CASE LoopRemove
  BY <1>5, LoopRemoveKeeps
<1>6. CASE Removed
  BY <1>6, RemovedKeeps
<1>7. CASE CSE
  BY <1>7, CSEKeeps
<1>8. CASE TilesToFit
  BY <1>8, TilesToFitKeeps
<1>9. CASE TilesAsGiven
  BY <1>9, TilesAsGivenKeeps
<1>10. CASE SimplifyAffineLoop
  BY <1>10, SimplifyKeeps
<1>11. CASE UNCHANGED vars
  BY <1>11 DEF vars, NestInv, Typed, IvsDistinct, BoundsOuter, UsesOfLoops,
               PlainBeforeTiling, plain, AsRead, WalkClean, Removing
<1> QED BY <1>1, <1>2, <1>3, <1>4, <1>5, <1>6, <1>7, <1>8, <1>9, <1>10, <1>11 DEF Next

LEMMA NestKept == Spec => []NestInv
BY InitNest, NextKeeps, PTL DEF Spec

(* After any sequence of passes on any nest, what a bound or the body       *)
(* refers to is still there, and a bound refers to a loop further out.      *)
THEOREM BoundsStayInScope == Spec => []TypeOK
<1>1. NestInv => TypeOK
  <2> SUFFICES ASSUME NestInv PROVE TypeOK
    OBVIOUS
  <2>1. DOMAIN nest = 1 .. Len(nest) /\ \A n \in DOMAIN nest : nest[n] \in Loop
    BY NestFacts DEF NestInv
  <2>2. ASSUME NEW n \in DOMAIN nest
        PROVE  nest[n].step \in Nat \ {0} /\ nest[n].ub # <<>>
    BY <2>1 DEF Loop
  <2>3. ASSUME NEW n \in DOMAIN nest, NEW b \in {nest[n].lb} \cup Range(nest[n].ub),
               b.of # None
        PROVE  \E m \in 1 .. n - 1 : nest[m].iv = b.of
    <3>1. b.of \in usedBy(nest[n])
      BY <2>3 DEF usedBy
    <3> QED BY <3>1 DEF NestInv, BoundsOuter
  <2>4. \A d \in DOMAIN uses : uses[d].of # None => \E n \in DOMAIN nest : nest[n].iv = uses[d].of
    BY DEF NestInv, UsesOfLoops
  <2> QED BY <2>2, <2>3, <2>4 DEF NestInv, Typed, TypeOK
<1> QED BY <1>1, NestKept, PTL

(* However deep the nest and however many loops go, when loop-remove ends   *)
(* it has left no loop that runs once.                                      *)
THEOREM RemovingMissesNoLoop == Spec => NothingRemovableLeft
<1>1. ASSUME NestInv, Next, at > 1, pass' # pass
      PROVE  \A n \in DOMAIN nest' : ~ Removable(nest'[n])
  <2>1. Removing /\ at # 1 /\ \A n \in 1 .. at - 1 : ~ Removable(nest[n])
    BY <1>1 DEF NestInv, WalkClean
  <2>2. Removed
    BY <1>1, <2>1 DEF Next, Removing, Skip, LoopReorder, MergeLoop, PassesBy, LoopRemove, CSE,
                      TilesToFit, TilesAsGiven, LoopTile, SimplifyAffineLoop
  <2>3. nest' = nest /\ at > Len(nest)
    BY <2>2 DEF Removed
  <2>4. DOMAIN nest = 1 .. Len(nest) /\ Len(nest) \in Nat /\ at \in Int
    BY <1>1, NestFacts DEF NestInv, Typed
  <2>5. \A n \in DOMAIN nest : n \in 1 .. at - 1
    BY <2>3, <2>4
  <2> QED BY <2>1, <2>3, <2>5
<1>2. NestInv /\ [Next]_vars =>
        [at > 1 /\ pass' # pass => \A n \in DOMAIN nest' : ~ Removable(nest'[n])]_vars
  BY <1>1
<1> QED BY <1>2, NestKept, PTL DEF Spec, NothingRemovableLeft

(* Whatever the trip counts and the footprint, the tiles that the pass      *)
(* chooses itself divide the loops: no loop gets a second upper bound.      *)
THEOREM ChosenTilesDivide == Spec => FittingTilesDivide
<1>1. NestInv /\ [Next]_vars =>
        [TilesToFit => \A n \in DOMAIN nest' : Len(nest'[n].ub) = 1]_vars
  BY TilesToFitKeeps
<1> QED BY <1>1, NestKept, PTL DEF Spec, FittingTilesDivide
=============================================================================
