----------------------------- MODULE LoopPasses -----------------------------
(***************************************************************************)
(* The passes on affine loops that the lowering pipeline of                *)
(* example/SystolicArray/02-Compilation runs: loop-reorder, merge-loop,    *)
(* loop-remove, loop-tile and simplify-affine-loop (lib/Transforms), in    *)
(* that order, each of them or not, with cse of MLIR before the tiling and *)
(* loop-remove once more at the end.                                       *)
(*                                                                         *)
(* The program is one nest of loops in a launch, around a body that uses   *)
(* the induction variables of some of them, as linalg leaves it: constant  *)
(* bounds from 0, step 1.  A loop is a record                              *)
(*   iv        its induction variable                                      *)
(*   lb, ub    a bound, and the bounds of which the least counts           *)
(*   step                                                                  *)
(*   consts    the constants defined in its body beside the inner loop,    *)
(*             each with its value and whether anything uses it            *)
(* and a bound or use is a record [of, plus]: an induction variable, or    *)
(* None for a constant, and what is added to it.                           *)
(***************************************************************************)
EXTENDS Integers, Sequences, FiniteSetsExt, SequencesExt, Functions

CONSTANTS
  Nests,         (* trip counts of the loops of a program, outermost first  *)
  TileSizes,     (* lists given to the option tile-sizes                    *)
  ExcessFactors, (* footprint by cache size, when no tile size is given     *)
  MaxMerged      (* bound: the indices given to merge-loop                  *)

ASSUME NestsAssumption == \A trips \in Nests : trips \in Seq(Nat \ {0}) /\ trips # <<>>
(* setStep refuses a step of 0. *)
ASSUME TilesAssumption == /\ TileSizes \subseteq Seq(Nat \ {0})
                          /\ ExcessFactors \subseteq Nat

VARIABLES
  nest,      (* the loops, outermost first                                  *)
  top,       (* the constants defined in the launch                         *)
  uses,      (* uses[d]: what the body uses for loop d of the source        *)
  at,        (* the loop that loop-remove visits next                       *)
  pass,      (* the pass of the pipeline that is next                       *)
  original,  (* the trip counts; never changes                              *)
  merged,    (* history: the source loops that merge-loop has touched       *)
  cut        (* history: simplify-affine-loop has lost a partial tile       *)

vars == <<nest, top, uses, at, pass, original, merged, cut>>

Passes == << "reorder", "merge", "remove", "cse", "tile", "simplify", "removeAgain", "done" >>
next(p) == Passes[CHOOSE i \in DOMAIN Passes : i > 1 /\ Passes[i - 1] = p]

None == 0
const(n) == [of |-> None, plus |-> n]
iv(i, n) == [of |-> i, plus |-> n]
constant(n, used) == [value |-> n, used |-> used]

kDefaultTileSize == 4
CeilDiv(a, b) == (a + b - 1) \div b

-----------------------------------------------------------------------------
(* What a nest executes: the values of the induction variables each time    *)
(* the body runs, and from those what the body sees of the source loops.    *)
value(bound, env) == (IF bound.of = None THEN 0 ELSE env[bound.of]) + bound.plus

Iterations(loop, env) ==
  LET from == value(loop.lb, env)
      to   == Min({value(b, env) : b \in Range(loop.ub)})
      n    == IF to <= from THEN 0 ELSE CeilDiv(to - from, loop.step)
  IN  [i \in 1 .. n |->
         [j \in DOMAIN env \cup {loop.iv} |->
            IF j = loop.iv THEN from + (i - 1) * loop.step ELSE env[j]]]

Environments(loops) ==
  FoldLeft(LAMBDA envs, loop :
             FlattenSeq([i \in DOMAIN envs |-> Iterations(loop, envs[i])]),
           << [i \in {} |-> 0] >>, loops)

Trace == LET envs == Environments(nest)
         IN  [i \in DOMAIN envs |-> [d \in DOMAIN uses |-> value(uses[d], envs[i])]]

-----------------------------------------------------------------------------
(* What the passes ask of a loop. *)
hasConstantBounds(loop) == loop.lb.of = None /\ \A b \in Range(loop.ub) : b.of = None

(* getConstantTripCount, of a loop with constant bounds. *)
tripCount(loop) == CeilDiv(loop.ub[1].plus - loop.lb.plus, loop.step)

Operands(loop) == loop.lb.of # None /\ \E b \in Range(loop.ub) : b.of # None

IvUsed(i) == \/ \E d \in DOMAIN uses : uses[d].of = i
             \/ \E n \in DOMAIN nest : \E b \in {nest[n].lb} \cup Range(nest[n].ub) : b.of = i

(* getPerfectlyNestedLoops: no further than a loop with more in its body    *)
(* than the inner loop.                                                     *)
bandWidth == Min({n \in DOMAIN nest : n = Len(nest) \/ nest[n].consts # {}})

(* Mutant: the upper bounds are forgotten. *)
inLoopLower(loop, i, n) == [loop EXCEPT !.lb = IF @.of = i THEN const(n + @.plus) ELSE @]

(* Everything that uses induction variable i takes the constant n instead. *)
replaceUses(bound, i, n) == IF bound.of = i THEN const(n + bound.plus) ELSE bound
inLoop(loop, i, n) ==
  [loop EXCEPT !.lb = replaceUses(@, i, n),
               !.ub = [j \in DOMAIN @ |-> replaceUses(@[j], i, n)]]

-----------------------------------------------------------------------------
Init ==
  /\ original \in Nests
  /\ nest = [d \in DOMAIN original |->
               [iv |-> d, lb |-> const(0), ub |-> <<const(original[d])>>, step |-> 1,
                consts |-> {}]]
  /\ \E used \in SUBSET DOMAIN original : uses = [d \in used |-> iv(d, 0)]
  /\ top = {} /\ at = 1 /\ pass = "reorder" /\ merged = {} /\ cut = FALSE

(* A pipeline without the pass, or one that has merged enough. *)
Skip ==
  /\ pass # "done" /\ at = 1
  /\ pass' = next(pass)
  /\ UNCHANGED <<nest, top, uses, at, original, merged, cut>>

(* Mutant: the uses of a loop follow its number and not its bounds. *)
LoopReorderByNumber(orders) ==
  /\ pass = "reorder"
  /\ nest' = [i \in DOMAIN nest |->
                [nest[i] EXCEPT !.lb = nest[orders[i]].lb, !.ub = nest[orders[i]].ub]]
  /\ uses' = [d \in DOMAIN uses |->
                LET i == CHOOSE i \in DOMAIN orders : uses[d].of = nest[orders[i]].iv
                IN  iv(nest[orders[i]].iv, uses[d].plus)]
  /\ pass' = next(pass)
  /\ UNCHANGED <<top, at, original, merged, cut>>

(***************************************************************************)
(* loop-reorder: the i-th loop gets the bounds of loop orders[i], and the  *)
(* uses of loop orders[orders[i]] get the induction variable of loop       *)
(* orders[i].  The steps stay where they are.                              *)
(***************************************************************************)
LoopReorder(orders) ==
  /\ pass = "reorder"
  /\ nest' = [i \in DOMAIN nest |->
                [nest[i] EXCEPT !.lb = nest[orders[i]].lb, !.ub = nest[orders[i]].ub]]
  /\ uses' = [d \in DOMAIN uses |->
                LET i == CHOOSE i \in DOMAIN orders :
                           uses[d].of = nest[orders[orders[i]]].iv
                IN  iv(nest[orders[i]].iv, uses[d].plus)]
  /\ pass' = next(pass)
  /\ UNCHANGED <<top, at, original, merged, cut>>

(***************************************************************************)
(* merge-loop: the loops are counted from the innermost one.  The first of *)
(* the list runs as often as all of them together, the others once; no use *)
(* of an induction variable changes.  A pipeline may merge several times.  *)
(***************************************************************************)
MergeLoop(indices) ==
  LET touched == {Len(nest) - indices[i] : i \in DOMAIN indices}
      first   == Len(nest) - indices[1]
      bound   == FoldSet(LAMBDA n, product : product * tripCount(nest[n]), 1, touched)
  IN  /\ pass = "merge"
      /\ nest' = [n \in DOMAIN nest |->
                    IF n \in touched
                    THEN [nest[n] EXCEPT !.ub = <<const(IF n = first THEN bound ELSE 1)>>]
                    ELSE nest[n]]
      /\ merged' = merged \cup {d \in DOMAIN uses : \E n \in touched : uses[d].of = nest[n].iv}
      /\ UNCHANGED <<top, uses, at, pass, original, cut>>

(***************************************************************************)
(* loop-remove walks down the nest.  A loop whose bounds are not known, or *)
(* that runs more than once, is passed by ...                              *)
(***************************************************************************)
RemovingPass == pass \in {"remove", "removeAgain"} /\ at \in DOMAIN nest

Removable(loop) == hasConstantBounds(loop) /\ loop.ub[1].plus - loop.lb.plus <= loop.step

PassesBy ==
  /\ RemovingPass /\ ~Removable(nest[at])
  /\ at' = at + 1
  /\ UNCHANGED <<nest, top, uses, pass, original, merged, cut>>

(* Mutant: the walk goes on behind the loop that was inside. *)
nextWithinSkips(n) == n + 1

(* walkRegions from the constant that stands for the loop that was at n.   *)
nextWithin(n) == n

(* ... and one that runs once gives way to its body, where its lower bound  *)
(* replaces its induction variable.                                         *)
LoopRemove ==
  LET loop  == nest[at]
      lower == loop.lb.plus
      moved == loop.consts \cup {constant(lower, IvUsed(loop.iv))}
      rest  == RemoveAt(nest, at)
  IN  /\ RemovingPass /\ Removable(loop)
      /\ nest' = [n \in DOMAIN rest |->
                    [inLoop(rest[n], loop.iv, lower) EXCEPT
                       !.consts = IF n = at - 1 THEN @ \cup moved ELSE @]]
      /\ top' = IF at = 1 THEN top \cup moved ELSE top
      /\ uses' = [d \in DOMAIN uses |-> replaceUses(uses[d], loop.iv, lower)]
      /\ at' = nextWithin(at)
      /\ UNCHANGED <<pass, original, merged, cut>>

Removed ==
  /\ pass \in {"remove", "removeAgain"} /\ at > Len(nest)
  /\ at' = 1
  /\ pass' = next(pass)
  /\ UNCHANGED <<nest, top, uses, original, merged, cut>>

(* cse, of MLIR: constants that nothing uses, or that are known further    *)
(* out, go.                                                                *)
CSE ==
  LET live(consts) == {c \in consts : c.used}
      outer(n) == live(top) \cup UNION {live(nest[m].consts) : m \in 1 .. n - 1}
  IN  /\ pass = "cse"
      /\ nest' = [n \in DOMAIN nest |->
                    [nest[n] EXCEPT !.consts = live(@) \ outer(n)]]
      /\ top' = live(top)
      /\ pass' = next(pass)
      /\ UNCHANGED <<uses, at, original, merged, cut>>

-----------------------------------------------------------------------------
(* Mutant: the size only stays within half of the trip count. *)
adjustToHalves(sizes) ==
  [n \in DOMAIN sizes |-> LET trips == tripCount(nest[n])
                          IN  IF trips > 1 /\ sizes[n] > trips \div 2 THEN trips \div 2
                              ELSE sizes[n]]

(* loop-tile: the sizes of the tiles. *)
adjustToDivisorsOfTripCounts(sizes) ==
  [n \in DOMAIN sizes |->
     LET trips == tripCount(nest[n])
         size  == IF trips > 1 /\ sizes[n] > trips \div 2 THEN trips \div 2 ELSE sizes[n]
     IN  Max({s \in 1 .. size : trips % s = 0})]

(* ... from the option tile-sizes, filled up or shortened to the band ... *)
givenSizes(list) ==
  [n \in 1 .. bandWidth |-> IF n <= Len(list) THEN list[n] ELSE kDefaultTileSize]

(* ... of the default size, when the footprint is not known ... *)
defaultSizes == adjustToDivisorsOfTripCounts([n \in 1 .. bandWidth |-> kDefaultTileSize])

(* ... or such that the tiles make up for the excess of the footprint.  The *)
(* pass takes the root of it in floating point, and what should be a whole  *)
(* third root or higher may come out below it, as 4 of 64 does.             *)
roots(excess) ==
  LET root == Max({s \in 1 .. excess : s = 1 \/ s ^ bandWidth <= excess})
  IN  IF excess <= 1 THEN {1}
      ELSE {s \in 1 .. excess : \/ s = root
                               \/ /\ s = root - 1 /\ bandWidth > 2
                                  /\ root ^ bandWidth = excess}

fittingSizes(excess, root) ==
  LET last == Max({s \in 1 .. excess : s = 1 \/ s * root ^ (bandWidth - 1) <= excess})
  IN  IF excess <= 1 THEN [n \in 1 .. bandWidth |-> 1]
      ELSE adjustToDivisorsOfTripCounts(
             [n \in 1 .. bandWidth |-> IF n < bandWidth THEN root ELSE last])

tileIv(loop) == loop.iv + Len(original)

tileLoop(loop, size) ==
  [loop EXCEPT !.iv = tileIv(loop), !.step = size, !.consts = {}]

(* Mutant: the last tile is always taken for a full one. *)
pointLoopFullTile(loop, size) ==
  [loop EXCEPT !.lb = iv(tileIv(loop), 0), !.step = 1, !.ub = << iv(tileIv(loop), size) >>]

(* The point loop, which keeps the name of the induction variable. *)
pointLoop(loop, size) ==
  LET tile  == iv(tileIv(loop), 0)
      trips == tripCount(loop)
  IN  [loop EXCEPT
         !.lb = tile, !.step = 1,
         !.ub = CASE trips < size -> <<[tile EXCEPT !.plus = trips]>>
                  [] trips >= size /\ trips % size # 0 ->
                       <<[tile EXCEPT !.plus = size]>> \o loop.ub
                  [] OTHER -> <<[tile EXCEPT !.plus = size]>>]

(* Each loop of the band becomes one over the tiles and one within a tile. *)
LoopTile(sizes) ==
  /\ pass = "tile"
  /\ nest' = [n \in DOMAIN sizes |-> tileLoop(nest[n], sizes[n])]
             \o [n \in DOMAIN sizes |-> pointLoop(nest[n], sizes[n])]
             \o SubSeq(nest, Len(sizes) + 1, Len(nest))
  /\ pass' = next(pass)
  /\ UNCHANGED <<top, uses, at, original, merged, cut>>

TilesToFit ==
  /\ pass = "tile" /\ nest # <<>>
  /\ \/ LoopTile(defaultSizes)
     \/ \E excess \in ExcessFactors : \E root \in roots(excess) :
          LoopTile(fittingSizes(excess, root))

TilesAsGiven == nest # <<>> /\ \E list \in TileSizes : LoopTile(givenSizes(list))

(***************************************************************************)
(* simplify-affine-loop: a loop whose induction variable nothing uses      *)
(* takes the constant 0, defined before it, for the operand of its bounds. *)
(* Its bounds must have one: setLowerBound asserts it.                     *)
(***************************************************************************)
SimplifyAffineLoop ==
  LET unused == {n \in DOMAIN nest : ~IvUsed(nest[n].iv)}
      zero(loop) == inLoop(loop, loop.lb.of, 0)
  IN  /\ pass = "simplify"
      /\ \A n \in unused : Operands(nest[n])
      /\ nest' = [n \in DOMAIN nest |->
                    [(IF n \in unused THEN zero(nest[n]) ELSE nest[n]) EXCEPT
                       !.consts = IF n + 1 \in unused THEN @ \cup {constant(0, TRUE)} ELSE @]]
      /\ top' = IF 1 \in unused THEN top \cup {constant(0, TRUE)} ELSE top
      /\ cut' = \E n \in unused : Len(nest[n].ub) > 1
      /\ pass' = next(pass)
      /\ UNCHANGED <<uses, at, original, merged>>

-----------------------------------------------------------------------------
Next ==
  \/ Skip
  \/ \E orders \in SetToSeqs(DOMAIN original) : LoopReorder(orders)
  \/ \E indices \in SetToAllKPermutations(0 .. Len(original) - 1) :
       Len(indices) \in 1 .. MaxMerged /\ MergeLoop(indices)
  \/ PassesBy \/ LoopRemove \/ Removed
  \/ CSE
  \/ TilesToFit \/ TilesAsGiven
  \/ SimplifyAffineLoop

Spec == Init /\ [][Next]_vars

-----------------------------------------------------------------------------
Product(dims) == FoldSet(LAMBDA d, product : product * original[d], 1, dims)

(* The shape of the state: what a bound refers to is a loop further out. *)
TypeOK ==
  /\ original \in Nests
  /\ pass \in Range(Passes) /\ at \in 1 .. Len(nest) + 1
  /\ \A n \in DOMAIN nest :
       /\ nest[n].step \in Nat \ {0} /\ nest[n].ub # <<>>
       /\ \A b \in {nest[n].lb} \cup Range(nest[n].ub) :
            b.of # None => \E m \in 1 .. n - 1 : nest[m].iv = b.of
  /\ \A d \in DOMAIN uses : uses[d].of # None => \E n \in DOMAIN nest : nest[n].iv = uses[d].of
  /\ merged \subseteq DOMAIN uses /\ cut \in BOOLEAN

(***************************************************************************)
(* The passes keep how often the body runs, whatever is reordered, merged, *)
(* removed and tiled (MergeLoop.cpp, LoopRemoving.cpp, MyLoopTiling.cpp):  *)
(* the cycles of the lowered program depend on nothing else.  Only         *)
(* simplify-affine-loop gives it up, for tiles that do not divide a loop.  *)
(* There it puts 0 for the tile in the least of two bounds                 *)
(* (SimplifyAffineLoop.cpp:39).                                            *)
(***************************************************************************)
IterationsKept == ~cut => Len(Trace) = Product(DOMAIN original)

(***************************************************************************)
(* The source loops that were not merged still run over their whole range  *)
(* and nothing else, in every combination and each equally often, after    *)
(* every rewriting of bounds and uses.                                     *)
(***************************************************************************)
UnmergedUniform ==
  LET kept    == DOMAIN uses \ merged
      trace   == Trace
      indices == [kept -> UNION {0 .. original[d] - 1 : d \in kept}]
      times(index) == Quantify(DOMAIN trace, LAMBDA i : \A d \in kept : trace[i][d] = index[d])
  IN  \A index \in indices :
        times(index) * Product(kept)
          = IF \A d \in kept : index[d] < original[d] THEN Len(trace) ELSE 0

(***************************************************************************)
(* When loop-remove has walked down the nest, it has left no loop that     *)
(* runs only once: removing one does not make the walk miss the next       *)
(* (LoopRemoving.cpp:193).                                                 *)
(***************************************************************************)
NothingRemovableLeft ==
  [][at > 1 /\ pass' # pass => \A n \in DOMAIN nest' : ~Removable(nest'[n])]_vars

(***************************************************************************)
(* Tiles whose size the pass chooses itself divide the trip counts, so no  *)
(* loop needs the minimum of two bounds (avoidMaxMinBounds,                *)
(* MyLoopTiling.cpp:55).                                                   *)
(***************************************************************************)
FittingTilesDivide ==
  [][TilesToFit => \A n \in DOMAIN nest' : Len(nest'[n].ub) = 1]_vars
=============================================================================
