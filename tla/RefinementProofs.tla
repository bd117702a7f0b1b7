-------------------------- MODULE RefinementProofs --------------------------
(***************************************************************************)
(* The simulator implements EventSemantics, for every program, any number  *)
(* of devices and every order of the hash table: whatever it does is a     *)
(* step of the events or changes nothing an event could notice.            *)
(***************************************************************************)
EXTENDS OrderProofs, EventRefinement

-----------------------------------------------------------------------------
(***************************************************************************)
(* The launch around an operation.  bodyOf is a recursive function; that   *)
(* there is one is shown by giving it: of the blocks around b, the last    *)
(* that is the body of a launch or the function.                           *)
(***************************************************************************)
ends(b) == b = Host \/ P.kind[b] = "launch"

Closed(S) == S \subseteq Blocks /\ \A y \in S : y \in Ops => P.block[y] \in S

around(b) == { x \in Blocks : \A S \in SUBSET Blocks : b \in S /\ Closed(S) => x \in S }

bodies(b) == { x \in around(b) : ends(x) }

LEMMA AroundIt ==
  ASSUME TypeOK, NEW b \in Blocks
  PROVE  /\ b \in around(b) /\ \A x \in around(b) : x <= b
         /\ b \in Ops => around(b) = {b} \cup around(P.block[b])
<1>1. /\ Ops \subseteq Nat \ {0} /\ \A o \in Ops : P.block[o] \in Blocks /\ P.block[o] < o
      /\ Blocks \subseteq Nat
  BY BlockFacts DEF blockOf, Blocks
<1>2. b \in around(b)
  BY DEF around
<1>3. \A x \in around(b) : x <= b
  <2> DEFINE S == { x \in Blocks : x <= b }
  <2>1. Closed(S)
    <3> SUFFICES ASSUME NEW y \in S, y \in Ops PROVE P.block[y] \in S
      BY DEF Closed
    <3>1. y \in Nat /\ b \in Nat /\ P.block[y] \in Nat /\ P.block[y] < y /\ y <= b
      BY <1>1
    <3>2. P.block[y] <= b /\ P.block[y] \in Blocks
      BY <1>1, <3>1
    <3> QED
      BY <3>2
  <2>2. b \in S /\ S \in SUBSET Blocks
    BY <1>1
  <2> QED
    BY <2>1, <2>2 DEF around
<1>4. ASSUME b \in Ops
      PROVE  around(b) = {b} \cup around(P.block[b])
  <2> DEFINE p == P.block[b]
             S == {b} \cup around(p)
  <2>1. p \in Blocks /\ p \in around(p)
    BY <1>1, <1>4 DEF around
  <2>2. \A x \in around(p) : x \in Ops => P.block[x] \in around(p)
    <3> SUFFICES ASSUME NEW x \in around(p), x \in Ops, NEW T \in SUBSET Blocks, p \in T, Closed(T)
                 PROVE  P.block[x] \in T
      BY <1>1 DEF around
    <3>1. x \in T
      BY DEF around
    <3> QED
      BY <3>1 DEF Closed
  <2>3. Closed(S) /\ S \in SUBSET Blocks /\ b \in S
    <3>1. around(p) \subseteq Blocks
      BY DEF around
    <3> QED
      BY <2>1, <2>2, <3>1 DEF Closed
  <2>4. around(b) \subseteq S
    BY <2>3 DEF around
  <2>5. ASSUME NEW x \in around(p)
        PROVE  x \in around(b)
    <3> SUFFICES ASSUME NEW T \in SUBSET Blocks, b \in T, Closed(T) PROVE x \in T
      BY <2>5 DEF around
    <3>1. p \in T
      BY <1>4 DEF Closed
    <3> QED
      BY <2>5, <3>1 DEF around
  <2> QED
    BY <1>2, <2>4, <2>5
<1> QED
  BY <1>2, <1>3, <1>4

LEMMA BodyOf ==
  ASSUME TypeOK, NEW o \in Ops
  PROVE  bodyOf(P, o) = IF ends(blockOf(o)) THEN blockOf(o) ELSE bodyOf(P, blockOf(o))
<1> DEFINE F(f) == f = [b \in OpsIn(P) \cup {Host} |->
                         IF b = Host \/ P.kind[b] = "launch" THEN b ELSE f[P.block[b]]]
           last(b) == CHOOSE x \in bodies(b) : \A y \in bodies(b) : y <= x
           g == [b \in Blocks |-> last(b)]
           launchOf == CHOOSE f : F(f)
<1>1. Blocks = OpsIn(P) \cup {Host} /\ Ops \subseteq Nat \ {0} /\ Blocks \subseteq Nat
      /\ \A x \in Ops : P.block[x] \in Blocks
  BY BlockFacts DEF Blocks, Ops, Host, blockOf
<1>2. ASSUME NEW b \in Blocks, ends(b)
      PROVE  last(b) = b
  <2>1. b \in bodies(b) /\ \A y \in bodies(b) : y <= b /\ y \in Nat
    BY <1>1, <1>2, AroundIt DEF bodies, around
  <2>2. \A x \in bodies(b) : (\A y \in bodies(b) : y <= x) => x = b
    BY <2>1
  <2> QED
    BY <2>1, <2>2
<1>3. ASSUME NEW b \in Blocks, ~ ends(b)
      PROVE  last(b) = last(P.block[b])
  <2>1. b \in Ops
    BY <1>3 DEF ends, Blocks, Host
  <2>2. bodies(b) = bodies(P.block[b])
    BY <1>3, <2>1, AroundIt DEF bodies
  <2> QED
    BY <2>2
<1> HIDE DEF last
<1>4. F(g)
  <2>1. \A b \in Blocks : g[b] = IF ends(b) THEN b ELSE g[P.block[b]]
    <3> SUFFICES ASSUME NEW b \in Blocks PROVE g[b] = IF ends(b) THEN b ELSE g[P.block[b]]
      OBVIOUS
    <3>1. ~ ends(b) => P.block[b] \in Blocks
      BY <1>1 DEF ends, Blocks, Host
    <3> QED
      BY <1>2, <1>3, <3>1
  <2>2. g = [b \in Blocks |-> g[b]]
    OBVIOUS
  <2>3. g = [b \in Blocks |-> IF ends(b) THEN b ELSE g[P.block[b]]]
    BY <2>1, <2>2
  <2> QED
    BY <1>1, <2>3 DEF ends
<1>5. F(launchOf)
  BY <1>4
<1> HIDE DEF g
<1>6. \A b \in Blocks : launchOf[b] = IF ends(b) THEN b ELSE launchOf[P.block[b]]
  BY <1>1, <1>5 DEF ends
<1>7. \A x \in Ops : bodyOf(P, x) = launchOf[P.block[x]]
  BY DEF bodyOf
<1> HIDE DEF launchOf
<1>8. P.block[o] \in Blocks /\ (~ ends(P.block[o]) => P.block[o] \in Ops)
  BY <1>1 DEF ends, Blocks, Host
<1> QED
  BY <1>6, <1>7, <1>8 DEF blockOf
-----------------------------------------------------------------------------
(* The abstract program, field by field.                                    *)
graphOf == GraphOf(prog)

LEMMA GraphFields ==
  ASSUME TypeOK
  PROVE
  /\ graphOf.events = Events
  /\ graphOf.controls = { o \in Ops : kind(o) \in ControlKinds }
  /\ graphOf.awaits = { o \in Ops : kind(o) = "await" }
  /\ graphOf.devices = Launchers \ {Host}
  /\ graphOf.device = [o \in Events |-> P.target[o]]
  /\ \A o \in Ops : kind(o) \in AsyncKinds => graphOf.signal[o] = doneOf(o)
  /\ \A o \in Events : graphOf.results[o] = [i \in DOMAIN P.results[o] |-> valueId(P.results[o][i])]
  /\ \A o \in countedOps : /\ graphOf.block[o] = blockOf(o)
                           /\ graphOf.body[o] = bodyOf(P, o)
                           /\ graphOf.runs[o] = P.blockExs[blockOf(o)]
                           /\ graphOf.perBody[o] =
                                P.blockExs[blockOf(o)] \div P.blockExs[bodyOf(P, o)]
  /\ graphOf.signalRuns = P.defExs
<1>1. graphOf.events = Events /\ graphOf.device = [o \in Events |-> P.target[o]]
  BY DEF graphOf, GraphOf, Events, Ops, kind, P, OpsIn
<1>2. /\ graphOf.controls = { o \in Ops : kind(o) \in ControlKinds }
      /\ graphOf.awaits = { o \in Ops : kind(o) = "await" }
  BY DEF graphOf, GraphOf, Ops, kind, P, OpsIn
<1>3. graphOf.devices = Launchers \ {Host}
  BY BlockFacts DEF graphOf, GraphOf, Ops, Launchers, P, OpsIn, Host, kind
<1>4. \A o \in Ops : kind(o) \in AsyncKinds => graphOf.signal[o] = doneOf(o)
  BY DEF graphOf, GraphOf, Ops, kind, P, OpsIn, doneOf
<1>5. \A o \in Events : graphOf.results[o] =
        [i \in DOMAIN P.results[o] |-> valueId(P.results[o][i])]
  BY DEF graphOf, GraphOf, Ops, kind, P, OpsIn, valueId, Events, AsyncKinds
<1>6. \A o \in countedOps : /\ graphOf.block[o] = blockOf(o)
                           /\ graphOf.body[o] = bodyOf(P, o)
                           /\ graphOf.runs[o] = P.blockExs[blockOf(o)]
                           /\ graphOf.perBody[o] =
                                P.blockExs[blockOf(o)] \div P.blockExs[bodyOf(P, o)]
  BY DEF graphOf, GraphOf, Ops, kind, P, OpsIn, blockOf, countedOps
<1>7. graphOf.signalRuns = P.defExs
  BY DEF graphOf, GraphOf, P
<1> QED
  BY <1>1, <1>2, <1>3, <1>4, <1>5, <1>6, <1>7

(* The signals the abstract program counts on are those a run depends on.   *)
LEMMA GraphNeeds ==
  ASSUME NEW o \in countedOps, NEW s \in graphOf.needs[o]
  PROVE  (\E v \in waitOperands(o) : valueId(v) = s) /\ P.iterInitValue[s] = NoValue
         /\ P.blockExs[blockOf(o)] % P.defExs[s] = 0
<1> DEFINE waited == IF P.kind[o] = "launch" THEN {P.ins[o][1]} ELSE Range(P.ins[o])
<1>1. graphOf.needs[o] = { x \in { P.valueIds[v] : v \in waited } :
         P.iterInitValue[x] = NoValue /\ P.blockExs[P.block[o]] % P.defExs[x] = 0 }
  BY DEF graphOf, GraphOf, Ops, kind, P, OpsIn, countedOps
<1>2. waited = waitOperands(o)
  BY DEF waitOperands, kind, Range
<1> HIDE DEF waited
<1> QED
  BY <1>1, <1>2 DEF valueId, blockOf

-----------------------------------------------------------------------------
(***************************************************************************)
(* What the simulator has issued, begun and ended, in terms of how far its *)
(* blocks have been walked: r, c, depth and at as in OrderProofs.          *)
(***************************************************************************)
once(x) == IF x THEN 1 ELSE 0

runs(b) == P.blockExs[b]

isIn(depth, at, b) == \E l \in Launchers : \E i \in Nat : inside(depth, l, i) /\ at[l][i] = b

hasDevice(o) == P.target[o] \in Launchers \ {Host}

issuedOf(o) == begunOf(o) + queued(o)

(* An await is walked past when it is loaded, and issued when it is over.   *)
awaited(o) == \E l \in Launchers : opEntry[l] = o /\ ~ is_started(l)

Issued(r, c) ==
  \A o \in countedOps :
    walks(r, c, o) = issuedOf(o) + once(kind(o) = "await" /\ awaited(o))

Awaiting(depth, at) ==
  \A l \in Launchers : \A o \in Ops : kind(o) = "await" /\ opEntry[l] = o /\ ~ is_started(l) =>
    /\ inside(depth, l, depth[l]) /\ at[l][depth[l]] = blockOf(o)
    /\ nextIter[l] = P.next[o]

(* A loop nobody is inside has made all its iterations, and one somebody    *)
(* is inside some of those since it was entered.                            *)
LoopAt(r, c, depth, at, f) ==
  IF isIn(depth, at, f)
    THEN /\ P.trip[f] * walks(r, c, f) <= r[f] + P.trip[f]
         /\ r[f] < P.trip[f] * walks(r, c, f)
    ELSE r[f] = P.trip[f] * walks(r, c, f)

Looping(r, c, depth, at) ==
  \A f \in Ops : kind(f) = "for" => LoopAt(r, c, depth, at, f)

Yields(r) == \A o \in Ops : kind(o) = "yield" => exTimes[o] = r[blockOf(o)]

(* The body of a launch is walked once for each time the launch began.      *)
Bodies(r, depth, at) ==
  /\ r[0] = 0
  /\ \A o \in Ops : kind(o) = "launch" /\ hasDevice(o) =>
       begunOf(o) = r[o] + once(isIn(depth, at, o))

(* An event that has begun and not ended is on its launcher: the copy, or   *)
(* an operation of the body of the launch.                                  *)
returns(o) == \E l \in Launchers : \E x \in Ops :
                opEntry[l] = x /\ kind(x) = "return" /\ blockOf(x) = o

atWork(depth, at, o) ==
  IF kind(o) = "launch" THEN isIn(depth, at, o) \/ returns(o)
  ELSE \E l \in Launchers : opEntry[l] = o

Signalled(depth, at) ==
  \A o \in Events : begunOf(o) = valueMap[doneOf(o)] + once(atWork(depth, at, o))

Tracks(r, c, depth, at) ==
  /\ OrderAt(r, c, depth, at)
  /\ Issued(r, c) /\ Awaiting(depth, at)
  /\ Looping(r, c, depth, at) /\ Yields(r)
  /\ Bodies(r, depth, at) /\ Signalled(depth, at)

-----------------------------------------------------------------------------
(* What is issued and begun are numbers.                                    *)
LEMMA OneOrNone == \A x : once(x) \in {0, 1}
BY DEF once

LEMMA ScopeFacts ==
  ASSUME TypeOK
  PROVE  /\ \A o \in Ops : hasDevice(o) => P.target[o] < o
         /\ \A o, x \in Ops : blockOf(o) < x /\ x < o => blockOf(o) <= blockOf(x)
<1>1. ScopeTypeOK(P)
  BY ScopeAssumption DEF TypeOK, ControlTypeOK, P
<1> QED
  BY <1>1, BlockFacts DEF ScopeTypeOK, hasDevice, Launchers, Ops, blockOf, Host

LEMMA RunsFacts ==
  ASSUME TypeOK
  PROVE  /\ \A b \in Blocks : runs(b) \in Nat \ {0}
         /\ runs(0) = 1
         /\ \A o \in Ops : P.trip[o] \in Nat \ {0}
         /\ \A o \in Ops : kind(o) = "for" => runs(o) = runs(blockOf(o)) * P.trip[o]
<1>1. ProgramTypeOK(P) /\ BlockTypeOK(P)
  BY ProgramFacts, BlockAssumption DEF TypeOK, ControlTypeOK, P
<1>2. /\ \A b \in Blocks : runs(b) \in Nat \ {0}
      /\ \A o \in Ops : P.trip[o] \in Nat \ {0}
  BY <1>1 DEF ProgramTypeOK, Ops, Blocks, runs
<1>3. /\ runs(0) = 1
      /\ \A o \in Ops : kind(o) = "for" => runs(o) = runs(blockOf(o)) * P.trip[o]
  BY <1>1 DEF BlockTypeOK, Ops, blockOf, kind, runs
<1> QED
  BY <1>2, <1>3

(* The launch or function at the root of the blocks around.                 *)
root(b) == IF ends(b) THEN b ELSE bodyOf(P, b)

isBlock(b) == b = 0 \/ (b \in Ops /\ kind(b) \in {"launch", "for"})

LEMMA RootFacts ==
  ASSUME TypeOK
  PROVE  /\ \A o \in Ops : bodyOf(P, o) = root(blockOf(o)) /\ isBlock(blockOf(o))
         /\ \A b : isBlock(b) => IF b \in Ops /\ kind(b) = "for"
                                   THEN root(b) = root(blockOf(b)) ELSE root(b) = b
<1>1. \A o \in Ops : blockOf(o) \in Blocks /\ (blockOf(o) # 0 => kind(blockOf(o)) \in {"launch", "for"})
  BY BlockFacts
<1>2. \A o \in Ops : bodyOf(P, o) = root(blockOf(o)) /\ isBlock(blockOf(o))
  BY <1>1, BodyOf DEF root, isBlock, Blocks
<1>3. 0 \notin Ops
  BY BlockFacts
<1> QED
  BY <1>2, <1>3 DEF isBlock, root, ends, Host, kind

LEMMA RootOfPlace ==
  ASSUME TypeOK, NEW r, NEW c, NEW depth, NEW at, OrderAt(r, c, depth, at),
         NEW l \in Launchers, NEW i \in Nat, inside(depth, l, i)
  PROVE  isBlock(at[l][i]) /\ root(at[l][i]) = at[l][1] /\ inside(depth, l, 1)
<1> DEFINE bad == { j \in Nat : inside(depth, l, j) /\ root(at[l][j]) # at[l][1] }
<1>1. depth[l] \in Nat /\ depth[l] # 0 /\ inside(depth, l, 1)
  BY DEF OrderAt, GhostType, inside
<1>2. \A j \in Nat : inside(depth, l, j) =>
         isBlock(at[l][j]) /\ (j = 1 => root(at[l][j]) = at[l][j])
  <2>1. isBlock(at[l][1]) /\ root(at[l][1]) = at[l][1]
    BY <1>1, RootFacts, BlockFacts DEF OrderAt, Rooted, isBlock
  <2> QED
    BY <2>1 DEF OrderAt, Chained, isBlock
<1>3. ASSUME bad # {}
      PROVE  FALSE
  <2>1. PICK j \in bad : \A k \in bad : j <= k
    BY <1>3, MinOfNaturals
  <2>2. j # 1 /\ j \in Nat /\ inside(depth, l, j)
    BY <1>2, <2>1
  <2>3. j - 1 \in Nat /\ inside(depth, l, j - 1)
    BY <1>1, <2>2 DEF inside
  <2>4. at[l][j] \in Ops /\ kind(at[l][j]) = "for" /\ blockOf(at[l][j]) = at[l][j - 1]
    BY <2>2 DEF OrderAt, Chained
  <2>5. root(at[l][j]) = root(at[l][j - 1])
    BY <2>4, RootFacts DEF isBlock
  <2>6. root(at[l][j - 1]) # at[l][1]
    BY <2>1, <2>5
  <2>7. j - 1 \in bad
    BY <2>3, <2>6
  <2> QED
    BY <2>1, <2>2, <2>7
<1> QED
  BY <1>1, <1>2, <1>3

-----------------------------------------------------------------------------
(***************************************************************************)
(* How often a block inside the body of a launch has been walked, compared *)
(* with the body itself.                                                   *)
(***************************************************************************)
LEMMA Quotient ==
  ASSUME NEW k \in Nat, NEW n \in Nat \ {0}
  PROVE  (k * n) \div n = k
<1>1. k * n \in Nat
  OBVIOUS
<1>2. PICK q : q = (k * n) \div n
  OBVIOUS
<1>3. q \in Int /\ n * q <= k * n /\ k * n < n * q + n
  BY <1>1, <1>2, Z3
<1>4. q = k
  <2>1. CASE q <= k - 1
    <3>1. n * q + n = n * (q + 1) /\ n * (q + 1) <= n * k
      BY <1>3, <2>1, Z3
    <3> QED
      BY <1>3, <3>1
  <2>2. CASE q >= k + 1
    <3>1. n * (k + 1) <= n * q /\ n * (k + 1) = n * k + n
      BY <1>3, <2>2, Z3
    <3> QED
      BY <1>3, <3>1
  <2> QED
    BY <1>3, <2>1, <2>2
<1> QED
  BY <1>2, <1>4

(* A whole number of rounds that is not in the last one is all of them.     *)
LEMMA LastRound ==
  ASSUME NEW w \in Nat, NEW t \in Nat \ {0}, NEW m \in Nat, t * w <= m - 1 + t, m <= t * w
  PROVE  m % t = 0 <=> m = t * w
<1>1. ASSUME m = t * w
      PROVE  m % t = 0
  BY <1>1, Z3
<1>2. ASSUME m % t = 0
      PROVE  m = t * w
  <2>1. PICK q \in Nat : m = t * q
    BY <1>2, Z3
  <2>2. CASE q <= w - 1
    <3>1. t * q <= t * (w - 1) /\ t * (w - 1) = t * w - t
      BY <2>2, Z3
    <3> QED
      BY <2>1, <3>1
  <2>3. CASE q >= w + 1
    <3>1. t * (w + 1) <= t * q /\ t * (w + 1) = t * w + t
      BY <2>3, Z3
    <3> QED
      BY <2>1, <3>1
  <2> QED
    BY <2>1, <2>2, <2>3
<1> QED
  BY <1>1, <1>2

LEMMA InRoot ==
  ASSUME TypeOK, NEW r, NEW c, NEW depth, NEW at, OrderAt(r, c, depth, at), NEW b,
         isIn(depth, at, b)
  PROVE  isIn(depth, at, root(b))
<1>1. PICK l \in Launchers, i \in Nat : inside(depth, l, i) /\ at[l][i] = b
  BY DEF isIn
<1>2. root(b) = at[l][1] /\ inside(depth, l, 1)
  BY <1>1, RootOfPlace
<1> QED
  BY <1>2 DEF isIn

LEMMA RootKind ==
  ASSUME TypeOK, NEW b, isBlock(b)
  PROVE  root(b) \in Blocks /\ (root(b) = 0 \/ (root(b) \in Ops /\ kind(root(b)) = "launch"))
<1> DEFINE good(x) == root(x) = 0 \/ (root(x) \in Ops /\ kind(root(x)) = "launch")
           bad == { x \in Blocks : isBlock(x) /\ ~ good(x) }
<1>1. \A x : isBlock(x) =>
        /\ x \in Blocks /\ x \in Nat
        /\ x \in Ops /\ kind(x) = "for" =>
             /\ blockOf(x) \in Blocks /\ blockOf(x) < x /\ isBlock(blockOf(x))
             /\ root(x) = root(blockOf(x))
        /\ ~ (x \in Ops /\ kind(x) = "for") => root(x) = x
  BY RootFacts, BlockFacts DEF isBlock, Blocks
<1>2. ASSUME bad # {}
      PROVE  FALSE
  <2>1. bad \subseteq Nat
    BY <1>1
  <2>2. PICK x \in bad : \A y \in bad : x <= y
    BY <1>2, <2>1, MinOfNaturals
  <2>3. x \in Ops /\ kind(x) = "for"
    BY <1>1, <2>2 DEF isBlock
  <2>4. blockOf(x) \in bad /\ blockOf(x) < x
    BY <1>1, <2>2, <2>3
  <2>5. x \in Nat /\ blockOf(x) \in Nat
    BY <2>1, <2>4
  <2> QED
    BY <2>2, <2>4, <2>5
<1> QED
  BY <1>1, <1>2 DEF Blocks

ScaledBy(r, depth, at, k, b) ==
  /\ runs(b) = k * runs(root(b))
  /\ r[b] + once(isIn(depth, at, b)) <= k * (r[root(b)] + once(isIn(depth, at, root(b))))
  /\ ~ isIn(depth, at, root(b)) => r[b] = k * r[root(b)]

(* A loop is walked as often as its block, times its trip count.            *)
LEMMA ScaledOnce ==
  ASSUME TypeOK, NEW r, NEW c, NEW depth, NEW at, OrderAt(r, c, depth, at),
         Looping(r, c, depth, at), NEW f \in Ops, kind(f) = "for",
         NEW k \in Nat \ {0}, ScaledBy(r, depth, at, k, blockOf(f))
  PROVE  ScaledBy(r, depth, at, k * P.trip[f], f) /\ k * P.trip[f] \in Nat \ {0}
<1> DEFINE p == blockOf(f)
           t == P.trip[f]
           n == walks(r, c, f)
           inP == once(isIn(depth, at, p))
           R == r[root(f)]
           inR == once(isIn(depth, at, root(f)))
<1>1. isBlock(f) /\ root(f) = root(p) /\ f \in inBlock(p) /\ p \in Blocks /\ isBlock(p)
  BY RootFacts DEF isBlock, inBlock, Blocks
<1>2. root(f) \in Blocks
  BY <1>1, RootKind
<1>3. /\ t \in Nat \ {0} /\ n \in Nat /\ r[f] \in Nat /\ r[p] \in Nat /\ R \in Nat
      /\ inP \in Nat /\ inR \in Nat /\ runs(f) \in Nat /\ runs(p) \in Nat
      /\ runs(root(f)) \in Nat /\ runs(f) = runs(p) * t
  <2>1. r \in [Blocks -> Nat] /\ c \in [Blocks -> Nat]
    BY DEF OrderAt, GhostType
  <2>2. n \in Nat
    BY <2>1, WalksType
  <2>3. f \in Blocks
    BY DEF Blocks
  <2> QED
    BY <1>1, <1>2, <2>1, <2>2, <2>3, RunsFacts DEF once
<1>4. n <= r[p] + inP /\ (~ isIn(depth, at, p) => n = r[p])
  <2>1. n = r[p] \/ n = r[p] + 1
    BY <1>3 DEF walks
  <2>2. ~ isIn(depth, at, p) => n = r[p]
    <3> SUFFICES ASSUME ~ isIn(depth, at, p) PROVE n = r[p]
      OBVIOUS
    <3>1. ~ (f < c[p])
      BY <1>1 DEF isIn, OrderAt, Fresh
    <3> QED
      BY <1>3, <3>1 DEF walks
  <2> QED
    BY <1>3, <2>1, <2>2 DEF once
<1>5. r[f] + once(isIn(depth, at, f)) <= t * n /\ (~ isIn(depth, at, f) => r[f] = t * n)
  <2>1. CASE isIn(depth, at, f)
    <3>1. r[f] < t * n
      BY <2>1 DEF Looping, LoopAt
    <3>2. t * n \in Nat
      BY <1>3
    <3> QED
      BY <1>3, <2>1, <3>1, <3>2 DEF once
  <2>2. CASE ~ isIn(depth, at, f)
    <3>1. r[f] = t * n
      BY <2>2 DEF Looping, LoopAt
    <3> QED
      BY <1>3, <2>2, <3>1 DEF once
  <2> QED
    BY <2>1, <2>2
<1>6. /\ runs(p) = k * runs(root(f)) /\ r[p] + inP <= k * (R + inR)
      /\ ~ isIn(depth, at, root(f)) => r[p] = k * R
  BY <1>1 DEF ScaledBy
<1>7. isIn(depth, at, p) \/ isIn(depth, at, f) => isIn(depth, at, root(f))
  BY <1>1, InRoot
<1>8. PICK i : i = once(isIn(depth, at, f))
  OBVIOUS
<1>9. i \in Nat
  BY <1>8 DEF once
<1> HIDE DEF t, n, inP, R, inR
<1>10. runs(f) = (k * t) * runs(root(f)) /\ k * t \in Nat \ {0}
  BY <1>3, <1>6, Z3
<1>11. r[f] + i <= (k * t) * (R + inR)
  <2>1. t * n <= t * (r[p] + inP)
    BY <1>3, <1>4, MulMono
  <2>2. t * (r[p] + inP) <= t * (k * (R + inR))
    BY <1>3, <1>6, MulMono
  <2>3. t * (k * (R + inR)) = (k * t) * (R + inR)
    BY <1>3, Z3
  <2>4. t * n \in Nat /\ t * (r[p] + inP) \in Nat /\ (k * t) * (R + inR) \in Nat
    BY <1>3, <1>10
  <2> QED
    BY <1>3, <1>5, <1>8, <1>9, <2>1, <2>2, <2>3, <2>4
<1>12. ~ isIn(depth, at, root(f)) => r[f] = (k * t) * R
  <2> SUFFICES ASSUME ~ isIn(depth, at, root(f)) PROVE r[f] = (k * t) * R
    OBVIOUS
  <2>1. r[f] = t * n /\ n = r[p] /\ r[p] = k * R
    BY <1>4, <1>5, <1>6, <1>7
  <2>2. t * (k * R) = (k * t) * R
    BY <1>3, Z3
  <2> QED
    BY <2>1, <2>2
<1> QED
  BY <1>8, <1>10, <1>11, <1>12 DEF ScaledBy, R, inR, t

LEMMA Scaled ==
  ASSUME TypeOK, NEW r, NEW c, NEW depth, NEW at, OrderAt(r, c, depth, at),
         Looping(r, c, depth, at), NEW b, isBlock(b)
  PROVE  \E k \in Nat \ {0} : ScaledBy(r, depth, at, k, b)
<1> DEFINE unscaled == { x \in Blocks : isBlock(x) /\
                           ~ \E k \in Nat \ {0} : ScaledBy(r, depth, at, k, x) }
<1>1. \A x : isBlock(x) => x \in Blocks /\ x \in Nat
  BY BlockFacts DEF isBlock, Blocks
<1>2. r \in [Blocks -> Nat]
  BY DEF OrderAt, GhostType
<1>3. ASSUME unscaled # {}
      PROVE  FALSE
  <2>1. unscaled \subseteq Nat
    BY <1>1
  <2>2. PICK x \in unscaled : \A y \in unscaled : x <= y
    BY <1>3, <2>1, MinOfNaturals
  <2>3. CASE x \in Ops /\ kind(x) = "for"
    <3>1. blockOf(x) < x /\ isBlock(blockOf(x))
      BY <2>3, BlockFacts, RootFacts
    <3>2. blockOf(x) \notin unscaled
      BY <1>1, <2>1, <2>2, <3>1
    <3>3. PICK k \in Nat \ {0} : ScaledBy(r, depth, at, k, blockOf(x))
      BY <1>1, <3>1, <3>2
    <3>4. ScaledBy(r, depth, at, k * P.trip[x], x) /\ k * P.trip[x] \in Nat \ {0}
      BY <2>3, <3>3, ScaledOnce
    <3> QED
      BY <2>2, <3>4
  <2>4. CASE ~ (x \in Ops /\ kind(x) = "for")
    <3>1. root(x) = x /\ r[x] \in Nat /\ runs(x) \in Nat
      BY <1>2, <2>2, <2>4, RootFacts, RunsFacts
    <3>2. once(isIn(depth, at, x)) \in Nat
      BY DEF once
    <3>3. ScaledBy(r, depth, at, 1, x)
      BY <3>1, <3>2 DEF ScaledBy
    <3> QED
      BY <2>2, <3>3
  <2> QED
    BY <2>3, <2>4
<1> QED
  BY <1>1, <1>3

-----------------------------------------------------------------------------
(* How often an operation is in a queue.                                    *)
places(q, x) == { i \in DOMAIN q : q[i] = x }

times(q, x) == Cardinality(places(q, x))

LEMMA TimesType ==
  ASSUME NEW S, NEW q \in Seq(S), NEW x
  PROVE  /\ times(q, x) \in Nat /\ IsFiniteSet(places(q, x))
         /\ (times(q, x) = 0 <=> \A i \in DOMAIN q : q[i] # x)
<1>1. DOMAIN q = 1 .. Len(q) /\ Len(q) \in Nat
  BY LenProperties
<1>2. IsFiniteSet(1 .. Len(q))
  BY <1>1, FS_Interval
<1>3. IsFiniteSet(places(q, x))
  BY <1>1, <1>2, FS_Subset DEF places
<1>4. times(q, x) = 0 <=> places(q, x) = {}
  BY <1>3, FS_EmptySet DEF times
<1> QED
  BY <1>3, <1>4, FS_CardinalityType DEF times, places

LEMMA TimesAppend ==
  ASSUME NEW S, NEW q \in Seq(S), NEW o \in S, NEW x
  PROVE  times(Append(q, o), x) = times(q, x) + once(x = o)
<1>1. /\ DOMAIN q = 1 .. Len(q) /\ Len(q) \in Nat
      /\ DOMAIN Append(q, o) = 1 .. Len(q) + 1
      /\ Append(q, o)[Len(q) + 1] = o
      /\ \A i \in 1 .. Len(q) : Append(q, o)[i] = q[i]
  BY LenProperties, AppendProperties
<1>2. IsFiniteSet(places(q, x)) /\ times(q, x) \in Nat
  BY TimesType
<1>3. CASE x = o
  <2>1. places(Append(q, o), x) = places(q, x) \cup {Len(q) + 1} /\ Len(q) + 1 \notin places(q, x)
    BY <1>1, <1>3 DEF places
  <2> QED
    BY <1>2, <1>3, <2>1, FS_AddElement DEF times, once
<1>4. CASE x # o
  <2>1. places(Append(q, o), x) = places(q, x)
    BY <1>1, <1>4 DEF places
  <2> QED
    BY <1>2, <1>4, <2>1 DEF times, once
<1> QED
  BY <1>3, <1>4

LEMMA TimesRemove ==
  ASSUME NEW S, NEW q \in Seq(S), NEW i \in DOMAIN q, NEW q2, NEW x,
         q2 = [j \in 1 .. Len(q) - 1 |-> IF j < i THEN q[j] ELSE q[j + 1]]
  PROVE  times(q, x) = times(q2, x) + once(x = q[i]) /\ times(q2, x) \in Nat
<1> DEFINE T == places(q, x) \ {i}
           f == [j \in places(q2, x) |-> IF j < i THEN j ELSE j + 1]
<1>1. DOMAIN q = 1 .. Len(q) /\ Len(q) \in Nat /\ i \in 1 .. Len(q)
      /\ DOMAIN q2 = 1 .. Len(q) - 1
  BY LenProperties
<1>2. IsFiniteSet(places(q, x)) /\ times(q, x) \in Nat
  BY TimesType
<1>3. IsFiniteSet(T) /\ Cardinality(T) = times(q, x) - once(x = q[i])
  <2>1. i \in places(q, x) <=> x = q[i]
    BY <1>1 DEF places
  <2> QED
    BY <1>2, <2>1, FS_RemoveElement DEF times, once
<1>4. f \in [places(q2, x) -> T]
  <2> SUFFICES ASSUME NEW j \in places(q2, x)
               PROVE  (IF j < i THEN j ELSE j + 1) \in T
    OBVIOUS
  <2>1. j \in 1 .. Len(q) - 1 /\ q2[j] = x
    BY <1>1 DEF places
  <2> QED
    BY <1>1, <2>1 DEF places
<1>5. \A a, b \in places(q2, x) : f[a] = f[b] => a = b
  <2>1. places(q2, x) \subseteq Nat
    BY <1>1 DEF places
  <2> QED
    BY <1>1, <2>1
<1>6. \A t \in T : \E j \in places(q2, x) : f[j] = t
  <2> SUFFICES ASSUME NEW t \in T PROVE \E j \in places(q2, x) : f[j] = t
    OBVIOUS
  <2>1. t \in 1 .. Len(q) /\ q[t] = x /\ t # i
    BY <1>1 DEF places
  <2>2. PICK j : j = IF t < i THEN t ELSE t - 1
    OBVIOUS
  <2>3. j \in 1 .. Len(q) - 1 /\ q2[j] = x /\ t = IF j < i THEN j ELSE j + 1
    BY <1>1, <2>1, <2>2
  <2>4. j \in places(q2, x)
    BY <1>1, <2>3 DEF places
  <2> QED
    BY <2>3, <2>4
<1> HIDE DEF T
<1>7. f \in Bijection(places(q2, x), T)
  BY <1>4, <1>5, <1>6 DEF Bijection, Injection, Surjection, IsInjective
<1>8. IsFiniteSet(places(q2, x))
  BY <1>3, <1>7, FS_Injection DEF Bijection
<1>9. Cardinality(T) = Cardinality(places(q2, x)) /\ Cardinality(places(q2, x)) \in Nat
  BY <1>7, <1>8, FS_Bijection, FS_CardinalityType DEF ExistsBijection
<1> QED
  BY <1>2, <1>3, <1>9 DEF times, once

LEMMA TimesTail ==
  ASSUME NEW S, NEW q \in Seq(S), q # <<>>, NEW x
  PROVE  times(q, x) = times(Tail(q), x) + once(x = Head(q)) /\ times(Tail(q), x) \in Nat
<1>1. /\ 1 \in DOMAIN q /\ Head(q) = q[1]
      /\ Tail(q) = [j \in 1 .. Len(q) - 1 |-> IF j < 1 THEN q[j] ELSE q[j + 1]]
  <2>1. DOMAIN q = 1 .. Len(q) /\ Len(q) \in Nat \ {0}
    BY LenProperties, EmptySeq
  <2>2. Head(q) = q[1] /\ Tail(q) = [j \in 1 .. Len(q) - 1 |-> q[j + 1]]
    <3>1. PICK t \in Seq(S) : t = Tail(q) /\ Len(t) = Len(q) - 1
                              /\ \A j \in 1 .. Len(t) : t[j] = q[j + 1]
      BY HeadTailProperties
    <3>2. t \in [1 .. Len(q) - 1 -> S]
      BY <3>1, LenProperties
    <3>3. t = [j \in 1 .. Len(q) - 1 |-> q[j + 1]]
      BY <3>1, <3>2
    <3>4. Head(q) = q[1]
      BY <2>1
    <3> QED
      BY <3>1, <3>3, <3>4
  <2>3. [j \in 1 .. Len(q) - 1 |-> q[j + 1]]
          = [j \in 1 .. Len(q) - 1 |-> IF j < 1 THEN q[j] ELSE q[j + 1]]
    BY <2>1
  <2> QED
    BY <2>1, <2>2, <2>3
<1>2. PICK q2, i : q2 = Tail(q) /\ i = 1
  OBVIOUS
<1>3. i \in DOMAIN q /\ q[i] = Head(q)
      /\ q2 = [j \in 1 .. Len(q) - 1 |-> IF j < i THEN q[j] ELSE q[j + 1]]
  BY <1>1, <1>2
<1>4. times(q, x) = times(q2, x) + once(x = q[i]) /\ times(q2, x) \in Nat
  BY <1>3, TimesRemove
<1> QED
  BY <1>2, <1>3, <1>4

-----------------------------------------------------------------------------
(***************************************************************************)
(* The abstract state.                                                     *)
(***************************************************************************)
issuedBy == [o \in countedOps |-> begunOf(o) + queued(o)]
begunBy  == [o \in countedOps |-> begunOf(o)]
queues   == [d \in Launchers \ {Host} |-> eventQueue[d]]

LEMMA AbstractQuiet ==
  ASSUME graphOf' = graphOf, Existing' = Existing, issuedBy' = issuedBy, begunBy' = begunBy,
         queues' = queues, valueMap' = valueMap
  PROVE  UNCHANGED Abstract!vars
BY DEF Abstract!vars, graphOf, issuedBy, begunBy, queues

LEMMA CountedFacts ==
  ASSUME TypeOK
  PROVE  /\ countedOps \subseteq Ops /\ Events \subseteq countedOps
         /\ \A o \in countedOps : \/ o \in Events
                                  \/ kind(o) \in ControlKinds
                                  \/ kind(o) = "await"
         /\ \A o \in Ops : kind(o) \in ControlKinds \/ kind(o) = "await" => o \in countedOps
         /\ countedOps = graphOf.events \cup graphOf.controls \cup graphOf.awaits
         /\ \A o \in Events : kind(o) \in AsyncKinds /\ o \in Ops /\ doneOf(o) \in Values
         /\ \A o \in countedOps : opMap[o] \in Nat
<1>1. \A o \in Events : kind(o) \in AsyncKinds /\ o \in Ops
  BY DEF Events, AsyncKinds
<1>2. \A o \in Events : doneOf(o) \in Values
  BY <1>1, SignalFacts
<1>3. countedOps = graphOf.events \cup graphOf.controls \cup graphOf.awaits
  BY GraphFields DEF countedOps, Events, AsyncKinds
<1> QED
  BY <1>1, <1>2, <1>3 DEF countedOps, Events, AsyncKinds, TypeOK, CountTypeOK

(* What InTurn asks for, in the terms of the simulator.                     *)
LEMMA TurnFrom ==
  ASSUME TypeOK, NEW o \in countedOps, NEW B, B = bodyOf(P, o),
         B = 0 \/ (B \in Events /\ begunOf(B) > valueMap[doneOf(B)]),
         issuedOf(o) < (IF B = 0 THEN 1 ELSE begunOf(B)) * (runs(blockOf(o)) \div runs(B)),
         \A p \in countedOps : blockOf(p) = blockOf(o) =>
           issuedOf(p) = issuedOf(o) + IF p < o THEN 1 ELSE 0
  PROVE  Abstract!InTurn(o)
<1>1. /\ graphOf.body[o] = B
      /\ graphOf.perBody[o] = runs(blockOf(o)) \div runs(B)
      /\ \A p \in countedOps : graphOf.block[p] = blockOf(p)
      /\ B # 0 => graphOf.signal[B] = doneOf(B)
  BY GraphFields, CountedFacts DEF runs
<1>2. B # 0 => B \in countedOps
  BY CountedFacts
<1>3. Abstract!Ops = countedOps
  BY CountedFacts DEF Abstract!Ops, Abstract!Events, Abstract!Controls, Abstract!Awaits, graphOf
<1>4. B = Host \/ Abstract!running(B)
  BY <1>1, <1>2 DEF Abstract!running, graphOf, Host
<1>5. issuedBy[o] < Abstract!entered(B) * graphOf.perBody[o]
  BY <1>1, <1>2 DEF Abstract!entered, issuedBy, issuedOf, Host
<1>6. \A p \in countedOps : graphOf.block[p] = graphOf.block[o] =>
         issuedBy[p] = issuedBy[o] + IF p < o THEN 1 ELSE 0
  BY <1>1 DEF issuedBy, issuedOf
<1> QED
  BY <1>1, <1>3, <1>4, <1>5, <1>6 DEF Abstract!InTurn, graphOf, issuedBy

(* ... and Ready: the simulator does not wait for the signals.              *)
LEMMA ReadyFrom ==
  ASSUME EventInv, NEW o \in countedOps, ~ waits(o), begunOf(o) = opMap[o]
  PROVE  Abstract!Ready(o)
<1>1. TypeOK /\ OwnSignals /\ o \in Ops
  BY CountedFacts DEF EventInv
<1>2. SignalsSeen(o, opMap[o] + 1)
  BY <1>1, NotWaiting
<1>3. SUFFICES ASSUME NEW s \in graphOf.needs[o]
      PROVE  (begunOf(o) + 1) * graphOf.signalRuns[s] <= graphOf.runs[o] * valueMap[s]
  BY DEF Abstract!Ready, graphOf, begunBy
<1>4. /\ \E v \in waitOperands(o) : valueId(v) = s
      /\ P.iterInitValue[s] = NoValue /\ P.blockExs[blockOf(o)] % P.defExs[s] = 0
  BY GraphNeeds
<1>5. s \in Values
  <2>1. ProgramTypeOK(P)
    BY <1>1, ProgramFacts DEF TypeOK, ControlTypeOK
  <2>2. P.valueIds \in [Values -> Values] /\ P.ins[o] \in Seq(Values)
    BY <1>1, <2>1 DEF ProgramTypeOK, Values, Ops
  <2>3. waitOperands(o) \subseteq Values
    <3>1. CASE kind(o) = "launch"
      <4>1. Len(P.ins[o]) = Len(P.args[o]) + 1 /\ P.args[o] \in Seq(Values)
        <5>1. RegionTypeOK(P)
          BY <1>1, RegionAssumption DEF TypeOK, ControlTypeOK, P
        <5> QED
          BY <1>1, <2>1, <3>1, <5>1 DEF RegionTypeOK, ProgramTypeOK, Ops, kind, Values
      <4>2. P.ins[o][1] \in Values
        BY <2>2, <4>1, LenProperties, ElementOfSeq
      <4> QED
        BY <3>1, <4>2 DEF waitOperands
    <3>2. CASE kind(o) # "launch"
      BY <2>2, <3>2, LenProperties, ElementOfSeq DEF waitOperands
    <3> QED
      BY <3>1, <3>2
  <2> QED
    BY <1>4, <2>2, <2>3 DEF valueId
<1>6. (opMap[o] + 1) * P.defExs[s] <= P.blockExs[blockOf(o)] * valueMap[s]
  BY <1>2, <1>4, <1>5 DEF SignalsSeen, DependsOn
<1>7. graphOf.signalRuns[s] = P.defExs[s] /\ graphOf.runs[o] = P.blockExs[blockOf(o)]
  BY <1>1, GraphFields
<1> QED
  BY <1>6, <1>7

(* The steps of EventSemantics, in the terms of the simulator.              *)
once_more(f, o) == [f EXCEPT ![o] = @ + 1]

sameGraph == graphOf' = graphOf /\ queues' = queues

LEMMA AbstractCreate ==
  ASSUME TypeOK, NEW d \in Launchers \ {Host}, d \notin Existing, Existing' = Existing \cup {d},
         sameGraph, issuedBy' = issuedBy, begunBy' = begunBy, valueMap' = valueMap
  PROVE  Abstract!Next
<1>1. d \in graphOf.devices
  BY GraphFields
<1>2. Abstract!Create(d)
  BY DEF Abstract!Create, graphOf, issuedBy, begunBy, queues, sameGraph
<1> QED
  BY <1>1, <1>2 DEF Abstract!Next, graphOf

LEMMA AbstractIssue ==
  ASSUME TypeOK, NEW o \in Events, Abstract!InTurn(o), P.target[o] \in Existing,
         Len(eventQueue[P.target[o]]) < EventQueueSize, P.target[o] \in Launchers \ {Host},
         graphOf' = graphOf, Existing' = Existing, valueMap' = valueMap, begunBy' = begunBy,
         issuedBy' = once_more(issuedBy, o),
         queues' = [queues EXCEPT ![P.target[o]] = Append(@, o)]
  PROVE  Abstract!Next
<1>1. o \in graphOf.events /\ graphOf.device[o] = P.target[o] /\ o \in Abstract!Ops
  BY GraphFields DEF Abstract!Ops, Abstract!Events, graphOf
<1>2. queues[P.target[o]] = eventQueue[P.target[o]]
  BY DEF queues
<1>3. Abstract!Issue(o)
  BY <1>1, <1>2 DEF Abstract!Issue, graphOf, issuedBy, begunBy, queues, Abstract!Events,
                    Abstract!Count, once_more
<1> QED
  BY <1>1, <1>3 DEF Abstract!Next

(* The two modules count with the same operator.                            *)
LEMMA SameCardinality == \A S : Abstract!Cardinality(S) = Cardinality(S)
BY DEF Cardinality, Abstract!Cardinality, IsFiniteSet, Abstract!IsFiniteSet

LEMMA AbstractSkip ==
  ASSUME TypeOK, NEW o \in Events, Abstract!InTurn(o), P.target[o] \notin Existing,
         sameGraph, Existing' = Existing, updateExecution(P.results[o]),
         issuedBy' = once_more(issuedBy, o), begunBy' = once_more(begunBy, o)
  PROVE  Abstract!Next
<1>1. /\ o \in graphOf.events /\ graphOf.device[o] = P.target[o] /\ o \in Abstract!Ops
      /\ graphOf.results[o] = [i \in DOMAIN P.results[o] |-> valueId(P.results[o][i])]
  BY GraphFields DEF Abstract!Ops, Abstract!Events, graphOf
<1>2. \A v : generatedBy(P.results[o], v)
               = Cardinality({ i \in DOMAIN graphOf.results[o] : graphOf.results[o][i] = v })
  <2> SUFFICES ASSUME NEW v
               PROVE  { i \in DOMAIN P.results[o] : valueId(P.results[o][i]) = v }
                        = { i \in DOMAIN graphOf.results[o] : graphOf.results[o][i] = v }
    BY DEF generatedBy
  <2> QED
    BY <1>1
<1>3. DOMAIN valueMap = Values
  BY DEF TypeOK, CountTypeOK
<1>4. valueMap' = [s \in DOMAIN valueMap |-> valueMap[s] +
         Abstract!Cardinality({ i \in DOMAIN graphOf.results[o] : graphOf.results[o][i] = s })]
  BY <1>2, <1>3, SameCardinality DEF updateExecution
<1>5. o \in Abstract!Events /\ graphOf.device[o] \notin Existing
  BY <1>1 DEF Abstract!Events, graphOf
<1>6. /\ issuedBy' = Abstract!Count(issuedBy, o) /\ begunBy' = Abstract!Count(begunBy, o)
      /\ UNCHANGED <<graphOf, Existing, queues>>
  BY DEF Abstract!Count, once_more, sameGraph
<1>7. Abstract!Skip(o)
  BY <1>4, <1>5, <1>6 DEF Abstract!Skip, graphOf, issuedBy, begunBy, queues
<1> QED
  BY <1>1, <1>7 DEF Abstract!Next

LEMMA AbstractIssueControl ==
  ASSUME TypeOK, NEW o \in Ops, kind(o) \in ControlKinds, Abstract!InTurn(o),
         sameGraph, Existing' = Existing, valueMap' = valueMap,
         issuedBy' = once_more(issuedBy, o), begunBy' = begunBy
  PROVE  Abstract!Next
<1>1. o \in graphOf.controls /\ o \in Abstract!Ops
  BY GraphFields DEF Abstract!Ops, Abstract!Controls, graphOf
<1>2. Abstract!IssueControl(o)
  BY <1>1 DEF Abstract!IssueControl, graphOf, issuedBy, begunBy, queues, Abstract!Controls,
              Abstract!Count, once_more, sameGraph
<1> QED
  BY <1>1, <1>2 DEF Abstract!Next

LEMMA AbstractBegin ==
  ASSUME TypeOK, NEW l \in Launchers \ {Host}, eventQueue[l] # <<>>,
         Head(eventQueue[l]) \in Events, Abstract!Ready(Head(eventQueue[l])),
         \A o \in Events : P.target[o] = l => ~ (begunOf(o) > valueMap[doneOf(o)]),
         graphOf' = graphOf, Existing' = Existing, valueMap' = valueMap, issuedBy' = issuedBy,
         begunBy' = once_more(begunBy, Head(eventQueue[l])),
         queues' = [queues EXCEPT ![l] = Tail(@)]
  PROVE  Abstract!Next
<1>1. l \in graphOf.devices
  BY GraphFields
<1>2. queues[l] = eventQueue[l]
  BY DEF queues
<1>3. /\ Abstract!Events = Events /\ \A o \in Events : graphOf.device[o] = P.target[o]
      /\ \A o \in Events : graphOf.signal[o] = doneOf(o)
  BY GraphFields, CountedFacts DEF Abstract!Events, graphOf
<1>4. \A o \in Events : begunBy[o] = begunOf(o)
  BY CountedFacts DEF begunBy
<1>5. \A o \in Abstract!Events : graphOf.device[o] = l => ~ Abstract!running(o)
  BY <1>3, <1>4 DEF Abstract!running, graphOf, begunBy
<1>6. Abstract!Begin(l)
  BY <1>2, <1>5 DEF Abstract!Begin, graphOf, issuedBy, begunBy, queues,
                    Abstract!Count, once_more
<1> QED
  BY <1>1, <1>6 DEF Abstract!Next, graphOf

LEMMA AbstractEnd ==
  ASSUME TypeOK, NEW o \in Events, begunOf(o) > valueMap[doneOf(o)],
         \A p \in countedOps : bodyOf(P, p) = o =>
           issuedOf(p) = begunOf(o) * (runs(blockOf(p)) \div runs(o)),
         sameGraph, Existing' = Existing, issuedBy' = issuedBy, begunBy' = begunBy,
         valueMap' = once_more(valueMap, doneOf(o))
  PROVE  Abstract!Next
<1>1. o \in graphOf.events /\ o \in Abstract!Ops /\ graphOf.signal[o] = doneOf(o)
  BY GraphFields, CountedFacts DEF Abstract!Ops, Abstract!Events, graphOf
<1>2. Abstract!Ops = countedOps
  BY CountedFacts DEF Abstract!Ops, Abstract!Events, Abstract!Controls, Abstract!Awaits, graphOf
<1>3. begunBy[o] = begunOf(o)
  BY CountedFacts DEF begunBy
<1>4. Abstract!running(o)
  BY <1>1, <1>3 DEF Abstract!running, graphOf, begunBy
<1>5. \A p \in Abstract!Ops : graphOf.body[p] = o => issuedBy[p] = begunBy[o] * graphOf.perBody[p]
  <2> SUFFICES ASSUME NEW p \in countedOps, graphOf.body[p] = o
               PROVE  issuedBy[p] = begunBy[o] * graphOf.perBody[p]
    BY <1>2
  <2>1. bodyOf(P, p) = o /\ graphOf.perBody[p] = runs(blockOf(p)) \div runs(o)
    BY GraphFields DEF runs
  <2> QED
    BY <1>3, <2>1 DEF issuedBy, issuedOf
<1>6. Abstract!End(o)
  BY <1>1, <1>4, <1>5 DEF Abstract!End, graphOf, issuedBy, begunBy, queues, Abstract!Events,
                    Abstract!Count, once_more, sameGraph
<1> QED
  BY <1>1, <1>6 DEF Abstract!Next

LEMMA AbstractFire ==
  ASSUME TypeOK, NEW o \in Ops, kind(o) \in ControlKinds, begunOf(o) < issuedOf(o),
         Abstract!Ready(o), sameGraph, Existing' = Existing, issuedBy' = issuedBy,
         begunBy' = once_more(begunBy, o), valueMap' = once_more(valueMap, doneOf(o))
  PROVE  Abstract!Next
<1>1. o \in graphOf.controls /\ o \in Abstract!Ops /\ graphOf.signal[o] = doneOf(o)
  BY GraphFields DEF Abstract!Ops, Abstract!Controls, graphOf, AsyncKinds
<1>2. begunBy[o] = begunOf(o) /\ issuedBy[o] = issuedOf(o)
  BY CountedFacts DEF begunBy, issuedBy, issuedOf
<1>3. Abstract!Fire(o)
  BY <1>1, <1>2 DEF Abstract!Fire, graphOf, issuedBy, begunBy, queues, Abstract!Controls,
                    Abstract!Count, once_more, sameGraph
<1> QED
  BY <1>1, <1>3 DEF Abstract!Next

LEMMA AbstractPass ==
  ASSUME TypeOK, NEW o \in Ops, kind(o) = "await", Abstract!InTurn(o), Abstract!Ready(o),
         sameGraph, Existing' = Existing, valueMap' = valueMap,
         issuedBy' = once_more(issuedBy, o), begunBy' = once_more(begunBy, o)
  PROVE  Abstract!Next
<1>1. o \in graphOf.awaits /\ o \in Abstract!Ops
  BY GraphFields DEF Abstract!Ops, Abstract!Awaits, graphOf
<1>2. Abstract!Pass(o)
  BY <1>1 DEF Abstract!Pass, graphOf, issuedBy, begunBy, queues, Abstract!Awaits,
              Abstract!Count, once_more, sameGraph
<1> QED
  BY <1>1, <1>2 DEF Abstract!Next

-----------------------------------------------------------------------------
(***************************************************************************)
(* What each step of the simulator issues and begins.                      *)
(***************************************************************************)
sameBegun     == \A x \in countedOps : begunOf(x)' = begunOf(x)
moreBegun(o)  == \A x \in countedOps : begunOf(x)' = begunOf(x) + once(x = o)
sameIssued    == \A x \in countedOps : issuedOf(x)' = issuedOf(x)
moreIssued(o) == \A x \in countedOps : issuedOf(x)' = issuedOf(x) + once(x = o)

queueOf(x) ==
  IF kind(x) \in ControlKinds THEN controlQueue
  ELSE IF kind(x) \in EventKinds /\ P.target[x] \in Launchers THEN eventQueue[P.target[x]]
  ELSE <<>>

LEMMA QueuedIs ==
  ASSUME TypeOK, NEW x \in Ops
  PROVE  queueOf(x) \in Seq(Ops) /\ queued(x) = times(queueOf(x), x) /\ queued(x) \in Nat
<1>1. queueOf(x) \in Seq(Ops)
  <2>1. <<>> \in Seq(Ops)
    BY EmptySeq
  <2> QED
    BY <2>1 DEF queueOf, TypeOK, QueueTypeOK
<1>2. queued(x) = times(queueOf(x), x)
  BY DEF queued, queueOf, times, places
<1> QED
  BY <1>1, <1>2, TimesType

LEMMA QueuedAfter ==
  ASSUME TypeOK', NEW x \in Ops'
  PROVE  /\ queueOf(x)' \in Seq(Ops') /\ queued(x)' = times(queueOf(x)', x)
         /\ queued(x)' \in Nat
<1>1. queueOf(x)' \in Seq(Ops')
  <2>1. <<>> \in Seq(Ops')
    BY EmptySeq
  <2> QED
    BY <2>1 DEF queueOf, TypeOK, QueueTypeOK
<1>2. queued(x)' = times(queueOf(x)', x)
  BY DEF queued, queueOf, times, places
<1> HIDE DEF queueOf
<1>3. \A q \in Seq(Ops') : times(q, x) \in Nat
  BY TimesType
<1> QED
  BY <1>1, <1>2, <1>3

LEMMA CountsType ==
  ASSUME TypeOK, NEW x \in Ops
  PROVE  begunOf(x) \in Nat /\ issuedOf(x) \in Nat /\ begunOf(x) = opMap[x] + once(acquired(x))
<1>1. opMap[x] \in Nat
  BY DEF TypeOK, CountTypeOK
<1>2. queued(x) \in Nat
  BY QueuedIs
<1> QED
  BY <1>1, <1>2 DEF begunOf, issuedOf, once

LEMMA CountsPrimed ==
  ASSUME TypeOK, prog' = prog, NEW o
  PROVE  /\ sameBegun => begunBy' = begunBy
         /\ moreBegun(o) => begunBy' = once_more(begunBy, o)
         /\ sameIssued => issuedBy' = issuedBy
         /\ moreIssued(o) => issuedBy' = once_more(issuedBy, o)
<1>1. countedOps' = countedOps
  BY Rigid DEF countedOps, kind
<1>2. \A x \in countedOps : begunOf(x) \in Nat /\ issuedOf(x) \in Nat
  BY CountedFacts, CountsType
<1>3. /\ begunBy' = [x \in countedOps |-> begunOf(x)']
      /\ issuedBy' = [x \in countedOps |-> issuedOf(x)']
  BY <1>1 DEF begunBy, issuedBy, issuedOf
<1>4. /\ begunBy = [x \in countedOps |-> begunOf(x)]
      /\ issuedBy = [x \in countedOps |-> issuedOf(x)]
  BY DEF begunBy, issuedBy, issuedOf
<1>5. sameBegun => begunBy' = begunBy
  BY <1>3, <1>4 DEF sameBegun
<1>6. sameIssued => issuedBy' = issuedBy
  BY <1>3, <1>4 DEF sameIssued
<1>7. moreBegun(o) => begunBy' = once_more(begunBy, o)
  <2> SUFFICES ASSUME moreBegun(o) PROVE begunBy' = once_more(begunBy, o)
    OBVIOUS
  <2>1. \A x \in countedOps : begunOf(x)' = IF x = o THEN begunOf(x) + 1 ELSE begunOf(x)
    BY <1>2 DEF moreBegun, once
  <2> QED
    BY <1>3, <1>4, <2>1 DEF once_more
<1>8. moreIssued(o) => issuedBy' = once_more(issuedBy, o)
  <2> SUFFICES ASSUME moreIssued(o) PROVE issuedBy' = once_more(issuedBy, o)
    OBVIOUS
  <2>1. \A x \in countedOps : issuedOf(x)' = IF x = o THEN issuedOf(x) + 1 ELSE issuedOf(x)
    BY <1>2 DEF moreIssued, once
  <2> QED
    BY <1>3, <1>4, <2>1 DEF once_more
<1> QED
  BY <1>5, <1>6, <1>7, <1>8

LEMMA GraphSame ==
  ASSUME prog' = prog
  PROVE  graphOf' = graphOf
BY DEF graphOf

LEMMA QueuesSame ==
  ASSUME prog' = prog, eventQueue' = eventQueue
  PROVE  sameGraph
BY Rigid, GraphSame DEF sameGraph, queues

LEMMA BegunSame ==
  ASSUME prog' = prog, UNCHANGED <<opMap, opEntry, startTime, endTime>>
  PROVE  \A x : begunOf(x)' = begunOf(x)
BY Rigid DEF begunOf, acquired, kind, is_started

LEMMA QueuedSame ==
  ASSUME prog' = prog, UNCHANGED <<eventQueue, controlQueue>>
  PROVE  \A x : queued(x)' = queued(x)
BY Rigid DEF queued, kind

LEMMA CountsSame ==
  ASSUME prog' = prog,
         UNCHANGED <<opMap, opEntry, startTime, endTime, eventQueue, controlQueue>>
  PROVE  sameBegun /\ sameIssued
BY BegunSame, QueuedSame DEF sameBegun, sameIssued, issuedOf

LEMMA PushControlCounts ==
  ASSUME TypeOK, TypeOK', NEW o \in Ops, PushControl(o)
  PROVE  sameBegun /\ moreIssued(o)
<1>1. /\ prog' = prog /\ eventQueue' = eventQueue /\ kind(o) \in ControlKinds
      /\ UNCHANGED <<opMap, opEntry, startTime, endTime>>
      /\ controlQueue' = Append(controlQueue, o)
  BY DEF PushControl, nothingElse, counts
<1>2. \A x : begunOf(x)' = begunOf(x)
  BY <1>1, BegunSame
<1>3. ASSUME NEW x \in countedOps
      PROVE  queued(x)' = queued(x) + once(x = o) /\ queued(x) \in Nat /\ begunOf(x) \in Nat
  <2>1. x \in Ops /\ x \in Ops' /\ queued(x) \in Nat /\ begunOf(x) \in Nat
    BY <1>1, CountedFacts, Rigid, QueuedIs, CountsType
  <2>2. queued(x) = times(queueOf(x), x) /\ queued(x)' = times(queueOf(x)', x)
    <3>1. queued(x) = times(queueOf(x), x)
      BY <2>1, QueuedIs
    <3>2. queued(x)' = times(queueOf(x)', x)
      BY <2>1, QueuedAfter
    <3> QED
      BY <3>1, <3>2
  <2>3. CASE kind(x) \in ControlKinds
    <3>1. queueOf(x) = controlQueue /\ queueOf(x)' = Append(controlQueue, o)
      BY <1>1, <2>3, Rigid DEF queueOf, kind
    <3>2. controlQueue \in Seq(Ops)
      BY DEF TypeOK, QueueTypeOK
    <3>3. times(Append(controlQueue, o), x) = times(controlQueue, x) + once(x = o)
      BY <3>2, TimesAppend
    <3> QED
      BY <2>1, <2>2, <3>1, <3>3
  <2>4. CASE kind(x) \notin ControlKinds
    <3>1. queueOf(x)' = queueOf(x) /\ x # o
      BY <1>1, <2>4, Rigid DEF queueOf, kind
    <3> QED
      BY <2>1, <2>2, <3>1 DEF once
  <2> QED
    BY <2>1, <2>3, <2>4
<1> QED
  BY <1>2, <1>3, OneOrNone DEF sameBegun, moreIssued, issuedOf

LEMMA PushEventCounts ==
  ASSUME TypeOK, TypeOK', NEW o \in Ops, PushEvent(o)
  PROVE  sameBegun /\ moreIssued(o)
<1>1. /\ prog' = prog /\ controlQueue' = controlQueue /\ kind(o) \in EventKinds
      /\ UNCHANGED <<opMap, opEntry, startTime, endTime>>
      /\ eventQueue' = [eventQueue EXCEPT ![P.target[o]] = Append(@, o)]
      /\ P.target[o] \in Existing
  BY DEF PushEvent, nothingElse, counts, push
<1>2. P.target[o] \in Launchers /\ eventQueue \in [Launchers -> Seq(Ops)]
  BY <1>1, ExistingType DEF TypeOK, QueueTypeOK
<1>3. \A x : begunOf(x)' = begunOf(x)
  BY <1>1, BegunSame
<1>4. ASSUME NEW x \in countedOps
      PROVE  queued(x)' = queued(x) + once(x = o) /\ queued(x) \in Nat /\ begunOf(x) \in Nat
  <2>1. x \in Ops /\ x \in Ops' /\ queued(x) \in Nat /\ begunOf(x) \in Nat
    BY <1>1, CountedFacts, Rigid, QueuedIs, CountsType
  <2>2. queued(x) = times(queueOf(x), x) /\ queued(x)' = times(queueOf(x)', x)
    <3>1. queued(x) = times(queueOf(x), x)
      BY <2>1, QueuedIs
    <3>2. queued(x)' = times(queueOf(x)', x)
      BY <2>1, QueuedAfter
    <3> QED
      BY <3>1, <3>2
  <2>3. CASE kind(x) \in EventKinds /\ P.target[x] = P.target[o]
    <3>1. kind(x) \notin ControlKinds
      BY <2>3 DEF ControlKinds, EventKinds
    <3>2. PICK q \in Seq(Ops) : q = eventQueue[P.target[o]]
      BY <1>2
    <3>3. queueOf(x) = q /\ queueOf(x)' = Append(q, o)
      BY <1>1, <1>2, <2>3, <3>1, <3>2, Rigid DEF queueOf, kind
    <3>4. times(Append(q, o), x) = times(q, x) + once(x = o)
      BY TimesAppend
    <3> QED
      BY <2>1, <2>2, <3>3, <3>4
  <2>4. CASE ~ (kind(x) \in EventKinds /\ P.target[x] = P.target[o])
    <3>1. queueOf(x)' = queueOf(x) /\ x # o
      BY <1>1, <1>2, <2>4, Rigid DEF queueOf, kind
    <3> QED
      BY <2>1, <2>2, <3>1 DEF once
  <2> QED
    BY <2>1, <2>3, <2>4
<1> QED
  BY <1>3, <1>4, OneOrNone DEF sameBegun, moreIssued, issuedOf

LEMMA SkipCounts ==
  ASSUME TypeOK, NEW o \in Ops, SkipMissingLauncher(o)
  PROVE  moreBegun(o) /\ moreIssued(o)
<1>1. /\ prog' = prog /\ UNCHANGED <<opEntry, startTime, endTime, eventQueue, controlQueue>>
      /\ opMap' = [opMap EXCEPT ![o] = @ + 1]
  BY DEF SkipMissingLauncher, nothingElse
<1>2. \A x : queued(x)' = queued(x)
  BY <1>1, QueuedSame
<1>3. \A x : acquired(x)' = acquired(x)
  BY <1>1, Rigid DEF acquired, kind, is_started
<1>4. ASSUME NEW x \in countedOps
      PROVE  /\ begunOf(x)' = begunOf(x) + once(x = o)
             /\ begunOf(x) \in Nat /\ queued(x) \in Nat
  <2>1. x \in Ops /\ opMap \in [Ops -> Nat]
    BY CountedFacts DEF TypeOK, CountTypeOK
  <2>2. opMap'[x] = opMap[x] + once(x = o)
    BY <1>1, <2>1 DEF once
  <2>3. begunOf(x) \in Nat /\ queued(x) \in Nat
    BY <2>1, QueuedIs, CountsType
  <2> QED
    BY <1>3, <2>1, <2>2, <2>3, OneOrNone DEF begunOf
<1> QED
  BY <1>2, <1>4, OneOrNone DEF moreBegun, moreIssued, issuedOf

LEMMA LoadOpCounts ==
  ASSUME TypeOK, NEW o \in Ops, LoadOp(o)
  PROVE  sameBegun /\ sameIssued
<1>1. /\ prog' = prog /\ UNCHANGED <<opMap, eventQueue, controlQueue>>
      /\ opEntry' = [opEntry EXCEPT ![Current] = o] /\ opEntry[Current] = 0
      /\ startTime' = [startTime EXCEPT ![Current] = 0]
      /\ endTime' = [endTime EXCEPT ![Current] = 0]
      /\ kind(o) \notin AsyncKinds
  BY DEF LoadOp, SetOpEntry, nothingElse, counts, is_idle
<1>2. /\ opEntry \in [Launchers -> Ops \cup {0}] /\ startTime \in [Launchers -> Nat]
      /\ endTime \in [Launchers -> Nat] /\ 0 \notin Ops
  BY BlockFacts DEF TypeOK, LauncherTypeOK
<1>3. \A x : queued(x)' = queued(x)
  BY <1>1, QueuedSame
<1>4. ASSUME NEW x \in Ops
      PROVE  acquired(x)' <=> acquired(x)
  <2>1. CASE kind(x) \in EventKinds
    <3>1. x # o /\ x # 0
      BY <1>1, <1>2, <2>1 DEF AsyncKinds
    <3>2. \A m \in Launchers : (opEntry'[m] = x /\ ~ is_started(m)')
                                 <=> (opEntry[m] = x /\ ~ is_started(m))
      BY <1>1, <1>2, <3>1 DEF is_started
    <3> QED
      BY <1>1, <3>2, Rigid DEF acquired, kind
  <2>2. CASE kind(x) \notin EventKinds
    BY <1>1, <2>2, Rigid DEF acquired, kind
  <2> QED
    BY <2>1, <2>2
<1>5. \A x \in Ops : begunOf(x)' = begunOf(x)
  BY <1>1, <1>4 DEF begunOf
<1> QED
  BY <1>3, <1>5, CountedFacts DEF sameBegun, sameIssued, issuedOf

(* An event is only on its own device.                                      *)
LEMMA OnOwnDevice ==
  ASSUME EventInv, NEW x \in Events, NEW l \in Launchers, opEntry[l] = x
  PROVE  P.target[x] = l /\ l \in Existing
<1>1. x # 0 /\ kind(x) \in EventKinds
  BY BlockFacts DEF Events, EventInv
<1> QED
  BY <1>1 DEF EventInv, Routed

LEMMA TakeEventCounts ==
  ASSUME EventInv, TypeOK', NEW l \in Launchers, TakeEvent(l)
  PROVE  /\ moreBegun(Head(eventQueue[l])) /\ sameIssued
         /\ ~ acquired(Head(eventQueue[l]))
<1>1. PICK o : o = Head(eventQueue[l])
  OBVIOUS
<1>2. /\ prog' = prog /\ UNCHANGED <<opMap, controlQueue>> /\ opEntry[l] = 0
      /\ opEntry' = [opEntry EXCEPT ![l] = o] /\ startTime' = [startTime EXCEPT ![l] = 0]
      /\ endTime' = [endTime EXCEPT ![l] = 0]
      /\ eventQueue' = [eventQueue EXCEPT ![l] = Tail(@)] /\ eventQueue[l] # <<>>
  BY <1>1 DEF TakeEvent, headReady, is_idle, counts
<1>3. /\ opEntry \in [Launchers -> Ops \cup {0}] /\ startTime \in [Launchers -> Nat]
      /\ endTime \in [Launchers -> Nat] /\ eventQueue \in [Launchers -> Seq(Ops)]
      /\ 0 \notin Ops /\ TypeOK
  BY BlockFacts DEF EventInv, TypeOK, LauncherTypeOK, QueueTypeOK
<1>4. o \in Ops /\ kind(o) \in EventKinds /\ P.target[o] = l /\ o \in Events
  BY <1>1, TakenFact DEF Events
<1>5. ~ acquired(o)
  <2>1. \A m \in Launchers : opEntry[m] = o => m = l
    BY <1>4, OnOwnDevice
  <2> QED
    BY <1>2, <1>3, <1>4, <2>1 DEF acquired
<1>6. acquired(o)'
  <2>1. opEntry'[l] = o /\ ~ is_started(l)' /\ l \in Launchers' /\ kind(o)' = kind(o)
    BY <1>2, <1>3, Rigid DEF is_started, kind
  <2> QED
    BY <1>4, <2>1 DEF acquired
<1>7. ASSUME NEW x \in Ops, x # o
      PROVE  acquired(x)' <=> acquired(x)
  <2>1. \A m \in Launchers : (opEntry'[m] = x /\ ~ is_started(m)')
                                <=> (opEntry[m] = x /\ ~ is_started(m))
    BY <1>2, <1>3, <1>7 DEF is_started
  <2> QED
    BY <1>2, <2>1, Rigid DEF acquired, kind
<1>8. ASSUME NEW x \in countedOps
      PROVE  begunOf(x)' = begunOf(x) + once(x = o) /\ begunOf(x) \in Nat
  <2>1. x \in Ops /\ opMap[x] \in Nat
    BY <1>3, CountedFacts
  <2> QED
    BY <1>2, <1>5, <1>6, <1>7, <2>1 DEF begunOf, once
<1>9. ASSUME NEW x \in countedOps
      PROVE  queued(x) = queued(x)' + once(x = o) /\ queued(x)' \in Nat
  <2>1. x \in Ops /\ x \in Ops'
    BY <1>2, <1>3, CountedFacts, Rigid
  <2>2. queued(x) = times(queueOf(x), x) /\ queued(x)' = times(queueOf(x)', x)
        /\ queued(x) \in Nat /\ queued(x)' \in Nat
    <3>1. queued(x) = times(queueOf(x), x) /\ queued(x) \in Nat
      BY <1>3, <2>1, QueuedIs
    <3>2. queued(x)' = times(queueOf(x)', x) /\ queued(x)' \in Nat
      BY <2>1, QueuedAfter
    <3> QED
      BY <3>1, <3>2
  <2>3. CASE kind(x) \in EventKinds /\ P.target[x] = l
    <3>1. kind(x) \notin ControlKinds
      BY <2>3 DEF ControlKinds, EventKinds
    <3>2. PICK q \in Seq(Ops) : q = eventQueue[l]
      BY <1>3
    <3>3. queueOf(x) = q /\ queueOf(x)' = Tail(q)
      BY <1>2, <1>3, <2>3, <3>1, <3>2, Rigid DEF queueOf, kind
    <3>4. times(q, x) = times(Tail(q), x) + once(x = Head(q))
      BY <1>2, <3>2, TimesTail
    <3> QED
      BY <1>1, <2>2, <3>2, <3>3, <3>4
  <2>4. CASE ~ (kind(x) \in EventKinds /\ P.target[x] = l)
    <3>1. queueOf(x)' = queueOf(x) /\ x # o
      BY <1>2, <1>3, <1>4, <2>4, Rigid DEF queueOf, kind
    <3> QED
      BY <2>2, <3>1 DEF once
  <2> QED
    BY <2>3, <2>4
<1>10. sameIssued
  BY <1>8, <1>9, OneOrNone DEF sameIssued, issuedOf
<1> QED
  BY <1>1, <1>5, <1>8, <1>10 DEF moreBegun

LEMMA FireControlCounts ==
  ASSUME EventInv, TypeOK', NEW i \in DOMAIN controlQueue, FireControl(i)
  PROVE  LET o == controlQueue[i]
         IN  /\ moreBegun(o) /\ sameIssued
             /\ o \in Ops /\ kind(o) \in ControlKinds /\ begunOf(o) = opMap[o]
             /\ begunOf(o) < issuedOf(o)
<1>1. PICK o : o = controlQueue[i]
  OBVIOUS
<1>2. /\ prog' = prog /\ UNCHANGED <<opEntry, startTime, endTime, eventQueue>>
      /\ opMap' = [opMap EXCEPT ![o] = @ + 1]
      /\ controlQueue' = [j \in 1 .. Len(controlQueue) - 1 |->
                            IF j < i THEN controlQueue[j] ELSE controlQueue[j + 1]]
  BY <1>1 DEF FireControl, launcher
<1>3. TypeOK /\ controlQueue \in Seq(Ops) /\ opMap \in [Ops -> Nat]
  BY DEF EventInv, TypeOK, QueueTypeOK, CountTypeOK
<1>4. o \in Ops /\ kind(o) \in ControlKinds /\ o \in countedOps
  <2>1. o \in Ops
    BY <1>1, <1>3, LenProperties, ElementOfSeq
  <2> QED
    BY <1>1, <1>3, <2>1, CountedFacts DEF EventInv, Routed
<1>5. \A x : acquired(x)' = acquired(x)
  BY <1>2, Rigid DEF acquired, kind, is_started
<1>6. ASSUME NEW x \in countedOps
      PROVE  begunOf(x)' = begunOf(x) + once(x = o) /\ begunOf(x) \in Nat
  <2>1. x \in Ops
    BY <1>3, CountedFacts
  <2>2. opMap'[x] = opMap[x] + once(x = o)
    BY <1>2, <1>3, <2>1 DEF once
  <2> QED
    BY <1>3, <1>5, <2>1, <2>2, CountsType, OneOrNone DEF begunOf
<1>7. ASSUME NEW x \in countedOps
      PROVE  queued(x) = queued(x)' + once(x = o) /\ queued(x)' \in Nat
  <2>1. x \in Ops /\ x \in Ops'
    BY <1>2, <1>3, CountedFacts, Rigid
  <2>2. queued(x) = times(queueOf(x), x) /\ queued(x)' = times(queueOf(x)', x)
        /\ queued(x) \in Nat /\ queued(x)' \in Nat
    <3>1. queued(x) = times(queueOf(x), x) /\ queued(x) \in Nat
      BY <1>3, <2>1, QueuedIs
    <3>2. queued(x)' = times(queueOf(x)', x) /\ queued(x)' \in Nat
      BY <2>1, QueuedAfter
    <3> QED
      BY <3>1, <3>2
  <2>3. CASE kind(x) \in ControlKinds
    <3>1. queueOf(x) = controlQueue /\ queueOf(x)' = controlQueue'
      BY <1>2, <2>3, Rigid DEF queueOf, kind
    <3>2. times(controlQueue, x) = times(controlQueue', x) + once(x = o)
      BY <1>1, <1>2, <1>3, TimesRemove
    <3> QED
      BY <2>2, <3>1, <3>2
  <2>4. CASE kind(x) \notin ControlKinds
    <3>1. queueOf(x)' = queueOf(x) /\ x # o
      BY <1>2, <1>4, <2>4, Rigid DEF queueOf, kind
    <3> QED
      BY <2>2, <3>1 DEF once
  <2> QED
    BY <2>3, <2>4
<1>8. sameIssued
  BY <1>6, <1>7, OneOrNone DEF sameIssued, issuedOf
<1>9. begunOf(o) = opMap[o]
  BY <1>3, <1>4 DEF begunOf, acquired, ControlKinds, EventKinds
<1>10. begunOf(o) < issuedOf(o)
  <2>1. queued(o) = queued(o)' + 1 /\ queued(o)' \in Nat /\ begunOf(o) \in Nat
    BY <1>4, <1>6, <1>7 DEF once
  <2> QED
    BY <2>1 DEF issuedOf
<1> QED
  BY <1>1, <1>4, <1>6, <1>8, <1>9, <1>10 DEF moreBegun

LEMMA StartOpCounts ==
  ASSUME EventInv, NEW l \in Launchers, StartOp(l)
  PROVE  LET o == opEntry[l]
         IN  IF kind(o) = "await" THEN moreBegun(o) /\ moreIssued(o) /\ begunOf(o) = opMap[o]
             ELSE sameBegun /\ sameIssued
<1>1. TypeOK
  BY DEF EventInv
<1>2. PICK o : o = opEntry[l]
  OBVIOUS
<1>3. /\ prog' = prog /\ UNCHANGED <<opEntry, eventQueue, controlQueue>>
      /\ o \in Ops /\ ~ is_started(l)
      /\ startTime' = [startTime EXCEPT ![l] = time]
      /\ endTime' = [endTime EXCEPT ![l] = modelOp(o)]
      /\ opMap' = IF kind(o) \in EventKinds \cup {"await"}
                    THEN [opMap EXCEPT ![o] = @ + 1] ELSE opMap
  BY <1>1, <1>2, EntryType DEF StartOp, nothingElse, mayStart
<1>4. /\ startTime \in [Launchers -> Nat] /\ endTime \in [Launchers -> Nat]
      /\ time # 0 /\ modelOp(o) # 0 /\ opMap \in [Ops -> Nat]
  BY <1>1, <1>3, ModelOpType DEF TypeOK, LauncherTypeOK, ControlTypeOK, CountTypeOK
<1>5. is_started(l)' /\ \A m \in Launchers : m # l => (is_started(m)' <=> is_started(m))
  BY <1>3, <1>4 DEF is_started
<1>6. \A x \in Ops : x # o => (acquired(x)' <=> acquired(x))
  <2> SUFFICES ASSUME NEW x \in Ops, x # o PROVE acquired(x)' <=> acquired(x)
    OBVIOUS
  <2>1. \A m \in Launchers : (opEntry'[m] = x /\ ~ is_started(m)')
                                <=> (opEntry[m] = x /\ ~ is_started(m))
    BY <1>2, <1>3, <1>5
  <2> QED
    BY <1>3, <2>1, Rigid DEF acquired, kind
<1>7. \A x \in countedOps : x \in Ops /\ opMap[x] \in Nat /\ begunOf(x) \in Nat /\ queued(x) \in Nat
  BY <1>1, CountedFacts, CountsType, QueuedIs
<1>8. \A x : queued(x)' = queued(x)
  BY <1>3, QueuedSame
<1>9. CASE kind(o) = "await"
  <2>1. begunOf(o) = opMap[o] /\ begunOf(o)' = opMap'[o]
    BY <1>3, <1>4, <1>9, Rigid DEF begunOf, acquired, kind, EventKinds
  <2>2. \A x \in countedOps : begunOf(x)' = begunOf(x) + once(x = o)
    BY <1>3, <1>4, <1>6, <1>7, <1>9, <2>1 DEF begunOf, once
  <2> QED
    BY <1>2, <1>7, <1>8, <1>9, <2>1, <2>2, OneOrNone DEF moreBegun, moreIssued, issuedOf
<1>10. CASE kind(o) \in EventKinds
  <2>1. acquired(o) /\ ~ acquired(o)'
    <3>1. o \in Events
      BY <1>3, <1>10 DEF Events
    <3>2. \A m \in Launchers : opEntry[m] = o => m = l
      BY <1>2, <3>1, OnOwnDevice
    <3>3. acquired(o)
      BY <1>2, <1>3, <1>10 DEF acquired
    <3>4. ~ acquired(o)'
      BY <1>3, <1>5, <3>2, Rigid DEF acquired
    <3> QED
      BY <3>3, <3>4
  <2>2. sameBegun
    BY <1>3, <1>4, <1>6, <1>7, <1>10, <2>1 DEF begunOf, sameBegun
  <2>3. kind(o) # "await"
    BY <1>10 DEF EventKinds
  <2> QED
    BY <1>2, <1>8, <2>2, <2>3 DEF sameBegun, sameIssued, issuedOf
<1>11. CASE kind(o) \notin EventKinds \cup {"await"}
  <2>1. ~ acquired(o) /\ ~ acquired(o)'
    BY <1>3, <1>11, Rigid DEF acquired, kind
  <2>2. sameBegun
    BY <1>3, <1>6, <1>7, <1>11, <2>1 DEF begunOf, sameBegun
  <2> QED
    BY <1>2, <1>8, <1>11, <2>2 DEF sameBegun, sameIssued, issuedOf
<1> QED
  BY <1>9, <1>10, <1>11

LEMMA FinishOpCounts ==
  ASSUME TypeOK, NEW l \in Launchers, FinishOp(l)
  PROVE  sameBegun /\ sameIssued
<1>1. /\ prog' = prog /\ UNCHANGED <<opMap, eventQueue, controlQueue>> /\ is_started(l)
      /\ opEntry' = [opEntry EXCEPT ![l] = 0] /\ startTime' = [startTime EXCEPT ![l] = 0]
      /\ endTime' = [endTime EXCEPT ![l] = 0]
  BY DEF FinishOp, finishes
<1>2. /\ opEntry \in [Launchers -> Ops \cup {0}] /\ startTime \in [Launchers -> Nat]
      /\ endTime \in [Launchers -> Nat] /\ 0 \notin Ops
  BY BlockFacts DEF TypeOK, LauncherTypeOK
<1>3. \A x : queued(x)' = queued(x)
  BY <1>1, QueuedSame
<1>4. ASSUME NEW x \in Ops
      PROVE  acquired(x)' <=> acquired(x)
  <2>1. \A m \in Launchers : (opEntry'[m] = x /\ ~ is_started(m)')
                               <=> (opEntry[m] = x /\ ~ is_started(m))
    BY <1>1, <1>2 DEF is_started
  <2> QED
    BY <1>1, <2>1, Rigid DEF acquired, kind
<1>5. \A x \in Ops : begunOf(x)' = begunOf(x)
  BY <1>1, <1>4 DEF begunOf
<1> QED
  BY <1>3, <1>5, CountedFacts DEF sameBegun, sameIssued, issuedOf

-----------------------------------------------------------------------------
(***************************************************************************)
(* What a walk past operation o by launcher l does to the numbers: one     *)
(* walk of o more, one of the block that o ends, and the launcher may      *)
(* leave or enter a loop.                                                  *)
(***************************************************************************)
leaves(o, b) == kind(o) = "return" /\ b = blockOf(o)

isLaunch(b) == b \in Ops /\ kind(b) = "launch"

Moved(r, c, depth, at, r2, c2, depth2, at2, l, o) ==
  /\ WalksOnce(r, c, r2, c2, o)
  /\ Looping(r2, c2, depth2, at2)
  /\ r2[0] = r[0]
  /\ \A b \in Ops : kind(b) = "launch" =>
       /\ r2[b] = r[b] + once(leaves(o, b))
       /\ isIn(depth2, at2, b) <=> isIn(depth, at, b) /\ ~ leaves(o, b)
  /\ \A y \in Ops : kind(y) = "yield" => r2[blockOf(y)] = r[blockOf(y)] + once(y = o)
  /\ \A m \in Launchers : m # l => depth2[m] = depth[m] /\ at2[m] = at[m]
  /\ kind(o) \notin {"for", "yield", "return"} => depth2 = depth /\ at2 = at

LEMMA WalksKept ==
  ASSUME TypeOK, NEW r, NEW c, NEW r2, NEW c2, NEW o \in Ops, WalksOnce(r, c, r2, c2, o),
         r \in [Blocks -> Nat], c \in [Blocks -> Nat]
  PROVE  \A x \in Ops : x # o => walks(r2, c2, x) = walks(r, c, x)
<1>1. \A x \in Ops : walks(r, c, x) \in Nat
  BY WalksType
<1> HIDE DEF walks
<1> QED
  BY <1>1 DEF WalksOnce

LEMMA LoopSame ==
  ASSUME TypeOK, NEW r, NEW c, NEW depth, NEW at, NEW r2, NEW c2, NEW depth2, NEW at2,
         r \in [Blocks -> Nat], c \in [Blocks -> Nat],
         NEW o \in Ops, WalksOnce(r, c, r2, c2, o), NEW f \in Ops, f # o,
         LoopAt(r, c, depth, at, f), r2[f] = r[f],
         isIn(depth2, at2, f) <=> isIn(depth, at, f)
  PROVE  LoopAt(r2, c2, depth2, at2, f)
<1>1. walks(r2, c2, f) = walks(r, c, f)
  BY WalksType DEF WalksOnce
<1> QED
  BY <1>1 DEF LoopAt

(* A block is ended by one operation.                                       *)
LEMMA OneEnd ==
  ASSUME TypeOK, NEW y \in Ops, NEW o \in Ops, kind(y) \in {"yield", "return"},
         kind(o) \in {"yield", "return"}, blockOf(y) = blockOf(o)
  PROVE  y = o
<1>1. P.next[y] = 0 /\ P.next[o] = 0
  BY NextFacts
<1>2. y <= o /\ o <= y
  BY <1>1, NextFacts DEF inBlock
<1>3. y \in Nat /\ o \in Nat
  BY BlockFacts
<1> QED
  BY <1>2, <1>3

LEMMA MovedPast ==
  ASSUME TypeOK, NEW r, NEW c, NEW depth, NEW at, OrderAt(r, c, depth, at),
         Looping(r, c, depth, at), NEW l \in Launchers, NEW o \in Ops,
         kind(o) \notin {"for", "yield", "return"}, NEW c2, WalksOnce(r, c, r, c2, o)
  PROVE  Moved(r, c, depth, at, r, c2, depth, at, l, o)
<1>1. r \in [Blocks -> Nat] /\ c \in [Blocks -> Nat]
  BY DEF OrderAt, GhostType
<1>2. Looping(r, c2, depth, at)
  <2> SUFFICES ASSUME NEW f \in Ops, kind(f) = "for" PROVE LoopAt(r, c2, depth, at, f)
    BY DEF Looping
  <2>1. f # o /\ LoopAt(r, c, depth, at, f)
    BY DEF Looping
  <2> QED
    BY <1>1, <2>1, LoopSame
<1>3. \A b \in Ops : ~ leaves(o, b) /\ r[b] = r[b] + once(leaves(o, b))
  BY <1>1 DEF leaves, once, Blocks
<1>4. \A y \in Ops : kind(y) = "yield" => r[blockOf(y)] = r[blockOf(y)] + once(y = o)
  BY <1>1, BlockFacts DEF once
<1> QED
  BY <1>2, <1>3, <1>4 DEF Moved

LEMMA MovedInto ==
  ASSUME TypeOK, NEW r, NEW c, NEW depth, NEW at, OrderAt(r, c, depth, at),
         Looping(r, c, depth, at), NEW l \in Launchers, NEW o \in Ops, nextIter[l] = o,
         kind(o) = "for", NEW c2, WalksOnce(r, c, r, c2, o),
         NEW depth2, depth2 = [depth EXCEPT ![l] = depth[l] + 1],
         NEW at2, at2 = [at EXCEPT ![l] = [at[l] EXCEPT ![depth[l] + 1] = o]]
  PROVE  Moved(r, c, depth, at, r, c2, depth2, at2, l, o)
<1>1. r \in [Blocks -> Nat] /\ c \in [Blocks -> Nat] /\ depth \in [Launchers -> Nat]
      /\ at \in [Launchers -> [Nat -> Blocks]] /\ o \in Blocks
  BY DEF OrderAt, GhostType, Blocks
<1>2. \A b : isIn(depth2, at2, b) <=> isIn(depth, at, b) \/ b = o
  <2> SUFFICES ASSUME NEW b PROVE isIn(depth2, at2, b) <=> isIn(depth, at, b) \/ b = o
    OBVIOUS
  <2>1. depth2[l] = depth[l] + 1 /\ at2[l] = [at[l] EXCEPT ![depth[l] + 1] = o]
        /\ \A m \in Launchers : m # l => depth2[m] = depth[m] /\ at2[m] = at[m]
    BY <1>1
  <2>2. at2[l][depth[l] + 1] = o /\ inside(depth2, l, depth[l] + 1) /\ depth[l] + 1 \in Nat
    BY <1>1, <2>1 DEF inside
  <2>3. \A i \in Nat : inside(depth, l, i) => inside(depth2, l, i) /\ at2[l][i] = at[l][i]
    BY <1>1, <2>1 DEF inside
  <2>4. \A i \in Nat : inside(depth2, l, i) /\ i # depth[l] + 1 =>
                         inside(depth, l, i) /\ at2[l][i] = at[l][i]
    <3> SUFFICES ASSUME NEW i \in Nat, inside(depth2, l, i), i # depth[l] + 1
                 PROVE  inside(depth, l, i) /\ at2[l][i] = at[l][i]
      OBVIOUS
    <3>1. PICK k \in Nat : k = depth[l]
      BY <1>1
    <3>2. 1 <= i /\ i <= k
      BY <2>1, <3>1 DEF inside
    <3>3. at2[l][i] = at[l][i]
      BY <1>1, <2>1
    <3> QED
      BY <3>1, <3>2, <3>3 DEF inside
  <2>5. \A m \in Launchers : m # l => \A i \in Nat :
          (inside(depth2, m, i) <=> inside(depth, m, i)) /\ at2[m][i] = at[m][i]
    BY <2>1 DEF inside
  <2>6. ASSUME isIn(depth, at, b) PROVE isIn(depth2, at2, b)
    <3>1. PICK m \in Launchers, i \in Nat : inside(depth, m, i) /\ at[m][i] = b
      BY <2>6 DEF isIn
    <3>2. inside(depth2, m, i) /\ at2[m][i] = b
      BY <2>3, <2>5, <3>1
    <3> QED
      BY <3>2 DEF isIn
  <2>7. ASSUME isIn(depth2, at2, b), b # o PROVE isIn(depth, at, b)
    <3>1. PICK m \in Launchers, i \in Nat : inside(depth2, m, i) /\ at2[m][i] = b
      BY <2>7 DEF isIn
    <3>2. inside(depth, m, i) /\ at[m][i] = b
      BY <2>2, <2>4, <2>5, <2>7, <3>1
    <3> QED
      BY <3>2 DEF isIn
  <2>8. isIn(depth2, at2, o)
    BY <2>2 DEF isIn
  <2> QED
    BY <2>6, <2>7, <2>8
<1>3. ~ isIn(depth, at, o)
  BY NobodyInside DEF isIn
<1>4. Looping(r, c2, depth2, at2)
  <2> SUFFICES ASSUME NEW f \in Ops, kind(f) = "for" PROVE LoopAt(r, c2, depth2, at2, f)
    BY DEF Looping
  <2>1. LoopAt(r, c, depth, at, f)
    BY DEF Looping
  <2>2. CASE f # o
    <3>1. isIn(depth2, at2, f) <=> isIn(depth, at, f)
      BY <1>2, <2>2
    <3> QED
      BY <1>1, <2>1, <2>2, <3>1, LoopSame
  <2>3. CASE f = o
    <3>1. PICK t \in Nat \ {0} : t = P.trip[o]
      BY RunsFacts
    <3>2. PICK w \in Nat : w = walks(r, c, o)
      BY <1>1, WalksType
    <3>3. r[o] = t * w /\ walks(r, c2, o) = w + 1
      BY <1>3, <2>1, <2>3, <3>1, <3>2 DEF LoopAt, WalksOnce
    <3>4. t * (w + 1) = t * w + t /\ t * w \in Nat
      BY <3>1, <3>2, Z3
    <3>5. t * (w + 1) <= r[o] + t /\ r[o] < t * (w + 1)
      BY <3>1, <3>3, <3>4
    <3> QED
      BY <1>2, <2>3, <3>1, <3>3, <3>5 DEF LoopAt
  <2> QED
    BY <2>2, <2>3
<1>5. \A b \in Ops : ~ leaves(o, b) /\ r[b] = r[b] + once(leaves(o, b))
  BY <1>1 DEF leaves, once, Blocks
<1>6. \A y \in Ops : kind(y) = "yield" => r[blockOf(y)] = r[blockOf(y)] + once(y = o)
  BY <1>1, BlockFacts DEF once
<1>7. \A m \in Launchers : m # l => depth2[m] = depth[m] /\ at2[m] = at[m]
  BY <1>1
<1> QED
  BY <1>2, <1>4, <1>5, <1>6, <1>7 DEF Moved

(* A launcher leaves the innermost block it is inside.                      *)
OneLess(depth, depth2, l) == depth2 = [depth EXCEPT ![l] = depth[l] - 1]

LEMMA LeaveInner ==
  ASSUME TypeOK, NEW r, NEW c, NEW depth, NEW at, OrderAt(r, c, depth, at),
         NEW l \in Launchers, inside(depth, l, depth[l]),
         NEW depth2, OneLess(depth, depth2, l)
  PROVE  \A x : isIn(depth2, at, x) <=> isIn(depth, at, x) /\ x # at[l][depth[l]]
<1> TAKE x
<1> DEFINE d == depth[l]
<1>1. depth \in [Launchers -> Nat] /\ d \in Nat /\ d # 0
  BY DEF OrderAt, GhostType, inside
<1>2. \A i \in Nat : inside(depth2, l, i) <=> inside(depth, l, i) /\ i # d
  BY <1>1 DEF inside, OneLess
<1>3. \A m \in Launchers : m # l => \A i \in Nat : inside(depth2, m, i) <=> inside(depth, m, i)
  BY <1>1 DEF inside, OneLess
<1>4. \A m \in Launchers : \A i \in Nat :
        inside(depth, m, i) /\ at[m][i] = at[l][d] => m = l /\ i = d
  BY <1>1 DEF OrderAt, Separate
<1>5. ASSUME isIn(depth2, at, x)
      PROVE  isIn(depth, at, x) /\ x # at[l][d]
  <2>1. PICK m \in Launchers, i \in Nat : inside(depth2, m, i) /\ at[m][i] = x
    BY <1>5 DEF isIn
  <2>2. inside(depth, m, i) /\ ~ (m = l /\ i = d)
    BY <1>2, <1>3, <2>1
  <2> QED
    BY <1>4, <2>1, <2>2 DEF isIn
<1>6. ASSUME isIn(depth, at, x), x # at[l][d]
      PROVE  isIn(depth2, at, x)
  <2>1. PICK m \in Launchers, i \in Nat : inside(depth, m, i) /\ at[m][i] = x
    BY <1>6 DEF isIn
  <2>2. inside(depth2, m, i)
    BY <1>2, <1>3, <1>6, <2>1
  <2> QED
    BY <2>1, <2>2 DEF isIn
<1> QED
  BY <1>5, <1>6

(* The loop that a yield ends: the iteration just made is the last one      *)
(* exactly when the count of iterations says so.                            *)
LEMMA RoundsMade ==
  ASSUME TypeOK, NEW r, NEW c, NEW depth, NEW at, OrderAt(r, c, depth, at),
         Looping(r, c, depth, at), Yields(r), NEW l \in Launchers, NEW o \in Ops,
         nextIter[l] = o, kind(o) = "yield"
  PROVE  LET b == blockOf(o)
             n == P.trip[b] * walks(r, c, b)
         IN  /\ b \in Ops /\ kind(b) = "for" /\ b # o
             /\ r[b] \in Nat /\ n \in Nat /\ P.trip[b] \in Nat
             /\ n <= r[b] + P.trip[b] /\ r[b] < n
             /\ (exTimes[o] + 1) % P.trip[b] = 0 <=> r[b] + 1 = n
<1>1. PICK b : b = blockOf(o)
  OBVIOUS
<1>2. b \in Ops /\ kind(b) = "for" /\ b \in Blocks /\ b # o
  BY <1>1, BlockFacts DEF Blocks
<1>3. isIn(depth, at, b)
  <2>1. b = at[l][depth[l]] /\ inside(depth, l, depth[l])
    BY <1>1, WhereItIs
  <2> QED
    BY <2>1 DEF isIn, inside
<1>4. r \in [Blocks -> Nat] /\ c \in [Blocks -> Nat]
  BY DEF OrderAt, GhostType
<1>5. PICK t \in Nat \ {0} : t = P.trip[b]
  BY <1>2, RunsFacts
<1>6. PICK w \in Nat : w = walks(r, c, b)
  BY <1>2, <1>4, WalksType
<1>7. r[b] \in Nat /\ t * w <= r[b] + t /\ r[b] < t * w
  BY <1>2, <1>3, <1>4, <1>5, <1>6 DEF Looping, LoopAt
<1>8. PICK m \in Nat : m = r[b] + 1
  BY <1>7
<1>9. t * w \in Nat
  BY <1>5, <1>6
<1>10. t * w <= m - 1 + t /\ m <= t * w
  BY <1>7, <1>8, <1>9
<1>11. m % t = 0 <=> m = t * w
  BY <1>5, <1>6, <1>8, <1>10, LastRound
<1>12. exTimes[o] = r[b]
  BY <1>1 DEF Yields
<1> QED
  BY <1>1, <1>2, <1>5, <1>6, <1>7, <1>8, <1>9, <1>11, <1>12

LEMMA MovedRound ==
  ASSUME TypeOK, NEW r, NEW c, NEW depth, NEW at, OrderAt(r, c, depth, at),
         Looping(r, c, depth, at), Yields(r), NEW l \in Launchers, NEW o \in Ops,
         nextIter[l] = o, kind(o) = "yield", (exTimes[o] + 1) % P.trip[blockOf(o)] # 0,
         NEW r2, r2 = [r EXCEPT ![blockOf(o)] = r[blockOf(o)] + 1],
         NEW c2, WalksOnce(r, c, r2, c2, o)
  PROVE  Moved(r, c, depth, at, r2, c2, depth, at, l, o)
<1>1. PICK b : b = blockOf(o)
  OBVIOUS
<1>2. PICK n : n = P.trip[b] * walks(r, c, b)
  OBVIOUS
<1>3. /\ b \in Ops /\ kind(b) = "for" /\ b # o /\ r[b] \in Nat /\ n \in Nat
      /\ P.trip[b] \in Nat /\ n <= r[b] + P.trip[b] /\ r[b] < n /\ r[b] + 1 # n
  BY <1>1, <1>2, RoundsMade
<1>4. r \in [Blocks -> Nat] /\ c \in [Blocks -> Nat] /\ b \in Blocks /\ b # 0
  BY <1>3, BlockFacts DEF OrderAt, GhostType, Blocks
<1>5. r2[b] = r[b] + 1 /\ \A x \in Blocks : x # b => r2[x] = r[x] /\ r[x] \in Nat
  BY <1>1, <1>4
<1>6. Looping(r2, c2, depth, at)
  <2> SUFFICES ASSUME NEW f \in Ops, kind(f) = "for" PROVE LoopAt(r2, c2, depth, at, f)
    BY DEF Looping
  <2>1. LoopAt(r, c, depth, at, f) /\ f # o
    BY DEF Looping
  <2>2. CASE f # b
    <3>1. r2[f] = r[f]
      BY <1>5, <2>2 DEF Blocks
    <3>2. walks(r2, c2, f) = walks(r, c, f)
      BY <1>4, <2>1, WalksKept
    <3> QED
      BY <2>1, <3>1, <3>2 DEF LoopAt
  <2>3. CASE f = b
    <3>1. isIn(depth, at, b)
      <4>1. b = at[l][depth[l]] /\ inside(depth, l, depth[l])
        BY <1>1, WhereItIs
      <4> QED
        BY <4>1 DEF isIn, inside
    <3>2. walks(r2, c2, b) = walks(r, c, b)
      BY <1>3, <1>4, WalksKept
    <3>3. n <= r2[b] + P.trip[b] /\ r2[b] < n
      BY <1>3, <1>5
    <3> QED
      BY <1>2, <2>3, <3>1, <3>2, <3>3 DEF LoopAt
  <2> QED
    BY <2>2, <2>3
<1>7. \A x \in Ops : kind(x) = "launch" => ~ leaves(o, x) /\ r2[x] = r[x] + once(leaves(o, x))
  BY <1>3, <1>5 DEF leaves, once, Blocks
<1>8. \A y \in Ops : kind(y) = "yield" => r2[blockOf(y)] = r[blockOf(y)] + once(y = o)
  BY <1>1, <1>5, BlockFacts, OneEnd DEF once
<1> QED
  BY <1>4, <1>5, <1>6, <1>7, <1>8 DEF Moved, Blocks

LEMMA MovedOut ==
  ASSUME TypeOK, NEW r, NEW c, NEW depth, NEW at, OrderAt(r, c, depth, at),
         Looping(r, c, depth, at), Yields(r), NEW l \in Launchers, NEW o \in Ops,
         nextIter[l] = o, kind(o) = "yield", (exTimes[o] + 1) % P.trip[blockOf(o)] = 0,
         NEW r2, r2 = [r EXCEPT ![blockOf(o)] = r[blockOf(o)] + 1],
         NEW c2, WalksOnce(r, c, r2, c2, o),
         NEW depth2, depth2 = [depth EXCEPT ![l] = depth[l] - 1]
  PROVE  Moved(r, c, depth, at, r2, c2, depth2, at, l, o)
<1>1. PICK b : b = blockOf(o)
  OBVIOUS
<1>2. PICK n : n = P.trip[b] * walks(r, c, b)
  OBVIOUS
<1>3. /\ b \in Ops /\ kind(b) = "for" /\ b # o /\ r[b] \in Nat /\ n \in Nat /\ r[b] + 1 = n
  BY <1>1, <1>2, RoundsMade
<1>4. r \in [Blocks -> Nat] /\ c \in [Blocks -> Nat] /\ b \in Blocks /\ b # 0
      /\ depth \in [Launchers -> Nat]
  BY <1>3, BlockFacts DEF OrderAt, GhostType, Blocks
<1>5. r2[b] = r[b] + 1 /\ \A x \in Blocks : x # b => r2[x] = r[x] /\ r[x] \in Nat
  BY <1>1, <1>4
<1>6. \A x : isIn(depth2, at, x) <=> isIn(depth, at, x) /\ x # b
  <2>1. b = at[l][depth[l]] /\ inside(depth, l, depth[l])
    BY <1>1, WhereItIs
  <2>2. \A x : isIn(depth2, at, x) <=> isIn(depth, at, x) /\ x # at[l][depth[l]]
    <3>1. OneLess(depth, depth2, l)
      BY DEF OneLess
    <3> QED
      BY <2>1, <3>1, LeaveInner
  <2> QED
    BY <2>1, <2>2
<1>7. Looping(r2, c2, depth2, at)
  <2> SUFFICES ASSUME NEW f \in Ops, kind(f) = "for" PROVE LoopAt(r2, c2, depth2, at, f)
    BY DEF Looping
  <2>1. LoopAt(r, c, depth, at, f) /\ f # o
    BY DEF Looping
  <2>2. CASE f # b
    <3>1. r2[f] = r[f]
      BY <1>5, <2>2 DEF Blocks
    <3>2. walks(r2, c2, f) = walks(r, c, f)
      BY <1>4, <2>1, WalksKept
    <3> QED
      BY <1>6, <2>1, <2>2, <3>1, <3>2 DEF LoopAt
  <2>3. CASE f = b
    <3>1. walks(r2, c2, b) = walks(r, c, b)
      BY <1>3, <1>4, WalksKept
    <3> QED
      BY <1>2, <1>3, <1>5, <1>6, <2>3, <3>1 DEF LoopAt
  <2> QED
    BY <2>2, <2>3
<1>8. \A x \in Ops : kind(x) = "launch" =>
        ~ leaves(o, x) /\ r2[x] = r[x] + once(leaves(o, x)) /\ x # b
  BY <1>3, <1>5 DEF leaves, once, Blocks
<1>9. \A y \in Ops : kind(y) = "yield" => r2[blockOf(y)] = r[blockOf(y)] + once(y = o)
  BY <1>1, <1>5, BlockFacts, OneEnd DEF once
<1>10. \A m \in Launchers : m # l => depth2[m] = depth[m]
  BY <1>4
<1> QED
  BY <1>4, <1>5, <1>6, <1>7, <1>8, <1>9, <1>10 DEF Moved, Blocks

LEMMA MovedBack ==
  ASSUME TypeOK, NEW r, NEW c, NEW depth, NEW at, OrderAt(r, c, depth, at),
         Looping(r, c, depth, at), NEW l \in Launchers, NEW o \in Ops,
         nextIter[l] = o, kind(o) = "return",
         NEW r2, r2 = [r EXCEPT ![blockOf(o)] = r[blockOf(o)] + 1],
         NEW c2, WalksOnce(r, c, r2, c2, o),
         NEW depth2, depth2 = [depth EXCEPT ![l] = 0]
  PROVE  Moved(r, c, depth, at, r2, c2, depth2, at, l, o)
<1>1. PICK b : b = blockOf(o)
  OBVIOUS
<1>2. b \in Ops /\ kind(b) = "launch" /\ b # 0 /\ b \in Blocks
  BY <1>1, BlockFacts DEF Blocks
<1>3. r \in [Blocks -> Nat] /\ c \in [Blocks -> Nat] /\ depth \in [Launchers -> Nat]
  BY DEF OrderAt, GhostType
<1>4. r2[b] = r[b] + 1 /\ \A x \in Blocks : x # b => r2[x] = r[x] /\ r[x] \in Nat
  BY <1>1, <1>2, <1>3
<1>5. b = at[l][depth[l]] /\ inside(depth, l, depth[l]) /\ depth[l] = 1
  <2>1. b = at[l][depth[l]] /\ inside(depth, l, depth[l])
    BY <1>1, WhereItIs
  <2>2. depth[l] # 1 => kind(b) = "for"
    BY <1>3, <2>1 DEF OrderAt, Chained
  <2> QED
    BY <1>2, <2>1, <2>2
<1>6. \A x : isIn(depth2, at, x) <=> isIn(depth, at, x) /\ x # b
  <2>1. depth2 = [depth EXCEPT ![l] = depth[l] - 1]
    BY <1>5
  <2>2. \A x : isIn(depth2, at, x) <=> isIn(depth, at, x) /\ x # at[l][depth[l]]
    <3>1. OneLess(depth, depth2, l)
      BY <2>1 DEF OneLess
    <3> QED
      BY <1>5, <3>1, LeaveInner
  <2> QED
    BY <1>5, <2>2
<1>7. Looping(r2, c2, depth2, at)
  <2> SUFFICES ASSUME NEW f \in Ops, kind(f) = "for" PROVE LoopAt(r2, c2, depth2, at, f)
    BY DEF Looping
  <2>1. LoopAt(r, c, depth, at, f) /\ f # o /\ f # b
    BY <1>2 DEF Looping
  <2>2. r2[f] = r[f]
    BY <1>4, <2>1 DEF Blocks
  <2>3. walks(r2, c2, f) = walks(r, c, f)
    BY <1>3, <2>1, WalksKept
  <2> QED
    BY <1>6, <2>1, <2>2, <2>3 DEF LoopAt
<1>8. \A x \in Ops : kind(x) = "launch" => r2[x] = r[x] + once(leaves(o, x))
  BY <1>1, <1>4 DEF leaves, once, Blocks
<1>9. \A y \in Ops : kind(y) = "yield" => r2[blockOf(y)] = r[blockOf(y)] + once(y = o)
  <2> SUFFICES ASSUME NEW y \in Ops, kind(y) = "yield"
               PROVE  r2[blockOf(y)] = r[blockOf(y)] + once(y = o)
    OBVIOUS
  <2>1. kind(blockOf(y)) = "for" /\ blockOf(y) \in Blocks /\ blockOf(y) # b /\ y # o
    BY <1>2, BlockFacts
  <2> QED
    BY <1>4, <2>1 DEF once
<1>10. \A m \in Launchers : m # l => depth2[m] = depth[m]
  BY <1>3
<1>11. r2[0] = r[0]
  BY <1>2, <1>4 DEF Blocks
<1> QED
  BY <1>1, <1>6, <1>7, <1>8, <1>9, <1>10, <1>11 DEF Moved, leaves

(* Every step past an operation moves the launcher in one of these ways.    *)
goesOn(o) == CASE kind(o) = "for" -> P.first[o]
               [] kind(o) = "yield" -> afterYield(o)
               [] OTHER -> P.next[o]

LEMMA Walked ==
  ASSUME TypeOK, NEW r, NEW c, NEW depth, NEW at, OrderAt(r, c, depth, at),
         Looping(r, c, depth, at), Yields(r), NEW l \in Launchers, NEW o \in Ops,
         nextIter[l] = o, prog' = prog, nextIter' = [nextIter EXCEPT ![l] = goesOn(o)]
  PROVE  \E r2, c2, depth2, at2 : /\ OrderAt(r2, c2, depth2, at2)'
                                  /\ Moved(r, c, depth, at, r2, c2, depth2, at2, l, o)
<1>1. PICK c2 : c2 = [c EXCEPT ![blockOf(o)] = o + 1]
  OBVIOUS
<1>2. PICK c3 : c3 = [c EXCEPT ![blockOf(o)] = 0]
  OBVIOUS
<1>3. PICK r3 : r3 = [r EXCEPT ![blockOf(o)] = r[blockOf(o)] + 1]
  OBVIOUS
<1>4. CASE kind(o) = "for"
  <2>1. nextIter' = [nextIter EXCEPT ![l] = P.first[o]]
    BY <1>4 DEF goesOn
  <2>2. PICK depth2 : depth2 = [depth EXCEPT ![l] = depth[l] + 1]
    OBVIOUS
  <2>3. PICK at2 : at2 = [at EXCEPT ![l] = [at[l] EXCEPT ![depth[l] + 1] = o]]
    OBVIOUS
  <2>4. OrderAt(r, c2, depth2, at2)' /\ WalksOnce(r, c, r, c2, o)
    BY <1>1, <1>4, <2>1, <2>2, <2>3, WalkInto
  <2>5. Moved(r, c, depth, at, r, c2, depth2, at2, l, o)
    BY <1>4, <2>2, <2>3, <2>4, MovedInto
  <2> QED
    BY <2>4, <2>5
<1>5. CASE kind(o) = "yield" /\ (exTimes[o] + 1) % P.trip[blockOf(o)] # 0
  <2>1. nextIter' = [nextIter EXCEPT ![l] = P.first[blockOf(o)]]
    BY <1>5 DEF goesOn, afterYield
  <2>2. OrderAt(r3, c3, depth, at)' /\ WalksOnce(r, c, r3, c3, o)
    BY <1>2, <1>3, <1>5, <2>1, WalkRound
  <2>3. Moved(r, c, depth, at, r3, c3, depth, at, l, o)
    BY <1>3, <1>5, <2>2, MovedRound
  <2> QED
    BY <2>2, <2>3
<1>6. CASE kind(o) = "yield" /\ (exTimes[o] + 1) % P.trip[blockOf(o)] = 0
  <2>1. nextIter' = [nextIter EXCEPT ![l] = P.next[blockOf(o)]]
    BY <1>6 DEF goesOn, afterYield
  <2>2. PICK depth2 : depth2 = [depth EXCEPT ![l] = depth[l] - 1]
    OBVIOUS
  <2>3. OrderAt(r3, c3, depth2, at)' /\ WalksOnce(r, c, r3, c3, o)
    BY <1>2, <1>3, <1>6, <2>1, <2>2, WalkOut
  <2>4. Moved(r, c, depth, at, r3, c3, depth2, at, l, o)
    BY <1>3, <1>6, <2>2, <2>3, MovedOut
  <2> QED
    BY <2>3, <2>4
<1>7. CASE kind(o) = "return"
  <2>1. nextIter' = [nextIter EXCEPT ![l] = 0]
    BY <1>7, NextFacts DEF goesOn
  <2>2. PICK depth2 : depth2 = [depth EXCEPT ![l] = 0]
    OBVIOUS
  <2>3. OrderAt(r3, c3, depth2, at)' /\ WalksOnce(r, c, r3, c3, o)
    BY <1>2, <1>3, <1>7, <2>1, <2>2, WalkBack
  <2>4. Moved(r, c, depth, at, r3, c3, depth2, at, l, o)
    BY <1>3, <1>7, <2>2, <2>3, MovedBack
  <2> QED
    BY <2>3, <2>4
<1>8. CASE kind(o) \notin {"for", "yield", "return"}
  <2>1. nextIter' = [nextIter EXCEPT ![l] = P.next[o]]
    BY <1>8 DEF goesOn
  <2>2. OrderAt(r, c2, depth, at)' /\ WalksOnce(r, c, r, c2, o)
    BY <1>1, <1>8, <2>1, WalkPast
  <2>3. Moved(r, c, depth, at, r, c2, depth, at, l, o)
    BY <1>8, <2>2, MovedPast
  <2> QED
    BY <2>2, <2>3
<1> QED
  BY <1>4, <1>5, <1>6, <1>7, <1>8

(* A launcher that is nowhere enters the body of a launch.                  *)
BodyEntered(depth, at, depth2, at2, l, o) ==
  /\ depth2 = [depth EXCEPT ![l] = 1]
  /\ at2 = [at EXCEPT ![l] = [at[l] EXCEPT ![1] = o]]

LEMMA Entered ==
  ASSUME TypeOK, NEW r, NEW c, NEW depth, NEW at, OrderAt(r, c, depth, at),
         NEW l \in Launchers, l # Host, nextIter[l] = 0,
         NEW o \in Ops, kind(o) = "launch", P.target[o] = l,
         NEW depth2, NEW at2, BodyEntered(depth, at, depth2, at2, l, o)
  PROVE  /\ ~ isIn(depth, at, o)
         /\ \A x : isIn(depth2, at2, x) <=> isIn(depth, at, x) \/ x = o
         /\ \A m \in Launchers : m # l => depth2[m] = depth[m] /\ at2[m] = at[m]
<1>1. /\ depth \in [Launchers -> Nat] /\ at \in [Launchers -> [Nat -> Blocks]]
      /\ depth[l] = 0 /\ o # 0
  BY BlockFacts DEF OrderAt, GhostType, Placed
<1>2. \A m \in Launchers : m # l => depth2[m] = depth[m] /\ at2[m] = at[m]
  BY <1>1 DEF BodyEntered
<1>3. /\ \A i \in Nat : ~ inside(depth, l, i)
      /\ \A i \in Nat : inside(depth2, l, i) <=> i = 1
      /\ at2[l][1] = o
  BY <1>1 DEF inside, BodyEntered
<1>4. ~ isIn(depth, at, o)
  <2> SUFFICES ASSUME NEW m \in Launchers, NEW i \in Nat, inside(depth, m, i), at[m][i] = o
               PROVE  FALSE
    BY DEF isIn
  <2>1. i = 1
    BY DEF OrderAt, Chained
  <2>2. depth[m] # 0
    BY <1>1, <2>1 DEF inside
  <2>3. m = l
    BY <1>1, <2>1, <2>2 DEF OrderAt, Rooted
  <2> QED
    BY <1>3, <2>3
<1>5. \A m \in Launchers : m # l => \A i \in Nat :
        (inside(depth2, m, i) <=> inside(depth, m, i)) /\ at2[m][i] = at[m][i]
  BY <1>2 DEF inside
<1>6. ASSUME NEW x, isIn(depth2, at2, x)
      PROVE  isIn(depth, at, x) \/ x = o
  <2>1. PICK m \in Launchers, i \in Nat : inside(depth2, m, i) /\ at2[m][i] = x
    BY <1>6 DEF isIn
  <2>2. CASE m = l
    BY <1>3, <2>1, <2>2
  <2>3. CASE m # l
    BY <1>5, <2>1, <2>3 DEF isIn
  <2> QED
    BY <2>2, <2>3
<1>7. ASSUME NEW x, isIn(depth, at, x) \/ x = o
      PROVE  isIn(depth2, at2, x)
  <2>1. CASE x = o
    BY <1>3, <2>1 DEF isIn
  <2>2. CASE isIn(depth, at, x)
    <3>1. PICK m \in Launchers, i \in Nat : inside(depth, m, i) /\ at[m][i] = x
      BY <2>2 DEF isIn
    <3>2. m # l
      BY <1>3, <3>1
    <3> QED
      BY <1>5, <3>1, <3>2 DEF isIn
  <2> QED
    BY <1>7, <2>1, <2>2
<1> QED
  BY <1>2, <1>4, <1>6, <1>7

(* The host never leaves the function.                                      *)
LEMMA HostInFunction ==
  ASSUME TypeOK, NEW r, NEW c, NEW depth, NEW at, OrderAt(r, c, depth, at)
  PROVE  isIn(depth, at, 0)
<1>1. Host \in Launchers /\ depth[Host] \in Nat /\ depth[Host] # 0
  BY DEF OrderAt, GhostType, Placed, Launchers
<1>2. at[Host][1] = 0 /\ inside(depth, Host, 1)
  BY <1>1 DEF OrderAt, Rooted, inside
<1> QED
  BY <1>1, <1>2 DEF isIn

-----------------------------------------------------------------------------
(***************************************************************************)
(* Whose turn it is.  The operations of a block in front of the one its    *)
(* launcher is at were issued once more than those behind it.              *)
(***************************************************************************)
inTurn(r, depth, at, l, o) ==
  /\ inside(depth, l, depth[l]) /\ at[l][depth[l]] = blockOf(o)
  /\ \A p \in countedOps : blockOf(p) = blockOf(o) => issuedOf(p) = r[blockOf(o)] + once(p < o)

LEMMA TurnOf ==
  ASSUME TypeOK, NEW r, NEW c, NEW depth, NEW at, Tracks(r, c, depth, at),
         NEW l \in Launchers, NEW o \in countedOps, inTurn(r, depth, at, l, o)
  PROVE  Abstract!InTurn(o)
<1>1. /\ OrderAt(r, c, depth, at) /\ Looping(r, c, depth, at) /\ Bodies(r, depth, at)
      /\ Signalled(depth, at) /\ o \in Ops
  BY CountedFacts DEF Tracks
<1>2. PICK b : b = blockOf(o)
  OBVIOUS
<1>3. PICK B : B = bodyOf(P, o)
  OBVIOUS
<1>4. depth[l] \in Nat /\ depth[l] # 0
  BY <1>1 DEF inTurn, inside, OrderAt, GhostType
<1>5. isBlock(b) /\ B = root(b) /\ B = at[l][1] /\ inside(depth, l, 1)
  BY <1>1, <1>2, <1>3, <1>4, RootFacts, RootOfPlace DEF inTurn
<1>6. isIn(depth, at, b) /\ isIn(depth, at, B)
  BY <1>2, <1>4, <1>5 DEF inTurn, isIn
<1>7. B \in Blocks /\ (B = 0 \/ (B \in Ops /\ kind(B) = "launch"))
  BY <1>5, RootKind
<1>8. PICK k \in Nat \ {0} : ScaledBy(r, depth, at, k, b)
  BY <1>1, <1>5, Scaled
<1>9. b \in Blocks /\ r[b] \in Nat /\ r[B] \in Nat /\ runs(B) \in Nat \ {0}
  <2>1. b \in Blocks
    BY <1>1, <1>2, BlockFacts
  <2> QED
    BY <1>1, <1>7, <2>1, RunsFacts DEF OrderAt, GhostType
<1>10. runs(b) = k * runs(B) /\ r[b] + 1 <= k * (r[B] + 1)
  BY <1>5, <1>6, <1>8 DEF ScaledBy, once
<1>11. runs(b) \div runs(B) = k
  BY <1>8, <1>9, <1>10, Quotient
<1>12. issuedOf(o) = r[b]
  BY <1>2, <1>9, BlockFacts, <1>1 DEF inTurn, once
<1>13. \A p \in countedOps : blockOf(p) = b => issuedOf(p) = issuedOf(o) + IF p < o THEN 1 ELSE 0
  BY <1>2, <1>12 DEF inTurn, once
<1>14. CASE B = 0
  <2>1. r[B] = 0
    BY <1>1, <1>14 DEF Bodies
  <2>2. r[b] < 1 * k
    BY <1>8, <1>9, <1>10, <2>1
  <2> QED
    BY <1>2, <1>3, <1>11, <1>12, <1>13, <1>14, <2>2, TurnFrom
<1>15. CASE B # 0
  <2>1. B \in Events /\ kind(B) = "launch" /\ hasDevice(B)
    <3>1. P.target[B] = l /\ l # Host
      BY <1>1, <1>4, <1>5, <1>7, <1>15 DEF OrderAt, Rooted
    <3> QED
      BY <1>7, <1>15, <3>1 DEF Events, EventKinds, hasDevice
  <2>2. begunOf(B) = r[B] + 1
    BY <1>1, <1>6, <1>7, <1>15, <2>1 DEF Bodies, once
  <2>3. begunOf(B) > valueMap[doneOf(B)]
    <3>1. begunOf(B) = valueMap[doneOf(B)] + 1
      BY <1>1, <1>6, <2>1 DEF Signalled, atWork, once
    <3>2. valueMap[doneOf(B)] \in Nat
      BY <2>1, CountedFacts DEF TypeOK, CountTypeOK
    <3> QED
      BY <3>1, <3>2
  <2>4. r[b] < begunOf(B) * k
    <3>1. k * (r[B] + 1) = begunOf(B) * k /\ k * (r[B] + 1) \in Nat
      BY <1>8, <1>9, <2>2, Z3
    <3> QED
      BY <1>9, <1>10, <3>1
  <2> QED
    BY <1>2, <1>3, <1>11, <1>12, <1>13, <1>15, <2>1, <2>3, <2>4, TurnFrom
<1> QED
  BY <1>14, <1>15

(* The next operation of an idle launcher.                                  *)
LEMMA TurnAt ==
  ASSUME TypeOK, NEW r, NEW c, NEW depth, NEW at, Tracks(r, c, depth, at),
         NEW l \in Launchers, opEntry[l] = 0, NEW o \in countedOps, nextIter[l] = o
  PROVE  inTurn(r, depth, at, l, o)
<1>1. OrderAt(r, c, depth, at) /\ Issued(r, c) /\ Awaiting(depth, at) /\ o \in Ops
  BY CountedFacts DEF Tracks
<1>2. PICK b : b = blockOf(o)
  OBVIOUS
<1>3. /\ inside(depth, l, depth[l]) /\ at[l][depth[l]] = b /\ b \in Blocks
      /\ \A p \in inBlock(b) : p < c[b] <=> p < o
      /\ \A m \in Launchers : \A i \in Nat :
           inside(depth, m, i) /\ at[m][i] = b => m = l /\ i = depth[l]
  BY <1>1, <1>2, WhereItIs
<1>4. ASSUME NEW p \in countedOps, blockOf(p) = b
      PROVE  issuedOf(p) = r[b] + once(p < o)
  <2>1. p \in Ops /\ p \in inBlock(b) /\ p # 0 /\ issuedOf(p) \in Nat
    BY <1>4, CountedFacts, BlockFacts, CountsType DEF inBlock
  <2>2. walks(r, c, p) = r[b] + once(p < o)
    BY <1>3, <1>4, <2>1 DEF walks, once
  <2>3. ~ (kind(p) = "await" /\ awaited(p))
    <3> SUFFICES ASSUME kind(p) = "await", NEW m \in Launchers, opEntry[m] = p, ~ is_started(m)
                 PROVE  FALSE
      BY DEF awaited
    <3>1. inside(depth, m, depth[m]) /\ at[m][depth[m]] = b
      BY <1>1, <1>4, <2>1 DEF Awaiting
    <3>2. m = l
      BY <1>3, <3>1 DEF inside
    <3> QED
      BY <2>1, <3>2
  <2>4. walks(r, c, p) = issuedOf(p) + 0
    BY <1>1, <2>3 DEF Issued, once
  <2> QED
    BY <2>1, <2>2, <2>4
<1> QED
  BY <1>2, <1>3, <1>4 DEF inTurn

(* An await that its launcher has loaded and not started.                   *)
LEMMA TurnOfAwait ==
  ASSUME TypeOK, NEW r, NEW c, NEW depth, NEW at, Tracks(r, c, depth, at),
         NEW l \in Launchers, NEW o \in Ops, opEntry[l] = o, kind(o) = "await", ~ is_started(l)
  PROVE  inTurn(r, depth, at, l, o)
<1>1. OrderAt(r, c, depth, at) /\ Issued(r, c) /\ Awaiting(depth, at) /\ o \in countedOps
  BY CountedFacts DEF Tracks
<1>2. PICK b : b = blockOf(o)
  OBVIOUS
<1>3. /\ inside(depth, l, depth[l]) /\ at[l][depth[l]] = b /\ b \in Blocks
      /\ nextIter[l] = P.next[o]
  BY <1>1, <1>2, BlockFacts DEF Awaiting
<1>4. depth[l] \in Nat
  BY <1>1 DEF OrderAt, GhostType
<1>5. \A p \in inBlock(b) : p \in Nat /\ o \in Nat /\ (p < c[b] <=> p <= o)
  <2> SUFFICES ASSUME NEW p \in inBlock(b)
               PROVE  p \in Nat /\ o \in Nat /\ (p < c[b] <=> p <= o)
    OBVIOUS
  <2>1. p < c[b] <=> nextIter[l] = 0 \/ p < nextIter[l]
    BY <1>1, <1>3, <1>4 DEF OrderAt, Cursors
  <2>2. p \in Nat /\ o \in Nat /\ P.next[o] \in Nat
    BY NextFacts, BlockFacts DEF inBlock, Blocks
  <2>3. P.next[o] = 0 => p <= o
    BY <1>2, NextFacts
  <2>4. P.next[o] # 0 => (o < p <=> P.next[o] <= p)
    BY <1>2, NextFacts
  <2> QED
    BY <1>3, <2>1, <2>2, <2>3, <2>4
<1>6. \A m \in Launchers : \A i \in Nat : inside(depth, m, i) /\ at[m][i] = b => m = l
  BY <1>1, <1>3, <1>4 DEF OrderAt, Separate
<1>7. ASSUME NEW p \in countedOps, blockOf(p) = b
      PROVE  issuedOf(p) = r[b] + once(p < o)
  <2>1. p \in Ops /\ p \in inBlock(b) /\ p \in Nat /\ o \in Nat /\ issuedOf(p) \in Nat
        /\ r[b] \in Nat
    BY <1>1, <1>3, <1>5, <1>7, CountedFacts, CountsType DEF inBlock, OrderAt, GhostType
  <2>2. walks(r, c, p) = r[b] + once(p <= o)
    BY <1>5, <1>7, <2>1 DEF walks, once
  <2>3. kind(p) = "await" /\ awaited(p) <=> p = o
    <3>1. kind(o) = "await" /\ awaited(o)
      BY DEF awaited
    <3>2. ASSUME kind(p) = "await", NEW m \in Launchers, opEntry[m] = p, ~ is_started(m)
          PROVE  p = o
      <4>1. inside(depth, m, depth[m]) /\ at[m][depth[m]] = b
        BY <1>1, <1>7, <2>1, <3>2 DEF Awaiting
      <4>2. m = l
        BY <1>6, <4>1 DEF inside
      <4> QED
        BY <3>2, <4>2
    <3> QED
      BY <3>1, <3>2 DEF awaited
  <2>4. walks(r, c, p) = issuedOf(p) + once(p = o)
    BY <1>1, <2>3 DEF Issued, once
  <2> QED
    BY <2>1, <2>2, <2>4 DEF once
<1> QED
  BY <1>2, <1>3, <1>7 DEF inTurn

(* When a launch is over everything in its body has been issued.            *)
LEMMA AllIssued ==
  ASSUME TypeOK, NEW r, NEW c, NEW depth, NEW at, Tracks(r, c, depth, at),
         NEW o \in Ops, kind(o) = "launch", hasDevice(o), ~ isIn(depth, at, o),
         NEW p \in countedOps, bodyOf(P, p) = o
  PROVE  issuedOf(p) = begunOf(o) * (runs(blockOf(p)) \div runs(o))
<1>1. /\ OrderAt(r, c, depth, at) /\ Issued(r, c) /\ Awaiting(depth, at) /\ p \in Ops
      /\ Looping(r, c, depth, at) /\ Bodies(r, depth, at)
  BY CountedFacts DEF Tracks
<1>2. PICK b : b = blockOf(p)
  OBVIOUS
<1>3. isBlock(b) /\ root(b) = o /\ b \in Blocks /\ o \in Blocks
  BY <1>1, <1>2, RootFacts, BlockFacts DEF Blocks
<1>4. ~ isIn(depth, at, b)
  BY <1>1, <1>3, InRoot
<1>5. PICK k \in Nat \ {0} : ScaledBy(r, depth, at, k, b)
  BY <1>1, <1>3, Scaled
<1>6. r[b] = k * r[o] /\ runs(b) = k * runs(o) /\ begunOf(o) = r[o] + 0
  BY <1>1, <1>3, <1>5 DEF ScaledBy, Bodies, once
<1>7. r[o] \in Nat /\ r[b] \in Nat /\ runs(o) \in Nat \ {0} /\ issuedOf(p) \in Nat
  BY <1>1, <1>3, RunsFacts, CountsType DEF OrderAt, GhostType
<1>8. walks(r, c, p) = r[b] + 0
  <2>1. ~ (p < c[b])
    BY <1>1, <1>2, <1>3, <1>4 DEF OrderAt, Fresh, isIn, inBlock
  <2> QED
    BY <1>2, <2>1 DEF walks
<1>9. ~ (kind(p) = "await" /\ awaited(p))
  BY <1>1, <1>2, <1>4 DEF Awaiting, awaited, isIn, inside
<1>10. walks(r, c, p) = issuedOf(p) + 0
  BY <1>1, <1>9 DEF Issued, once
<1>11. runs(b) \div runs(o) = k
  BY <1>5, <1>6, <1>7, Quotient
<1>12. k * r[o] = r[o] * k
  BY <1>5, <1>7
<1> QED
  BY <1>2, <1>6, <1>7, <1>8, <1>10, <1>11, <1>12

-----------------------------------------------------------------------------
(***************************************************************************)
(* The numbers in the next state, action by action.                        *)
(***************************************************************************)
LEMMA ProgramStays ==
  ASSUME prog' = prog
  PROVE  /\ P' = P /\ Ops' = Ops /\ Launchers' = Launchers /\ Blocks' = Blocks
         /\ Events' = Events /\ countedOps' = countedOps
         /\ \A x : kind(x)' = kind(x) /\ blockOf(x)' = blockOf(x) /\ doneOf(x)' = doneOf(x)
                   /\ hasDevice(x)' = hasDevice(x)
BY Rigid DEF P, Ops, OpsIn, Launchers, Blocks, Events, countedOps, kind, blockOf, doneOf, hasDevice

LEMMA PlacesStay ==
  ASSUME prog' = prog, NEW depth, NEW at, NEW r, NEW c
  PROVE  /\ \A b : isIn(depth, at, b)' = isIn(depth, at, b)
         /\ \A x : walks(r, c, x)' = walks(r, c, x)
         /\ Looping(r, c, depth, at) => Looping(r, c, depth, at)'
<1>1. \A b : isIn(depth, at, b)' = isIn(depth, at, b)
  BY ProgramStays DEF isIn, inside
<1>2. \A x : walks(r, c, x)' = walks(r, c, x)
  BY ProgramStays DEF walks
<1>3. ASSUME Looping(r, c, depth, at)
      PROVE  Looping(r, c, depth, at)'
  <2> SUFFICES ASSUME NEW f \in Ops, kind(f) = "for"
               PROVE  LoopAt(r, c, depth, at, f)'
    BY ProgramStays DEF Looping
  <2>1. LoopAt(r, c, depth, at, f)
    BY <1>3 DEF Looping
  <2>2. isIn(depth, at, f)' = isIn(depth, at, f) /\ walks(r, c, f)' = walks(r, c, f) /\ P' = P
    BY <1>1, <1>2, ProgramStays
  <2> QED
    BY <2>1, <2>2 DEF LoopAt
<1> QED
  BY <1>1, <1>2, <1>3

(* The counts of the next state, when the program stays.                    *)
LEMMA IssuedNow ==
  ASSUME prog' = prog, NEW r, NEW c,
         \A x \in countedOps :
           walks(r, c, x) = issuedOf(x)' + once(kind(x) = "await" /\ awaited(x)')
  PROVE  Issued(r, c)'
<1>1. countedOps' = countedOps /\ \A x : kind(x)' = kind(x)
  BY ProgramStays
<1>2. \A x : walks(r, c, x)' = walks(r, c, x)
  BY PlacesStay
<1> SUFFICES ASSUME NEW x \in countedOps
             PROVE  walks(r, c, x)' = issuedOf(x)' + once(kind(x)' = "await" /\ awaited(x)')
  BY <1>1 DEF Issued, once
<1> QED
  BY <1>1, <1>2

LEMMA BodiesNow ==
  ASSUME prog' = prog, NEW r, NEW depth, NEW at, r[0] = 0,
         \A o \in Ops : kind(o) = "launch" /\ hasDevice(o) =>
           begunOf(o)' = r[o] + once(isIn(depth, at, o))
  PROVE  Bodies(r, depth, at)'
<1>1. Ops' = Ops /\ \A x : kind(x)' = kind(x) /\ hasDevice(x)' = hasDevice(x)
  BY ProgramStays
<1>2. \A b : isIn(depth, at, b)' = isIn(depth, at, b)
  BY PlacesStay
<1>3. \A o : once(isIn(depth, at, o))' = once(isIn(depth, at, o))
  BY <1>2 DEF once
<1> QED
  BY <1>1, <1>3 DEF Bodies

LEMMA WorkStays ==
  ASSUME prog' = prog, opEntry' = opEntry, NEW depth, NEW at
  PROVE  \A y : atWork(depth, at, y)' <=> atWork(depth, at, y)
<1>1. /\ Ops' = Ops /\ Launchers' = Launchers
      /\ \A x : kind(x)' = kind(x) /\ blockOf(x)' = blockOf(x)
  BY ProgramStays
<1>2. \A b : isIn(depth, at, b)' = isIn(depth, at, b)
  BY PlacesStay
<1>3. \A y : returns(y)' <=> returns(y)
  BY <1>1 DEF returns
<1> QED
  BY <1>1, <1>2, <1>3 DEF atWork

(* What an event needs of the next state to be accounted for.               *)
LEMMA SignalledNow ==
  ASSUME TypeOK, prog' = prog, NEW depth, NEW at, Signalled(depth, at), NEW depth2, NEW at2,
         \A y \in Events : \E k \in {0, 1} :
           /\ begunOf(y)' = begunOf(y) + k
           /\ valueMap'[doneOf(y)] = valueMap[doneOf(y)] + k,
         \A y \in Events : atWork(depth2, at2, y)' <=> atWork(depth, at, y)
  PROVE  Signalled(depth2, at2)'
<1> SUFFICES ASSUME NEW y \in Events
             PROVE  begunOf(y)' = valueMap'[doneOf(y)] + once(atWork(depth2, at2, y)')
  BY ProgramStays DEF Signalled, once
<1>1. begunOf(y) = valueMap[doneOf(y)] + once(atWork(depth, at, y))
  BY DEF Signalled
<1>2. begunOf(y) \in Nat /\ valueMap[doneOf(y)] \in Nat
  BY CountedFacts, CountsType DEF TypeOK, CountTypeOK
<1>3. once(atWork(depth2, at2, y)') = once(atWork(depth, at, y))
  BY DEF once
<1>4. once(atWork(depth, at, y)) \in {0, 1}
  BY OneOrNone
<1> QED
  BY <1>1, <1>2, <1>3, <1>4

(* An asynchronous operation is pushed or skipped.                          *)
LEMMA TracksPush ==
  ASSUME TypeOK, NEW r, NEW c, NEW depth, NEW at, Tracks(r, c, depth, at),
         NEW l \in Launchers, opEntry[l] = 0, NEW o \in Ops, kind(o) \in AsyncKinds,
         nextIter[l] = o, prog' = prog, nextIter' = [nextIter EXCEPT ![l] = P.next[o]],
         UNCHANGED <<opEntry, startTime, endTime, exTimes>>, moreIssued(o),
         \A b \in Ops : kind(b) = "launch" /\ hasDevice(b) => begunOf(b)' = begunOf(b),
         \A y \in Events : \E k \in {0, 1} :
           /\ begunOf(y)' = begunOf(y) + k
           /\ valueMap'[doneOf(y)] = valueMap[doneOf(y)] + k
  PROVE  \E r2, c2 : Tracks(r2, c2, depth, at)'
<1>1. /\ OrderAt(r, c, depth, at) /\ Issued(r, c) /\ Awaiting(depth, at)
      /\ Looping(r, c, depth, at) /\ Yields(r) /\ Bodies(r, depth, at) /\ Signalled(depth, at)
  BY DEF Tracks
<1>2. kind(o) \notin {"for", "yield", "return", "await"}
  BY DEF AsyncKinds, ControlKinds, EventKinds
<1>3. nextIter' = [nextIter EXCEPT ![l] = goesOn(o)]
  BY <1>2 DEF goesOn
<1>4. PICK r2, c2, depth2, at2 : /\ OrderAt(r2, c2, depth2, at2)'
                                 /\ Moved(r, c, depth, at, r2, c2, depth2, at2, l, o)
  BY <1>1, <1>3, Walked
<1>5. /\ depth2 = depth /\ at2 = at /\ WalksOnce(r, c, r2, c2, o)
      /\ Looping(r2, c2, depth, at) /\ r2[0] = r[0]
      /\ \A b \in Ops : kind(b) = "launch" => r2[b] = r[b] + 0
      /\ \A y \in Ops : kind(y) = "yield" => r2[blockOf(y)] = r[blockOf(y)] + 0
  BY <1>2, <1>4 DEF Moved, leaves, once
<1>6. OrderAt(r2, c2, depth, at)'
  BY <1>4, <1>5
<1>7. r \in [Blocks -> Nat] /\ c \in [Blocks -> Nat]
  BY <1>1 DEF OrderAt, GhostType
<1>8. \A x : awaited(x)' = awaited(x)
  BY ProgramStays DEF awaited, is_started
<1>9. Issued(r2, c2)'
  <2> SUFFICES ASSUME NEW x \in countedOps
               PROVE  walks(r2, c2, x) = issuedOf(x)' + once(kind(x) = "await" /\ awaited(x))
    BY <1>8, IssuedNow
  <2>1. x \in Ops /\ issuedOf(x) \in Nat /\ issuedOf(x)' = issuedOf(x) + once(x = o)
    BY CountedFacts, CountsType DEF moreIssued
  <2>2. walks(r2, c2, x) = walks(r, c, x) + once(x = o)
    BY <1>5, <2>1 DEF WalksOnce, once
  <2>3. walks(r, c, x) = issuedOf(x) + once(kind(x) = "await" /\ awaited(x))
    BY <1>1 DEF Issued
  <2>4. once(x = o) \in {0, 1} /\ once(kind(x) = "await" /\ awaited(x)) \in {0, 1}
    BY OneOrNone
  <2> QED
    BY <2>1, <2>2, <2>3, <2>4
<1>10. Awaiting(depth, at)'
  <2> SUFFICES ASSUME NEW m \in Launchers, NEW x \in Ops, kind(x) = "await",
                      opEntry[m] = x, ~ is_started(m)
               PROVE  /\ inside(depth, m, depth[m]) /\ at[m][depth[m]] = blockOf(x)
                      /\ nextIter'[m] = P.next[x]
    BY ProgramStays DEF Awaiting, inside, is_started
  <2>1. m # l
    BY BlockFacts
  <2> QED
    BY <1>1, <2>1 DEF Awaiting, TypeOK, LauncherTypeOK
<1>11. Looping(r2, c2, depth, at)'
  BY <1>5, PlacesStay
<1>12. Yields(r2)'
  <2> SUFFICES ASSUME NEW y \in Ops, kind(y) = "yield" PROVE exTimes[y] = r2[blockOf(y)]
    BY ProgramStays DEF Yields
  <2>1. r[blockOf(y)] \in Nat
    BY <1>7, BlockFacts
  <2> QED
    BY <1>1, <1>5, <2>1 DEF Yields
<1>13. Bodies(r2, depth, at)'
  <2>1. r2[0] = 0
    BY <1>1, <1>5 DEF Bodies
  <2>2. ASSUME NEW b \in Ops, kind(b) = "launch", hasDevice(b)
        PROVE  begunOf(b)' = r2[b] + once(isIn(depth, at, b))
    <3>1. r[b] \in Nat
      BY <1>7 DEF Blocks
    <3> QED
      BY <1>1, <1>5, <2>2, <3>1 DEF Bodies
  <2> QED
    BY <2>1, <2>2, BodiesNow
<1>14. Signalled(depth, at)'
  <2>1. \A y \in Events : atWork(depth, at, y)' <=> atWork(depth, at, y)
    BY WorkStays
  <2> QED
    BY <1>1, <2>1, SignalledNow
<1> QED
  BY <1>6, <1>9, <1>10, <1>11, <1>12, <1>13, <1>14 DEF Tracks

(* An operation that its launcher runs itself is loaded.                    *)
LEMMA TracksLoad ==
  ASSUME TypeOK, NEW r, NEW c, NEW depth, NEW at, Tracks(r, c, depth, at),
         NEW l \in Launchers, opEntry[l] = 0, NEW o \in Ops, kind(o) \notin AsyncKinds,
         nextIter[l] = o, prog' = prog, nextIter' = [nextIter EXCEPT ![l] = goesOn(o)],
         opEntry' = [opEntry EXCEPT ![l] = o], startTime' = [startTime EXCEPT ![l] = 0],
         endTime' = [endTime EXCEPT ![l] = 0], valueMap' = valueMap,
         exTimes' = IF kind(o) = "yield" THEN [exTimes EXCEPT ![o] = @ + 1] ELSE exTimes,
         sameBegun, sameIssued
  PROVE  \E r2, c2, depth2, at2 : Tracks(r2, c2, depth2, at2)'
<1>1. /\ OrderAt(r, c, depth, at) /\ Issued(r, c) /\ Awaiting(depth, at)
      /\ Looping(r, c, depth, at) /\ Yields(r) /\ Bodies(r, depth, at) /\ Signalled(depth, at)
  BY DEF Tracks
<1>2. PICK r2, c2, depth2, at2 : /\ OrderAt(r2, c2, depth2, at2)'
                                 /\ Moved(r, c, depth, at, r2, c2, depth2, at2, l, o)
  BY <1>1, Walked
<1>3. /\ r \in [Blocks -> Nat] /\ c \in [Blocks -> Nat] /\ depth \in [Launchers -> Nat]
      /\ 0 \notin Ops
  BY <1>1, BlockFacts DEF OrderAt, GhostType
<1>4. /\ opEntry \in [Launchers -> Ops \cup {0}] /\ startTime \in [Launchers -> Nat]
      /\ endTime \in [Launchers -> Nat] /\ nextIter \in [Launchers -> Ops \cup {0}]
      /\ exTimes \in [Ops -> Nat]
  BY DEF TypeOK, LauncherTypeOK, CountTypeOK
<1>5. /\ opEntry'[l] = o /\ ~ is_started(l)' /\ nextIter'[l] = goesOn(o)
      /\ \A m \in Launchers : m # l => /\ opEntry'[m] = opEntry[m] /\ nextIter'[m] = nextIter[m]
                                       /\ (is_started(m)' <=> is_started(m))
  BY <1>4 DEF is_started
<1>6. /\ inside(depth, l, depth[l]) /\ at[l][depth[l]] = blockOf(o)
      /\ \A m \in Launchers : \A i \in Nat :
           inside(depth, m, i) /\ at[m][i] = blockOf(o) => m = l /\ i = depth[l]
  BY <1>1, WhereItIs
<1>7. /\ WalksOnce(r, c, r2, c2, o) /\ Looping(r2, c2, depth2, at2) /\ r2[0] = r[0]
      /\ \A b \in Ops : kind(b) = "launch" =>
           /\ r2[b] = r[b] + once(leaves(o, b))
           /\ isIn(depth2, at2, b) <=> isIn(depth, at, b) /\ ~ leaves(o, b)
      /\ \A y \in Ops : kind(y) = "yield" => r2[blockOf(y)] = r[blockOf(y)] + once(y = o)
      /\ \A m \in Launchers : m # l => depth2[m] = depth[m] /\ at2[m] = at[m]
      /\ kind(o) = "await" => depth2 = depth /\ at2 = at
  BY <1>2 DEF Moved
<1>8. \A x \in Ops : awaited(x)' <=> awaited(x) \/ x = o
  <2> SUFFICES ASSUME NEW x \in Ops PROVE awaited(x)' <=> awaited(x) \/ x = o
    OBVIOUS
  <2>1. awaited(x)' <=> \E m \in Launchers : opEntry'[m] = x /\ ~ is_started(m)'
    BY ProgramStays DEF awaited
  <2> QED
    BY <1>3, <1>5, <2>1 DEF awaited
<1>9. ~ (kind(o) = "await" /\ awaited(o))
  <2> SUFFICES ASSUME kind(o) = "await", NEW m \in Launchers, opEntry[m] = o, ~ is_started(m)
               PROVE  FALSE
    BY DEF awaited
  <2>1. inside(depth, m, depth[m]) /\ at[m][depth[m]] = blockOf(o)
    BY <1>1 DEF Awaiting
  <2>2. m = l
    BY <1>6, <2>1 DEF inside
  <2> QED
    BY <1>3, <2>2
<1>10. Issued(r2, c2)'
  <2> SUFFICES ASSUME NEW x \in countedOps
               PROVE  walks(r2, c2, x) = issuedOf(x)' + once(kind(x) = "await" /\ awaited(x)')
    BY IssuedNow
  <2>1. x \in Ops /\ issuedOf(x) \in Nat /\ issuedOf(x)' = issuedOf(x)
    BY CountedFacts, CountsType DEF sameIssued
  <2>2. walks(r2, c2, x) = walks(r, c, x) + once(x = o)
    BY <1>7, <2>1 DEF WalksOnce, once
  <2>3. walks(r, c, x) = issuedOf(x) + once(kind(x) = "await" /\ awaited(x))
    BY <1>1 DEF Issued
  <2>4. x = o => kind(x) = "await"
    BY DEF countedOps
  <2>5. once(kind(x) = "await" /\ awaited(x)')
          = once(kind(x) = "await" /\ awaited(x)) + once(x = o)
    BY <1>8, <1>9, <2>1, <2>4 DEF once
  <2>6. once(x = o) \in {0, 1} /\ once(kind(x) = "await" /\ awaited(x)) \in {0, 1}
    BY OneOrNone
  <2> QED
    BY <2>1, <2>2, <2>3, <2>5, <2>6
<1>11. Awaiting(depth2, at2)'
  <2> SUFFICES ASSUME NEW m \in Launchers, NEW x \in Ops, kind(x) = "await",
                      opEntry'[m] = x, ~ is_started(m)'
               PROVE  /\ inside(depth2, m, depth2[m]) /\ at2[m][depth2[m]] = blockOf(x)
                      /\ nextIter'[m] = P.next[x]
    BY ProgramStays DEF Awaiting, inside
  <2>1. CASE m # l
    <3>1. /\ inside(depth, m, depth[m]) /\ at[m][depth[m]] = blockOf(x)
          /\ nextIter[m] = P.next[x]
      BY <1>1, <1>5, <2>1 DEF Awaiting
    <3> QED
      BY <1>5, <1>7, <2>1, <3>1 DEF inside
  <2>2. CASE m = l
    <3>1. x = o /\ depth2 = depth /\ at2 = at
      BY <1>5, <1>7, <2>2
    <3>2. goesOn(o) = P.next[o]
      BY <3>1 DEF goesOn
    <3> QED
      BY <1>5, <1>6, <2>2, <3>1, <3>2
  <2> QED
    BY <2>1, <2>2
<1>12. Looping(r2, c2, depth2, at2)'
  BY <1>7, PlacesStay
<1>13. Yields(r2)'
  <2> SUFFICES ASSUME NEW y \in Ops, kind(y) = "yield" PROVE exTimes'[y] = r2[blockOf(y)]
    BY ProgramStays DEF Yields
  <2>1. exTimes'[y] = exTimes[y] + once(y = o)
    BY <1>4 DEF once
  <2> QED
    BY <1>1, <1>7, <2>1 DEF Yields
<1>14. \A b \in Ops : leaves(o, b) => isIn(depth, at, b)
  BY <1>6 DEF leaves, isIn, inside
<1>15. Bodies(r2, depth2, at2)'
  <2>1. r2[0] = 0
    BY <1>1, <1>7 DEF Bodies
  <2>2. ASSUME NEW b \in Ops, kind(b) = "launch", hasDevice(b)
        PROVE  begunOf(b)' = r2[b] + once(isIn(depth2, at2, b))
    <3>1. r[b] \in Nat
      BY <1>3 DEF Blocks
    <3>2. begunOf(b) = r[b] + once(isIn(depth, at, b))
      BY <1>1, <2>2 DEF Bodies
    <3>3. once(isIn(depth, at, b)) = once(leaves(o, b)) + once(isIn(depth2, at2, b))
      BY <1>7, <1>14, <2>2 DEF once
    <3>4. once(leaves(o, b)) \in {0, 1} /\ once(isIn(depth2, at2, b)) \in {0, 1}
      BY OneOrNone
    <3>5. begunOf(b)' = begunOf(b)
      BY <2>2 DEF sameBegun, countedOps, AsyncKinds, EventKinds
    <3> QED
      BY <1>7, <2>2, <3>1, <3>2, <3>3, <3>4, <3>5
  <2> QED
    BY <2>1, <2>2, ProgramStays, PlacesStay DEF Bodies
<1>16. Signalled(depth2, at2)'
  <2>1. ASSUME NEW y \in Events
        PROVE  atWork(depth2, at2, y)' <=> atWork(depth, at, y)
    <3>1. y \in Ops /\ y # o /\ y # 0 /\ kind(y)' = kind(y)
      BY <1>3, ProgramStays DEF Events, AsyncKinds
    <3>2. CASE kind(y) = "launch"
      <4>1. returns(y)' <=> \E m \in Launchers : \E x \in Ops :
                               opEntry'[m] = x /\ kind(x) = "return" /\ blockOf(x) = y
        BY ProgramStays DEF returns
      <4>2. returns(y)' <=> returns(y) \/ leaves(o, y)
        BY <1>3, <1>5, <4>1 DEF returns, leaves
      <4>3. isIn(depth2, at2, y)' <=> isIn(depth, at, y) /\ ~ leaves(o, y)
        BY <1>7, <3>1, <3>2, PlacesStay
      <4> QED
        BY <1>14, <3>1, <3>2, <4>2, <4>3 DEF atWork
    <3>3. CASE kind(y) # "launch"
      <4>1. (\E m \in Launchers : opEntry'[m] = y) <=> (\E m \in Launchers : opEntry[m] = y)
        BY <1>5, <3>1
      <4> QED
        BY <3>1, <3>3, <4>1, ProgramStays DEF atWork
    <3> QED
      BY <3>2, <3>3
  <2>2. ASSUME NEW y \in Events
        PROVE  \E k \in {0, 1} : /\ begunOf(y)' = begunOf(y) + k
                                 /\ valueMap'[doneOf(y)] = valueMap[doneOf(y)] + k
    <3>1. begunOf(y)' = begunOf(y) /\ begunOf(y) \in Nat /\ valueMap[doneOf(y)] \in Nat
      BY CountedFacts, CountsType DEF sameBegun, TypeOK, CountTypeOK
    <3>2. begunOf(y)' = begunOf(y) + 0 /\ valueMap'[doneOf(y)] = valueMap[doneOf(y)] + 0
      BY <3>1
    <3> QED
      BY <3>2
  <2> QED
    BY <1>1, <2>1, <2>2, SignalledNow
<1>17. OrderAt(r2, c2, depth2, at2)'
  BY <1>2
<1> QED
  BY <1>10, <1>11, <1>12, <1>13, <1>15, <1>16, <1>17 DEF Tracks

(* Only the counts of control operations change, if any.                    *)
LEMMA TracksStay ==
  ASSUME TypeOK, NEW r, NEW c, NEW depth, NEW at, Tracks(r, c, depth, at), prog' = prog,
         UNCHANGED <<nextIter, opEntry, startTime, endTime, exTimes>>, sameIssued,
         \A y \in Events : /\ begunOf(y)' = begunOf(y)
                           /\ valueMap'[doneOf(y)] = valueMap[doneOf(y)]
  PROVE  Tracks(r, c, depth, at)'
<1>1. /\ OrderAt(r, c, depth, at) /\ Issued(r, c) /\ Awaiting(depth, at)
      /\ Looping(r, c, depth, at) /\ Yields(r) /\ Bodies(r, depth, at) /\ Signalled(depth, at)
  BY DEF Tracks
<1>2. OrderAt(r, c, depth, at)' /\ Looping(r, c, depth, at)'
  BY <1>1, OrderSame, PlacesStay
<1>3. Issued(r, c)'
  <2>1. \A x : awaited(x)' = awaited(x)
    BY ProgramStays DEF awaited, is_started
  <2> QED
    BY <1>1, <2>1, ProgramStays, PlacesStay DEF Issued, sameIssued, once
<1>4. Awaiting(depth, at)'
  BY <1>1, ProgramStays DEF Awaiting, inside, is_started
<1>5. Yields(r)'
  BY <1>1, ProgramStays DEF Yields
<1>6. Bodies(r, depth, at)'
  <2>1. \A b \in Ops : kind(b) = "launch" => b \in Events
    BY DEF Events, EventKinds
  <2> QED
    BY <1>1, <2>1, ProgramStays, PlacesStay DEF Bodies, once
<1>7. Signalled(depth, at)'
  <2>1. \A y \in Events : atWork(depth, at, y)' <=> atWork(depth, at, y)
    BY WorkStays
  <2>2. ASSUME NEW y \in Events
        PROVE  \E k \in {0, 1} : /\ begunOf(y)' = begunOf(y) + k
                                 /\ valueMap'[doneOf(y)] = valueMap[doneOf(y)] + k
    <3>1. begunOf(y) \in Nat /\ valueMap[doneOf(y)] \in Nat
      BY CountedFacts, CountsType DEF TypeOK, CountTypeOK
    <3>2. begunOf(y)' = begunOf(y) + 0 /\ valueMap'[doneOf(y)] = valueMap[doneOf(y)] + 0
      BY <3>1
    <3> QED
      BY <3>2
  <2> QED
    BY <1>1, <2>1, <2>2, SignalledNow
<1> QED
  BY <1>2, <1>3, <1>4, <1>5, <1>6, <1>7 DEF Tracks

-----------------------------------------------------------------------------
(* The return of a launch is on the device of the launch, at the end of it. *)
Returning ==
  \A l \in Launchers : \A o \in Ops : opEntry[l] = o /\ kind(o) = "return" =>
    l # Host /\ nextIter[l] = 0 /\ P.target[blockOf(o)] = l

(* An event that is about to begin has not begun.                           *)
LEMMA AtRest ==
  ASSUME EventInv, Returning, NEW l \in Launchers, opEntry[l] = 0,
         NEW depth, NEW at, NEW o \in Events, P.target[o] = l,
         kind(o) = "launch" => ~ isIn(depth, at, o)
  PROVE  ~ atWork(depth, at, o)
<1>1. 0 \notin Ops /\ o \in Ops
  BY BlockFacts DEF EventInv, Events
<1>2. CASE kind(o) = "launch"
  BY <1>1, <1>2 DEF atWork, returns, Returning
<1>3. CASE kind(o) # "launch"
  BY <1>1, <1>3, OnOwnDevice DEF atWork
<1> QED
  BY <1>2, <1>3

(* A launcher takes an event from its queue.                                *)
LEMMA TracksTake ==
  ASSUME EventInv, Returning, NEW r, NEW c, NEW depth, NEW at, Tracks(r, c, depth, at),
         NEW l \in Launchers, l # Host, opEntry[l] = 0, nextIter[l] = 0,
         NEW o \in Events, P.target[o] = l, prog' = prog,
         nextIter' = IF kind(o) = "launch" THEN [nextIter EXCEPT ![l] = P.first[o]] ELSE nextIter,
         opEntry' = [opEntry EXCEPT ![l] = o], startTime' = [startTime EXCEPT ![l] = 0],
         endTime' = [endTime EXCEPT ![l] = 0], valueMap' = valueMap, exTimes' = exTimes,
         moreBegun(o), sameIssued
  PROVE  \E depth2, at2 : Tracks(r, c, depth2, at2)'
<1>1. /\ OrderAt(r, c, depth, at) /\ Issued(r, c) /\ Awaiting(depth, at)
      /\ Looping(r, c, depth, at) /\ Yields(r) /\ Bodies(r, depth, at) /\ Signalled(depth, at)
      /\ TypeOK /\ o \in Ops /\ kind(o) \in EventKinds /\ kind(o) \notin {"await", "for", "return"}
  BY DEF Tracks, EventInv, Events, EventKinds
<1>2. /\ opEntry \in [Launchers -> Ops \cup {0}] /\ startTime \in [Launchers -> Nat]
      /\ endTime \in [Launchers -> Nat] /\ nextIter \in [Launchers -> Ops \cup {0}]
      /\ 0 \notin Ops /\ r \in [Blocks -> Nat] /\ c \in [Blocks -> Nat]
  BY <1>1, BlockFacts DEF TypeOK, LauncherTypeOK, OrderAt, GhostType
<1>3. /\ opEntry'[l] = o /\ ~ is_started(l)'
      /\ \A m \in Launchers : m # l => /\ opEntry'[m] = opEntry[m] /\ nextIter'[m] = nextIter[m]
                                       /\ (is_started(m)' <=> is_started(m))
  BY <1>1, <1>2 DEF is_started
<1>4. \E depth2, at2 :
        /\ OrderAt(r, c, depth2, at2)'
        /\ \A x : isIn(depth2, at2, x) <=> isIn(depth, at, x) \/ (kind(o) = "launch" /\ x = o)
        /\ kind(o) = "launch" => ~ isIn(depth, at, o)
        /\ \A m \in Launchers : m # l => depth2[m] = depth[m] /\ at2[m] = at[m]
  <2>1. CASE kind(o) = "launch"
    <3>1. PICK depth2 : depth2 = [depth EXCEPT ![l] = 1]
      OBVIOUS
    <3>2. PICK at2 : at2 = [at EXCEPT ![l] = [at[l] EXCEPT ![1] = o]]
      OBVIOUS
    <3>3. OrderAt(r, c, depth2, at2)'
      BY <1>1, <2>1, <3>1, <3>2, WalkEnter
    <3>4. /\ ~ isIn(depth, at, o)
          /\ \A x : isIn(depth2, at2, x) <=> isIn(depth, at, x) \/ x = o
          /\ \A m \in Launchers : m # l => depth2[m] = depth[m] /\ at2[m] = at[m]
      <4>1. BodyEntered(depth, at, depth2, at2, l, o)
        BY <3>1, <3>2 DEF BodyEntered
      <4> QED
        BY <1>1, <2>1, <4>1, Entered
    <3> QED
      BY <2>1, <3>3, <3>4
  <2>2. CASE kind(o) # "launch"
    <3>1. OrderAt(r, c, depth, at)'
      BY <1>1, <2>2, OrderSame
    <3> QED
      BY <2>2, <3>1
  <2> QED
    BY <2>1, <2>2
<1>5. PICK depth2, at2 :
        /\ OrderAt(r, c, depth2, at2)'
        /\ \A x : isIn(depth2, at2, x) <=> isIn(depth, at, x) \/ (kind(o) = "launch" /\ x = o)
        /\ kind(o) = "launch" => ~ isIn(depth, at, o)
        /\ \A m \in Launchers : m # l => depth2[m] = depth[m] /\ at2[m] = at[m]
  BY <1>4
<1>6. Issued(r, c)'
  <2>1. ASSUME NEW x \in Ops, kind(x) = "await"
        PROVE  awaited(x)' = awaited(x)
    <3>1. x # o /\ x # 0
      BY <1>1, <1>2, <2>1
    <3>2. \A m \in Launchers : (opEntry'[m] = x /\ ~ is_started(m)')
                                  <=> (opEntry[m] = x /\ ~ is_started(m))
      BY <1>3, <3>1
    <3> QED
      BY <3>2, ProgramStays DEF awaited
  <2> SUFFICES ASSUME NEW x \in countedOps
               PROVE  walks(r, c, x) = issuedOf(x)' + once(kind(x) = "await" /\ awaited(x)')
    BY IssuedNow
  <2>2. x \in Ops
    BY <1>1, CountedFacts
  <2> QED
    BY <1>1, <2>1, <2>2 DEF Issued, sameIssued, once
<1>7. Awaiting(depth2, at2)'
  <2> SUFFICES ASSUME NEW m \in Launchers, NEW x \in Ops, kind(x) = "await",
                      opEntry'[m] = x, ~ is_started(m)'
               PROVE  /\ inside(depth2, m, depth2[m]) /\ at2[m][depth2[m]] = blockOf(x)
                      /\ nextIter'[m] = P.next[x]
    BY ProgramStays DEF Awaiting, inside
  <2>1. m # l
    BY <1>1, <1>3
  <2> QED
    BY <1>1, <1>3, <1>5, <2>1 DEF Awaiting, inside
<1>8. Looping(r, c, depth2, at2)'
  <2>1. Looping(r, c, depth2, at2)
    BY <1>1, <1>5 DEF Looping, LoopAt
  <2> QED
    BY <2>1, PlacesStay
<1>9. Yields(r)'
  BY <1>1, ProgramStays DEF Yields
<1>10. Bodies(r, depth2, at2)'
  <2>1. ASSUME NEW b \in Ops, kind(b) = "launch", hasDevice(b)
        PROVE  begunOf(b)' = r[b] + once(isIn(depth2, at2, b))
    <3>1. r[b] \in Nat
      BY <1>2 DEF Blocks
    <3>2. begunOf(b) = r[b] + once(isIn(depth, at, b))
      BY <1>1, <2>1 DEF Bodies
    <3>3. begunOf(b)' = begunOf(b) + once(b = o)
      BY <2>1 DEF moreBegun, countedOps, AsyncKinds, EventKinds
    <3> QED
      BY <1>5, <2>1, <3>1, <3>2, <3>3 DEF once
  <2>2. r[0] = 0
    BY <1>1 DEF Bodies
  <2> QED
    BY <2>1, <2>2, ProgramStays, PlacesStay DEF Bodies
<1>11. Signalled(depth2, at2)'
  <2> SUFFICES ASSUME NEW y \in Events
               PROVE  begunOf(y)' = valueMap[doneOf(y)] + once(atWork(depth2, at2, y)')
    BY ProgramStays DEF Signalled, once
  <2>1. /\ begunOf(y) = valueMap[doneOf(y)] + once(atWork(depth, at, y))
        /\ begunOf(y)' = begunOf(y) + once(y = o) /\ valueMap[doneOf(y)] \in Nat
    BY <1>1, CountedFacts DEF Signalled, moreBegun, TypeOK, CountTypeOK
  <2>2. ~ atWork(depth, at, o)
    BY <1>5, AtRest
  <2>3. atWork(depth2, at2, y)' <=> atWork(depth, at, y) \/ y = o
    <3>1. y \in Ops /\ y # 0
      BY <1>2 DEF Events
    <3>2. isIn(depth2, at2, y)' <=> isIn(depth, at, y) \/ (kind(o) = "launch" /\ y = o)
      BY <1>5, PlacesStay
    <3>3. returns(y)' <=> returns(y)
      <4>1. returns(y)' <=> \E m \in Launchers : \E x \in Ops :
                               opEntry'[m] = x /\ kind(x) = "return" /\ blockOf(x) = y
        BY ProgramStays DEF returns
      <4> QED
        BY <1>1, <1>2, <1>3, <4>1 DEF returns
    <3>4. (\E m \in Launchers : opEntry'[m] = y) <=> (\E m \in Launchers : opEntry[m] = y) \/ y = o
      BY <1>3, <3>1
    <3> QED
      BY <3>2, <3>3, <3>4, ProgramStays DEF atWork
  <2> QED
    BY <2>1, <2>2, <2>3 DEF once
<1>12. OrderAt(r, c, depth2, at2)'
  BY <1>5
<1> QED
  BY <1>6, <1>7, <1>8, <1>9, <1>10, <1>11, <1>12 DEF Tracks

(* An operation starts on its launcher.                                     *)
LEMMA TracksStart ==
  ASSUME TypeOK, NEW r, NEW c, NEW depth, NEW at, Tracks(r, c, depth, at), prog' = prog,
         UNCHANGED <<nextIter, opEntry, exTimes, valueMap>>,
         NEW l \in Launchers, NEW o \in Ops, opEntry[l] = o, ~ is_started(l), is_started(l)',
         \A m \in Launchers : m # l => (is_started(m)' <=> is_started(m)),
         IF kind(o) = "await" THEN moreBegun(o) /\ moreIssued(o) ELSE sameBegun /\ sameIssued
  PROVE  Tracks(r, c, depth, at)'
<1>1. /\ OrderAt(r, c, depth, at) /\ Issued(r, c) /\ Awaiting(depth, at)
      /\ Looping(r, c, depth, at) /\ Yields(r) /\ Bodies(r, depth, at) /\ Signalled(depth, at)
  BY DEF Tracks
<1>2. OrderAt(r, c, depth, at)' /\ Looping(r, c, depth, at)'
  BY <1>1, OrderSame, PlacesStay
<1>3. ASSUME NEW m \in Launchers, kind(o) = "await", opEntry[m] = o, ~ is_started(m)
      PROVE  m = l
  <2>1. /\ inside(depth, m, depth[m]) /\ at[m][depth[m]] = blockOf(o)
        /\ inside(depth, l, depth[l]) /\ at[l][depth[l]] = blockOf(o)
    BY <1>1, <1>3 DEF Awaiting
  <2> QED
    BY <1>1, <2>1 DEF OrderAt, Separate, inside
<1>4. \A x \in Ops : kind(x) = "await" => (awaited(x)' <=> awaited(x) /\ x # o)
  <2> SUFFICES ASSUME NEW x \in Ops, kind(x) = "await"
               PROVE  awaited(x)' <=> awaited(x) /\ x # o
    OBVIOUS
  <2>1. awaited(x)' <=> \E m \in Launchers : opEntry[m] = x /\ ~ is_started(m)'
    BY ProgramStays DEF awaited
  <2> QED
    BY <1>3, <2>1 DEF awaited
<1>5. Issued(r, c)'
  <2> SUFFICES ASSUME NEW x \in countedOps
               PROVE  walks(r, c, x) = issuedOf(x)' + once(kind(x) = "await" /\ awaited(x)')
    BY IssuedNow
  <2>1. x \in Ops /\ issuedOf(x) \in Nat
    BY CountedFacts, CountsType
  <2>2. walks(r, c, x) = issuedOf(x) + once(kind(x) = "await" /\ awaited(x))
    BY <1>1 DEF Issued
  <2>3. CASE kind(o) = "await"
    <3>1. issuedOf(x)' = issuedOf(x) + once(x = o)
      BY <2>3 DEF moreIssued
    <3>2. kind(o) = "await" /\ awaited(o)
      BY <2>3 DEF awaited
    <3> QED
      BY <1>4, <2>1, <2>2, <3>1, <3>2 DEF once
  <2>4. CASE kind(o) # "await"
    <3>1. issuedOf(x)' = issuedOf(x)
      BY <2>4 DEF sameIssued
    <3> QED
      BY <1>4, <2>1, <2>2, <2>4, <3>1 DEF once
  <2> QED
    BY <2>3, <2>4
<1>6. Awaiting(depth, at)'
  <2> SUFFICES ASSUME NEW m \in Launchers, NEW x \in Ops, kind(x) = "await",
                      opEntry[m] = x, ~ is_started(m)'
               PROVE  /\ inside(depth, m, depth[m]) /\ at[m][depth[m]] = blockOf(x)
                      /\ nextIter[m] = P.next[x]
    BY ProgramStays DEF Awaiting, inside
  <2> QED
    BY <1>1 DEF Awaiting
<1>7. Yields(r)'
  BY <1>1, ProgramStays DEF Yields
<1>8. \A y \in Events : begunOf(y)' = begunOf(y)
  <2> SUFFICES ASSUME NEW y \in Events PROVE begunOf(y)' = begunOf(y)
    OBVIOUS
  <2>1. y \in countedOps /\ y \in Ops /\ begunOf(y) \in Nat /\ kind(y) # "await"
    BY CountedFacts, CountsType DEF Events, EventKinds
  <2> QED
    BY <2>1 DEF moreBegun, sameBegun, once
<1>9. Bodies(r, depth, at)'
  <2>1. \A b \in Ops : kind(b) = "launch" => b \in Events
    BY DEF Events, EventKinds
  <2> QED
    BY <1>1, <1>8, <2>1, ProgramStays, PlacesStay DEF Bodies, once
<1>10. Signalled(depth, at)'
  <2>1. \A y \in Events : atWork(depth, at, y)' <=> atWork(depth, at, y)
    BY WorkStays
  <2>2. ASSUME NEW y \in Events
        PROVE  \E k \in {0, 1} : /\ begunOf(y)' = begunOf(y) + k
                                 /\ valueMap'[doneOf(y)] = valueMap[doneOf(y)] + k
    <3>1. begunOf(y) \in Nat /\ valueMap[doneOf(y)] \in Nat
      BY CountedFacts, CountsType DEF TypeOK, CountTypeOK
    <3>2. begunOf(y)' = begunOf(y) + 0 /\ valueMap'[doneOf(y)] = valueMap[doneOf(y)] + 0
      BY <1>8, <3>1
    <3> QED
      BY <3>2
  <2> QED
    BY <1>1, <2>1, <2>2, SignalledNow
<1> QED
  BY <1>2, <1>5, <1>6, <1>7, <1>9, <1>10 DEF Tracks

-----------------------------------------------------------------------------
(* A done signal is one operation's.                                        *)
LEMMA DoneOnce ==
  ASSUME TypeOK, NEW o \in Ops, kind(o) \in AsyncKinds,
         NEW vs, vs \in Seq(Values), Len(vs) = 1, vs[1] = P.results[o][1], updateExecution(vs)
  PROVE  /\ valueMap' = once_more(valueMap, doneOf(o))
         /\ \A y \in Events : valueMap'[doneOf(y)] = valueMap[doneOf(y)] + once(y = o)
<1>1. valueId(vs[1]) = doneOf(o) /\ doneOf(o) \in Values /\ valueMap \in [Values -> Nat]
  BY SignalFacts DEF valueId, doneOf, TypeOK, CountTypeOK
<1>2. \A v \in Values : valueMap'[v] = valueMap[v] + once(v = doneOf(o))
  <2> SUFFICES ASSUME NEW v \in Values PROVE valueMap'[v] = valueMap[v] + once(v = doneOf(o))
    OBVIOUS
  <2>1. valueMap'[v] = valueMap[v] + generatedBy(vs, v)
    BY DEF updateExecution
  <2> QED
    BY <1>1, <2>1, OneSignal DEF once
<1>3. valueMap' = once_more(valueMap, doneOf(o))
  <2>1. valueMap' = [v \in Values |-> valueMap'[v]]
    BY DEF updateExecution
  <2>2. \A v \in Values : valueMap'[v] = IF v = doneOf(o) THEN valueMap[v] + 1 ELSE valueMap[v]
    BY <1>1, <1>2 DEF once
  <2> QED
    BY <1>1, <2>1, <2>2 DEF once_more
<1>4. ASSUME NEW y \in Events
      PROVE  valueMap'[doneOf(y)] = valueMap[doneOf(y)] + once(y = o)
  <2>1. y \in Ops /\ kind(y) \in AsyncKinds /\ doneOf(y) \in Values
    BY CountedFacts
  <2>2. doneOf(y) = doneOf(o) <=> y = o
    <3>1. SignalTypeOK(P)
      BY BlockAssumption DEF TypeOK, ControlTypeOK, P
    <3> QED
      BY <2>1, <3>1 DEF SignalTypeOK, Ops, kind, doneOf
  <2> QED
    BY <1>2, <2>1, <2>2 DEF once
<1> QED
  BY <1>3, <1>4

(* The event that the operation on a launcher ends, 0 if none.              *)
endedBy(o) == IF kind(o) = "memcpy" THEN o ELSE IF kind(o) = "return" THEN blockOf(o) ELSE 0

Emptied(l) ==
  /\ prog' = prog /\ nextIter' = nextIter /\ exTimes' = exTimes
  /\ opEntry' = [opEntry EXCEPT ![l] = 0] /\ startTime' = [startTime EXCEPT ![l] = 0]
  /\ endTime' = [endTime EXCEPT ![l] = 0]

LEMMA TracksFinish ==
  ASSUME EventInv, Returning, NEW r, NEW c, NEW depth, NEW at, Tracks(r, c, depth, at),
         sameBegun, sameIssued,
         NEW l \in Launchers, NEW o \in Ops, opEntry[l] = o, is_started(l), Emptied(l),
         NEW x, x = endedBy(o),
         \A y \in Events : valueMap'[doneOf(y)] = valueMap[doneOf(y)] + once(y = x)
  PROVE  /\ Tracks(r, c, depth, at)'
         /\ x # 0 => x \in Events /\ atWork(depth, at, x) /\ ~ isIn(depth, at, x)
                     /\ hasDevice(x)
<1> x = (IF kind(o) = "memcpy" THEN o ELSE IF kind(o) = "return" THEN blockOf(o) ELSE 0)
  BY DEF endedBy
<1> /\ prog' = prog /\ UNCHANGED <<nextIter, exTimes>>
    /\ opEntry' = [opEntry EXCEPT ![l] = 0] /\ startTime' = [startTime EXCEPT ![l] = 0]
    /\ endTime' = [endTime EXCEPT ![l] = 0]
  BY DEF Emptied
<1>1. /\ OrderAt(r, c, depth, at) /\ Issued(r, c) /\ Awaiting(depth, at) /\ TypeOK
      /\ Looping(r, c, depth, at) /\ Yields(r) /\ Bodies(r, depth, at) /\ Signalled(depth, at)
  BY DEF Tracks, EventInv
<1>2. /\ opEntry \in [Launchers -> Ops \cup {0}] /\ startTime \in [Launchers -> Nat]
      /\ endTime \in [Launchers -> Nat] /\ 0 \notin Ops /\ Existing \subseteq Launchers \ {Host}
  BY <1>1, BlockFacts, ExistingType DEF TypeOK, LauncherTypeOK
<1>3. /\ opEntry'[l] = 0
      /\ \A m \in Launchers : m # l => /\ opEntry'[m] = opEntry[m]
                                       /\ (is_started(m)' <=> is_started(m))
  BY <1>2 DEF is_started
<1>4. OrderAt(r, c, depth, at)' /\ Looping(r, c, depth, at)'
  BY <1>1, OrderSame, PlacesStay
<1>5. Issued(r, c)'
  <2>1. \A y \in Ops : awaited(y)' <=> awaited(y)
    <3> SUFFICES ASSUME NEW y \in Ops PROVE awaited(y)' <=> awaited(y)
      OBVIOUS
    <3>1. \A m \in Launchers : (opEntry'[m] = y /\ ~ is_started(m)')
                                  <=> (opEntry[m] = y /\ ~ is_started(m))
      BY <1>2, <1>3
    <3> QED
      BY <3>1, ProgramStays DEF awaited
  <2> SUFFICES ASSUME NEW y \in countedOps
               PROVE  walks(r, c, y) = issuedOf(y)' + once(kind(y) = "await" /\ awaited(y)')
    BY ProgramStays, PlacesStay DEF Issued, once
  <2>2. y \in Ops
    BY <1>1, CountedFacts
  <2> QED
    BY <1>1, <2>1, <2>2 DEF Issued, sameIssued, once
<1>6. Awaiting(depth, at)'
  <2> SUFFICES ASSUME NEW m \in Launchers, NEW y \in Ops, kind(y) = "await",
                      opEntry'[m] = y, ~ is_started(m)'
               PROVE  /\ inside(depth, m, depth[m]) /\ at[m][depth[m]] = blockOf(y)
                      /\ nextIter[m] = P.next[y]
    BY ProgramStays DEF Awaiting, inside
  <2>1. m # l
    BY <1>2, <1>3
  <2> QED
    BY <1>1, <1>3, <2>1 DEF Awaiting
<1>7. Yields(r)'
  BY <1>1, ProgramStays DEF Yields
<1>8. \A y \in Events : begunOf(y)' = begunOf(y)
  BY <1>1, CountedFacts DEF sameBegun
<1>9. Bodies(r, depth, at)'
  <2>1. \A b \in Ops : kind(b) = "launch" => b \in Events
    BY DEF Events, EventKinds
  <2> QED
    BY <1>1, <1>8, <2>1, ProgramStays, PlacesStay DEF Bodies, once
<1>10. x # 0 => x \in Events /\ P.target[x] = l /\ hasDevice(x)
  <2>1. CASE kind(o) = "memcpy"
    <3>1. o \in Events /\ x = o
      BY <2>1 DEF Events, EventKinds
    <3>2. P.target[o] = l /\ l \in Existing
      BY <3>1, OnOwnDevice
    <3> QED
      BY <1>2, <3>1, <3>2 DEF hasDevice
  <2>2. CASE kind(o) = "return"
    <3>1. x \in Events
      BY <1>1, <2>2, BlockFacts DEF Events, EventKinds, Blocks
    <3> QED
      BY <2>2, <3>1 DEF Returning, hasDevice
  <2>3. CASE kind(o) \notin {"memcpy", "return"}
    BY <2>3
  <2> QED
    BY <2>1, <2>2, <2>3
<1>11. x # 0 => ~ isIn(depth, at, x)
  <2> SUFFICES ASSUME x # 0, NEW m \in Launchers, NEW i \in Nat, inside(depth, m, i), at[m][i] = x
               PROVE  FALSE
    BY DEF isIn
  <2>1. kind(x) # "for" /\ x \in Ops
    BY <1>10 DEF Events, EventKinds
  <2>2. i = 1
    BY <1>1, <2>1 DEF OrderAt, Chained
  <2>3. depth[m] # 0 /\ depth[m] \in Nat
    BY <1>1, <2>2 DEF inside, OrderAt, GhostType
  <2>4. kind(x) = "launch" /\ P.target[x] = m
    BY <1>1, <2>2, <2>3 DEF OrderAt, Rooted
  <2>5. m = l /\ kind(o) = "return"
    BY <1>10, <2>4
  <2>6. l # Host /\ nextIter[l] = 0
    BY <2>5 DEF Returning
  <2> QED
    BY <1>1, <2>3, <2>5, <2>6 DEF OrderAt, Placed
<1>12. x # 0 => atWork(depth, at, x)
  <2>1. CASE kind(o) = "memcpy"
    BY <2>1 DEF atWork
  <2>2. CASE kind(o) = "return"
    BY <1>1, <2>2, BlockFacts DEF atWork, returns
  <2>3. CASE kind(o) \notin {"memcpy", "return"}
    BY <2>3
  <2> QED
    BY <2>1, <2>2, <2>3
<1>13. \A y \in Events : atWork(depth, at, y)' <=> atWork(depth, at, y) /\ y # x
  <2> SUFFICES ASSUME NEW y \in Events
               PROVE  atWork(depth, at, y)' <=> atWork(depth, at, y) /\ y # x
    OBVIOUS
  <2>1. y \in Ops /\ y # 0 /\ kind(y) \in EventKinds
    BY <1>2 DEF Events
  <2>2. CASE kind(y) = "launch"
    <3>1. returns(y)' <=> \E m \in Launchers : \E z \in Ops :
                             opEntry'[m] = z /\ kind(z) = "return" /\ blockOf(z) = y
      BY ProgramStays DEF returns
    <3>2. returns(y)' <=> returns(y) /\ y # x
      <4>1. ASSUME returns(y)'
            PROVE  returns(y) /\ y # x
        <5>1. PICK m \in Launchers, z \in Ops :
                opEntry'[m] = z /\ kind(z) = "return" /\ blockOf(z) = y
          BY <3>1, <4>1
        <5>2. m # l /\ opEntry[m] = z
          BY <1>2, <1>3, <5>1
        <5>3. P.target[y] = m
          BY <5>1, <5>2 DEF Returning
        <5> QED
          BY <1>10, <2>1, <5>1, <5>2, <5>3 DEF returns
      <4>2. ASSUME returns(y), y # x
            PROVE  returns(y)'
        <5>1. PICK m \in Launchers, z \in Ops :
                opEntry[m] = z /\ kind(z) = "return" /\ blockOf(z) = y
          BY <4>2 DEF returns
        <5>2. m # l
          BY <4>2, <5>1
        <5> QED
          BY <1>3, <3>1, <5>1, <5>2
      <4> QED
        BY <4>1, <4>2
    <3>3. isIn(depth, at, y)' <=> isIn(depth, at, y)
      BY ProgramStays DEF isIn, inside
    <3>4. y = x => ~ isIn(depth, at, y)
      BY <1>11, <2>1
    <3> QED
      BY <2>2, <3>2, <3>3, <3>4, ProgramStays DEF atWork
  <2>3. CASE kind(y) # "launch"
    <3>1. kind(y) = "memcpy" /\ \A m \in Launchers : opEntry[m] = y => m = P.target[y]
      BY <2>1, <2>3, OnOwnDevice DEF EventKinds
    <3>2. y = x <=> opEntry[l] = y
      <4>1. y = x => kind(o) = "memcpy"
        BY <1>1, <2>1, <2>3, BlockFacts
      <4> QED
        BY <3>1, <4>1
    <3>3. (\E m \in Launchers : opEntry'[m] = y) <=> (\E m \in Launchers : opEntry[m] = y) /\ y # x
      BY <1>3, <2>1, <3>1, <3>2
    <3> QED
      BY <2>3, <3>3, ProgramStays DEF atWork
  <2> QED
    BY <2>2, <2>3
<1>14. Signalled(depth, at)'
  <2> SUFFICES ASSUME NEW y \in Events
               PROVE  begunOf(y)' = valueMap'[doneOf(y)] + once(atWork(depth, at, y)')
    BY ProgramStays DEF Signalled, once
  <2>1. /\ begunOf(y) = valueMap[doneOf(y)] + once(atWork(depth, at, y))
        /\ valueMap[doneOf(y)] \in Nat
    BY <1>1, CountedFacts DEF Signalled, TypeOK, CountTypeOK
  <2>2. valueMap'[doneOf(y)] = valueMap[doneOf(y)] + once(y = x)
    OBVIOUS
  <2>3. y = x => atWork(depth, at, y)
    BY <1>2, <1>12 DEF Events
  <2> QED
    BY <1>8, <1>13, <2>1, <2>2, <2>3 DEF once
<1>15. Tracks(r, c, depth, at)'
  BY <1>4, <1>5, <1>6, <1>7, <1>9, <1>14 DEF Tracks
<1> QED
  BY <1>10, <1>11, <1>12, <1>15

-----------------------------------------------------------------------------
(***************************************************************************)
(* Until a device exists nobody is behind the operation that creates it,   *)
(* and no event waits that is.                                             *)
(***************************************************************************)
notBehind(l, d) == nextIter[l] <= d \/ (l = Host /\ opEntry[Host] = d)

noneQueuedBehind(l, d) == \A i \in DOMAIN eventQueue[l] : eventQueue[l][i] < d

Created ==
  \A d \in Launchers \ {Host} : d \notin Existing =>
    \A l \in Launchers : notBehind(l, d) /\ noneQueuedBehind(l, d)

LEMMA DeviceFacts ==
  ASSUME TypeOK, NEW d \in Launchers \ {Host}
  PROVE  d \in Ops /\ d \in Nat \ {0} /\ kind(d) = "create" /\ blockOf(d) = 0
<1>1. RegionTypeOK(P)
  BY RegionAssumption DEF TypeOK, ControlTypeOK, P
<1>2. d \in Ops /\ kind(d) = "create"
  BY DEF Launchers, kind
<1> QED
  BY <1>1, <1>2, BlockFacts DEF RegionTypeOK, Ops, kind, blockOf

(* A region that begins in front of a device ends in front of it.           *)
LEMMA RegionBefore ==
  ASSUME TypeOK, NEW d \in Launchers \ {Host}, NEW x \in Ops, blockOf(x) # 0, blockOf(x) < d
  PROVE  x < d
<1>1. d \in Ops /\ d \in Nat /\ blockOf(d) = 0 /\ x \in Nat /\ blockOf(x) \in Nat
  BY DeviceFacts, BlockFacts DEF Blocks
<1>2. d < x => blockOf(x) <= blockOf(d)
  BY <1>1, ScopeFacts
<1>3. x # d
  BY <1>1
<1> QED
  BY <1>1, <1>2, <1>3

LEMMA NextBefore ==
  ASSUME TypeOK, NEW d \in Launchers \ {Host}, NEW o \in Ops, o < d
  PROVE  P.next[o] <= d
<1>1. /\ d \in Ops /\ d \in Nat /\ blockOf(d) = 0 /\ o \in Nat /\ blockOf(o) \in Nat
      /\ blockOf(o) < o /\ P.next[o] \in Blocks
      /\ P.next[o] # 0 => /\ P.next[o] \in inBlock(blockOf(o))
                          /\ \A x \in inBlock(blockOf(o)) : o < x <=> P.next[o] <= x
  BY DeviceFacts, BlockFacts, NextFacts DEF Blocks
<1>2. CASE P.next[o] = 0
  BY <1>1, <1>2
<1>3. CASE P.next[o] # 0 /\ blockOf(o) = 0
  BY <1>1, <1>3 DEF inBlock
<1>4. CASE P.next[o] # 0 /\ blockOf(o) # 0
  <2>1. P.next[o] \in Ops /\ blockOf(P.next[o]) = blockOf(o) /\ blockOf(o) < d
    BY <1>1, <1>4 DEF inBlock
  <2>2. P.next[o] < d /\ P.next[o] \in Nat
    BY <1>4, <2>1, RegionBefore, BlockFacts
  <2> QED
    BY <1>1, <2>2
<1> QED
  BY <1>2, <1>3, <1>4

LEMMA FirstBefore ==
  ASSUME TypeOK, NEW d \in Launchers \ {Host}, NEW b \in Ops, b < d
  PROVE  P.first[b] <= d
<1>1. d \in Nat /\ b \in Nat \ {0} /\ b \in Blocks
  BY DeviceFacts, BlockFacts DEF Blocks
<1>2. CASE P.first[b] = 0
  BY <1>1, <1>2
<1>3. CASE P.first[b] # 0
  <2>1. P.first[b] \in Ops /\ blockOf(P.first[b]) = b
    BY <1>1, <1>3, FirstFacts DEF inBlock
  <2>2. P.first[b] < d /\ P.first[b] \in Nat
    BY <1>1, <2>1, RegionBefore, BlockFacts
  <2> QED
    BY <1>1, <2>2
<1> QED
  BY <1>2, <1>3

LEMMA GoesOnBefore ==
  ASSUME TypeOK, NEW d \in Launchers \ {Host}, NEW o \in Ops, o < d
  PROVE  goesOn(o) <= d
<1>1. CASE kind(o) = "for"
  BY <1>1, FirstBefore DEF goesOn
<1>2. CASE kind(o) = "yield"
  <2>1. blockOf(o) \in Ops /\ blockOf(o) < d
    BY <1>2, BlockFacts, DeviceFacts DEF Blocks
  <2>2. goesOn(o) = P.next[blockOf(o)] \/ goesOn(o) = P.first[blockOf(o)]
    BY <1>2 DEF goesOn, afterYield
  <2> QED
    BY <2>1, <2>2, NextBefore, FirstBefore
<1>3. CASE kind(o) \notin {"for", "yield"}
  BY <1>3, NextBefore DEF goesOn
<1> QED
  BY <1>1, <1>2, <1>3

(* One launcher moves, and its queue or another grows or shrinks.           *)
LEMMA CreatedStep ==
  ASSUME TypeOK, Created, prog' = prog, Existing \subseteq Existing', NEW l \in Launchers,
         \A m \in Launchers : m # l => nextIter'[m] = nextIter[m] /\ opEntry'[m] = opEntry[m],
         \A d \in Launchers \ {Host} : d \notin Existing' => notBehind(l, d)',
         \A d \in Launchers \ {Host} : d \notin Existing' =>
           \A m \in Launchers : noneQueuedBehind(m, d)'
  PROVE  Created'
<1> SUFFICES ASSUME NEW d \in Launchers \ {Host}, d \notin Existing', NEW m \in Launchers
             PROVE  notBehind(m, d)' /\ noneQueuedBehind(m, d)'
  BY ProgramStays DEF Created
<1>1. CASE m = l
  BY <1>1
<1>2. CASE m # l
  <2>1. notBehind(m, d)
    BY DEF Created
  <2>2. notBehind(m, d)'
    BY <1>2, <2>1 DEF notBehind
  <2> QED
    BY <2>2
<1> QED
  BY <1>1, <1>2

LEMMA CreatedSame ==
  ASSUME Created, prog' = prog, UNCHANGED <<nextIter, opEntry, eventQueue, order>>
  PROVE  Created'
BY ProgramStays DEF Created, notBehind, noneQueuedBehind, Existing

LEMMA ReturningSame ==
  ASSUME Returning, prog' = prog, UNCHANGED <<nextIter, opEntry>>
  PROVE  Returning'
BY ProgramStays DEF Returning

LEMMA ReturningStep ==
  ASSUME Returning, prog' = prog, NEW l \in Launchers,
         \A m \in Launchers : m # l => nextIter'[m] = nextIter[m] /\ opEntry'[m] = opEntry[m],
         \A o \in Ops : opEntry'[l] = o /\ kind(o) = "return" =>
           l # Host /\ nextIter'[l] = 0 /\ P.target[blockOf(o)] = l
  PROVE  Returning'
BY ProgramStays DEF Returning

(* The operation an idle launcher goes on with is not behind a device that  *)
(* does not exist.                                                          *)
LEMMA IdleNotBehind ==
  ASSUME TypeOK, Created, NEW l \in Launchers, opEntry[l] = 0, NEW o \in Ops, nextIter[l] = o,
         NEW d \in Launchers \ {Host}, d \notin Existing
  PROVE  o <= d /\ (kind(o) # "create" => o < d)
<1>1. d \in Nat \ {0} /\ kind(d) = "create" /\ o \in Nat
  BY DeviceFacts, BlockFacts
<1>2. o <= d
  BY <1>1 DEF Created, notBehind
<1> QED
  BY <1>1, <1>2

(* An event is behind the operation that creates its device.                *)
LEMMA DeviceThere ==
  ASSUME TypeOK, Created, NEW l \in Launchers, opEntry[l] = 0, NEW o \in Ops, nextIter[l] = o,
         kind(o) # "create", hasDevice(o)
  PROVE  P.target[o] \in Existing
<1> SUFFICES ASSUME P.target[o] \notin Existing PROVE FALSE
  OBVIOUS
<1>1. P.target[o] \in Launchers \ {Host} /\ P.target[o] < o
  BY ScopeFacts DEF hasDevice
<1>2. o < P.target[o]
  BY <1>1, IdleNotBehind
<1>3. o \in Nat /\ P.target[o] \in Nat
  BY <1>1, DeviceFacts, BlockFacts
<1> QED
  BY <1>1, <1>2, <1>3
-----------------------------------------------------------------------------
(***************************************************************************)
(* The invariant, and what every step keeps: a step of the simulator is a  *)
(* step of the events or nothing to them.                                  *)
(***************************************************************************)
QueuesFit == \A l \in Launchers : Len(eventQueue[l]) <= EventQueueSize

RefInv ==
  /\ EventInv /\ WalkInv /\ Created /\ Returning /\ QueuesFit
  /\ \E r, c, depth, at : Tracks(r, c, depth, at)

Refined ==
  /\ Created' /\ Returning' /\ QueuesFit'
  /\ \E r, c, depth, at : Tracks(r, c, depth, at)'
  /\ Abstract!Next \/ UNCHANGED Abstract!vars

LEMMA QueuesFitSame ==
  ASSUME QueuesFit, prog' = prog, eventQueue' = eventQueue
  PROVE  QueuesFit'
<1>1. Launchers' = Launchers
  BY Rigid
<1> QED BY <1>1 DEF QueuesFit

(* Calls that find nothing to do, and those that only move the time, link   *)
(* signals or go on with the loop.                                          *)
LEMMA QuietRefined ==
  ASSUME RefInv, prog' = prog,
         UNCHANGED <<order, nextIter, opEntry, startTime, endTime, exTimes, opMap, valueMap,
                     eventQueue, controlQueue>>
  PROVE  Refined
<1>1. sameBegun /\ sameIssued
  BY CountsSame
<1>2. TypeOK
  BY DEF RefInv, EventInv
<1>3. PICK r, c, depth, at : Tracks(r, c, depth, at)
  BY DEF RefInv
<1>4. Tracks(r, c, depth, at)'
  <2>1. \A y \in Events : begunOf(y)' = begunOf(y) /\ valueMap'[doneOf(y)] = valueMap[doneOf(y)]
    BY <1>1, <1>2, CountedFacts DEF sameBegun
  <2> QED BY <1>1, <1>2, <1>3, <2>1, TracksStay
<1>5. UNCHANGED Abstract!vars
  <2>1. graphOf' = graphOf /\ queues' = queues
    BY QueuesSame DEF sameGraph
  <2>2. issuedBy' = issuedBy /\ begunBy' = begunBy
    BY <1>1, <1>2, CountsPrimed
  <2>3. Existing' = Existing
    BY DEF Existing
  <2> QED BY <2>1, <2>2, <2>3, AbstractQuiet
<1>6. Created' /\ Returning' /\ QueuesFit'
  BY CreatedSame, ReturningSame, QueuesFitSame DEF RefInv
<1> QED BY <1>4, <1>5, <1>6 DEF Refined

(* The launcher whose call it is.                                           *)
LEMMA CurrentIdle ==
  ASSUME TypeOK, NEW o \in Ops, SetOpEntry(o)
  PROVE  Current \in Launchers /\ opEntry[Current] = 0 /\ nextIter[Current] = o
BY CurrentType DEF SetOpEntry, is_idle, TypeOK

(* What an asynchronous operation leaves behind it.                         *)
LEMMA PastCreated ==
  ASSUME TypeOK, Created, NEW l \in Launchers, opEntry[l] = 0, NEW o \in Ops, nextIter[l] = o,
         kind(o) # "create", prog' = prog, Existing' = Existing, opEntry' = opEntry,
         nextIter' = [nextIter EXCEPT ![l] = P.next[o]],
         \A d \in Launchers \ {Host} : d \notin Existing =>
           \A m \in Launchers : noneQueuedBehind(m, d)'
  PROVE  Created'
<1>1. nextIter \in [Launchers -> Ops \cup {0}]
  BY DEF TypeOK, LauncherTypeOK
<1>2. \A d \in Launchers \ {Host} : d \notin Existing' => notBehind(l, d)'
  <2> SUFFICES ASSUME NEW d \in Launchers \ {Host}, d \notin Existing PROVE notBehind(l, d)'
    OBVIOUS
  <2>1. o < d
    BY IdleNotBehind
  <2>2. P.next[o] <= d
    BY <2>1, NextBefore
  <2>3. nextIter'[l] = P.next[o]
    BY <1>1
  <2> QED BY <2>2, <2>3 DEF notBehind
<1>3. \A m \in Launchers : m # l => nextIter'[m] = nextIter[m] /\ opEntry'[m] = opEntry[m]
  BY <1>1
<1> QED BY <1>2, <1>3, CreatedStep

LEMMA PastReturning ==
  ASSUME TypeOK, Returning, NEW l \in Launchers, opEntry[l] = 0, prog' = prog,
         opEntry' = opEntry, NEW n, nextIter' = [nextIter EXCEPT ![l] = n]
  PROVE  Returning'
<1>1. \A m \in Launchers : m # l => nextIter'[m] = nextIter[m] /\ opEntry'[m] = opEntry[m]
  BY DEF TypeOK, LauncherTypeOK
<1>2. \A o \in Ops : opEntry'[l] # o
  BY BlockFacts
<1> QED BY <1>1, <1>2, ReturningStep

(* An asynchronous operation that is next is in its turn.                   *)
LEMMA TurnNext ==
  ASSUME TypeOK, NEW r, NEW c, NEW depth, NEW at, Tracks(r, c, depth, at),
         NEW l \in Launchers, opEntry[l] = 0, NEW o \in Ops, nextIter[l] = o,
         kind(o) \in AsyncKinds
  PROVE  o \in countedOps /\ Abstract!InTurn(o)
<1>1. o \in countedOps
  BY DEF countedOps
<1>2. inTurn(r, depth, at, l, o)
  BY <1>1, TurnAt
<1> QED BY <1>1, <1>2, TurnOf

LEMMA PushControlRefined ==
  ASSUME RefInv, TypeOK', NEW o \in Ops, PushControl(o)
  PROVE  Refined
<1> DEFINE l == Current
<1>1. TypeOK /\ EventInv /\ Created /\ Returning /\ QueuesFit
  BY DEF RefInv, EventInv
<1>2. l \in Launchers /\ opEntry[l] = 0 /\ nextIter[l] = o
  BY <1>1, CurrentIdle DEF PushControl
<1> HIDE DEF l
<1>3. /\ prog' = prog /\ nextIter' = [nextIter EXCEPT ![l] = P.next[o]]
      /\ UNCHANGED <<opEntry, startTime, endTime, exTimes, eventQueue, valueMap, order>>
      /\ kind(o) \in ControlKinds /\ kind(o) \in AsyncKinds /\ kind(o) # "create"
  BY DEF PushControl, nothingElse, counts, l, AsyncKinds, ControlKinds
<1>4. sameBegun /\ moreIssued(o)
  BY <1>1, PushControlCounts
<1>5. PICK r, c, depth, at : Tracks(r, c, depth, at)
  BY DEF RefInv
<1>6. o \in countedOps /\ Abstract!InTurn(o)
  BY <1>1, <1>2, <1>3, <1>5, TurnNext
<1>7. \E r2, c2 : Tracks(r2, c2, depth, at)'
  <2>1. \A y \in countedOps : begunOf(y)' = begunOf(y) /\ begunOf(y) \in Nat
    BY <1>1, <1>4, CountsType, CountedFacts DEF sameBegun
  <2>2. \A y \in Events : \E k \in {0, 1} :
          /\ begunOf(y)' = begunOf(y) + k
          /\ valueMap'[doneOf(y)] = valueMap[doneOf(y)] + k
    <3> TAKE y \in Events
    <3>1. begunOf(y)' = begunOf(y) + 0
      BY <1>1, <2>1, CountedFacts
    <3>2. valueMap[doneOf(y)] \in Nat
      BY <1>1, CountedFacts DEF TypeOK, CountTypeOK
    <3>3. valueMap'[doneOf(y)] = valueMap[doneOf(y)] + 0
      BY <1>3, <3>2
    <3> QED BY <3>1, <3>3
  <2>3. \A b \in Ops : kind(b) = "launch" /\ hasDevice(b) => begunOf(b)' = begunOf(b)
    BY <2>1 DEF countedOps, AsyncKinds, EventKinds
  <2> QED BY <1>1, <1>2, <1>3, <1>4, <1>5, <2>2, <2>3, TracksPush
<1>8. Abstract!Next
  <2>1. sameGraph
    BY <1>3, QueuesSame
  <2>2. issuedBy' = once_more(issuedBy, o) /\ begunBy' = begunBy
    BY <1>1, <1>3, <1>4, CountsPrimed
  <2>3. Existing' = Existing
    BY <1>3 DEF Existing
  <2> QED BY <1>1, <1>3, <1>6, <2>1, <2>2, <2>3, AbstractIssueControl
<1>9. Created'
  <2>1. Existing' = Existing
    BY <1>3 DEF Existing
  <2>2. \A d \in Launchers \ {Host} : d \notin Existing =>
           \A m \in Launchers : noneQueuedBehind(m, d)'
    BY <1>1, <1>3 DEF Created, noneQueuedBehind
  <2> QED BY <1>1, <1>2, <1>3, <2>1, <2>2, PastCreated
<1>10. Returning' /\ QueuesFit'
  BY <1>1, <1>2, <1>3, PastReturning, QueuesFitSame
<1> QED BY <1>7, <1>8, <1>9, <1>10 DEF Refined
LEMMA PushEventRefined ==
  ASSUME RefInv, TypeOK', NEW o \in Ops, PushEvent(o)
  PROVE  Refined
<1> DEFINE l == Current
           t == P.target[o]
<1>1. TypeOK /\ EventInv /\ Created /\ Returning /\ QueuesFit
  BY DEF RefInv, EventInv
<1>2. l \in Launchers /\ opEntry[l] = 0 /\ nextIter[l] = o
  BY <1>1, CurrentIdle DEF PushEvent
<1>3. t \in Existing /\ t \in Launchers \ {Host}
  BY <1>1, ExistingType DEF PushEvent, TypeOK
<1>4. /\ eventQueue \in [Launchers -> Seq(Ops)] /\ eventQueue[t] \in Seq(Ops)
      /\ Len(eventQueue[t]) < EventQueueSize
  BY <1>1, <1>3, RunnerAssumption DEF PushEvent, TypeOK, QueueTypeOK, QueuesFit
<1> HIDE DEF l, t
<1>5. /\ prog' = prog /\ nextIter' = [nextIter EXCEPT ![l] = P.next[o]]
      /\ eventQueue' = [eventQueue EXCEPT ![t] = Append(eventQueue[t], o)]
      /\ UNCHANGED <<opEntry, startTime, endTime, exTimes, controlQueue, valueMap, order>>
      /\ kind(o) \in EventKinds /\ kind(o) \in AsyncKinds /\ kind(o) # "create"
      /\ o \in Events
  <2>1. kind(o) \in EventKinds
    BY DEF PushEvent
  <2>2. /\ prog' = prog /\ nextIter' = [nextIter EXCEPT ![l] = P.next[o]]
        /\ UNCHANGED <<opEntry, startTime, endTime, exTimes, controlQueue, valueMap, order>>
    BY DEF PushEvent, nothingElse, counts, l
  <2>3. eventQueue' = [eventQueue EXCEPT ![t] = Append(eventQueue[t], o)]
    BY DEF PushEvent, push, t
  <2> QED BY <2>1, <2>2, <2>3 DEF AsyncKinds, EventKinds, Events
<1>6. sameBegun /\ moreIssued(o)
  BY <1>1, PushEventCounts
<1>7. PICK r, c, depth, at : Tracks(r, c, depth, at)
  BY DEF RefInv
<1>8. o \in countedOps /\ Abstract!InTurn(o)
  BY <1>1, <1>2, <1>5, <1>7, TurnNext
<1>9. \E r2, c2 : Tracks(r2, c2, depth, at)'
  <2>1. \A y \in countedOps : begunOf(y)' = begunOf(y) /\ begunOf(y) \in Nat
    BY <1>1, <1>6, CountsType, CountedFacts DEF sameBegun
  <2>2. \A y \in Events : \E k \in {0, 1} :
          /\ begunOf(y)' = begunOf(y) + k
          /\ valueMap'[doneOf(y)] = valueMap[doneOf(y)] + k
    <3> TAKE y \in Events
    <3>1. begunOf(y)' = begunOf(y) + 0
      BY <1>1, <2>1, CountedFacts
    <3>2. valueMap[doneOf(y)] \in Nat
      BY <1>1, CountedFacts DEF TypeOK, CountTypeOK
    <3>3. valueMap'[doneOf(y)] = valueMap[doneOf(y)] + 0
      BY <1>5, <3>2
    <3> QED BY <3>1, <3>3
  <2>3. \A b \in Ops : kind(b) = "launch" /\ hasDevice(b) => begunOf(b)' = begunOf(b)
    BY <2>1 DEF countedOps, AsyncKinds, EventKinds
  <2> QED BY <1>1, <1>2, <1>5, <1>6, <1>7, <2>2, <2>3, TracksPush
<1>10. Existing' = Existing
  BY <1>5 DEF Existing
<1>11. Abstract!Next
  <2>1. graphOf' = graphOf
    BY <1>5, GraphSame
  <2>2. issuedBy' = once_more(issuedBy, o) /\ begunBy' = begunBy
    BY <1>1, <1>5, <1>6, CountsPrimed
  <2>3. queues' = [queues EXCEPT ![t] = Append(queues[t], o)]
    <3>1. Launchers' = Launchers
      BY <1>5, Rigid
    <3>2. queues' = [d \in Launchers \ {Host} |-> eventQueue'[d]]
      BY <3>1 DEF queues
    <3>3. \A d \in Launchers \ {Host} :
            eventQueue'[d] = IF d = t THEN Append(eventQueue[t], o) ELSE eventQueue[d]
      BY <1>3, <1>4, <1>5
    <3> QED BY <1>3, <3>2, <3>3 DEF queues
  <2> QED BY <1>1, <1>3, <1>4, <1>5, <1>8, <1>10, <2>1, <2>2, <2>3, AbstractIssue DEF t
<1>12. Created'
  <2>1. \A d \in Launchers \ {Host} : d \notin Existing =>
           \A m \in Launchers : noneQueuedBehind(m, d)'
    <3> SUFFICES ASSUME NEW d \in Launchers \ {Host}, d \notin Existing, NEW m \in Launchers,
                        NEW i \in DOMAIN eventQueue'[m]
                 PROVE  eventQueue'[m][i] < d
      BY DEF noneQueuedBehind
    <3>1. \A j \in DOMAIN eventQueue[m] : eventQueue[m][j] < d
      BY <1>1 DEF Created, noneQueuedBehind
    <3>2. o < d
      BY <1>1, <1>2, <1>5, IdleNotBehind
    <3>3. CASE m # t
      BY <1>4, <1>5, <3>1, <3>3
    <3>4. CASE m = t
      <4>1. eventQueue'[m] = Append(eventQueue[t], o)
        BY <1>3, <1>4, <1>5, <3>4
      <4>2. eventQueue'[m][i] = o \/ \E j \in DOMAIN eventQueue[t] : eventQueue'[m][i] = eventQueue[t][j]
        BY <1>4, <4>1
      <4> QED BY <3>1, <3>2, <3>4, <4>2
    <3> QED BY <3>3, <3>4
  <2> QED BY <1>1, <1>2, <1>5, <1>10, <2>1, PastCreated
<1>13. Returning'
  BY <1>1, <1>2, <1>5, PastReturning
<1>14. QueuesFit'
  <2>1. Launchers' = Launchers
    BY <1>5, Rigid
  <2>2. \A m \in Launchers : Len(eventQueue'[m]) <= EventQueueSize
    <3> TAKE m \in Launchers
    <3>1. CASE m # t
      BY <1>1, <1>4, <1>5, <3>1 DEF QueuesFit
    <3>2. CASE m = t
      <4>1. eventQueue'[m] = Append(eventQueue[t], o)
        BY <1>3, <1>4, <1>5, <3>2
      <4>2. Len(eventQueue'[m]) = Len(eventQueue[t]) + 1
        BY <1>4, <4>1
      <4> QED BY <1>4, <4>2, RunnerAssumption
    <3> QED BY <3>1, <3>2
  <2> QED BY <2>1, <2>2 DEF QueuesFit
<1> QED BY <1>9, <1>11, <1>12, <1>13, <1>14 DEF Refined

(* An event without a device is skipped: its one signal is that it is done. *)
LEMMA SkipRefined ==
  ASSUME RefInv, TypeOK', NEW o \in Ops, SkipMissingLauncher(o), Len(P.results[o]) = 1
  PROVE  Refined
<1> DEFINE l == Current
<1>1. TypeOK /\ EventInv /\ Created /\ Returning /\ QueuesFit
  BY DEF RefInv, EventInv
<1>2. l \in Launchers /\ opEntry[l] = 0 /\ nextIter[l] = o
  BY <1>1, CurrentIdle DEF SkipMissingLauncher
<1> HIDE DEF l
<1>3. /\ prog' = prog /\ nextIter' = [nextIter EXCEPT ![l] = P.next[o]]
      /\ UNCHANGED <<opEntry, startTime, endTime, exTimes, eventQueue, controlQueue, order>>
      /\ kind(o) \in EventKinds /\ kind(o) \in AsyncKinds /\ kind(o) # "create"
      /\ o \in Events /\ P.target[o] \notin Existing /\ updateExecution(P.results[o])
  BY DEF SkipMissingLauncher, nothingElse, l, AsyncKinds, EventKinds, Events
<1>4. moreBegun(o) /\ moreIssued(o)
  BY <1>1, SkipCounts
<1>5. ~ hasDevice(o)
  BY <1>1, <1>2, <1>3, DeviceThere
<1>6. PICK r, c, depth, at : Tracks(r, c, depth, at)
  BY DEF RefInv
<1>7. o \in countedOps /\ Abstract!InTurn(o)
  BY <1>1, <1>2, <1>3, <1>6, TurnNext
<1>8. \A y \in Events : valueMap'[doneOf(y)] = valueMap[doneOf(y)] + once(y = o)
  BY <1>1, <1>3, SignalFacts, DoneOnce
<1>9. \E r2, c2 : Tracks(r2, c2, depth, at)'
  <2>1. \A y \in countedOps : begunOf(y)' = begunOf(y) + once(y = o) /\ begunOf(y) \in Nat
    BY <1>1, <1>4, CountsType, CountedFacts DEF moreBegun
  <2>2. \A y \in Events : \E k \in {0, 1} :
          /\ begunOf(y)' = begunOf(y) + k
          /\ valueMap'[doneOf(y)] = valueMap[doneOf(y)] + k
    <3> TAKE y \in Events
    <3>1. y \in countedOps
      BY <1>1, CountedFacts
    <3>2. once(y = o) \in {0, 1}
      BY OneOrNone
    <3>3. /\ begunOf(y)' = begunOf(y) + once(y = o)
          /\ valueMap'[doneOf(y)] = valueMap[doneOf(y)] + once(y = o)
      BY <1>8, <2>1, <3>1
    <3> QED BY <3>2, <3>3
  <2>3. \A b \in Ops : kind(b) = "launch" /\ hasDevice(b) => begunOf(b)' = begunOf(b)
    <3> TAKE b \in Ops
    <3> HAVE kind(b) = "launch" /\ hasDevice(b)
    <3>1. b # o
      BY <1>5
    <3>2. b \in countedOps
      BY DEF countedOps, AsyncKinds, EventKinds
    <3>3. begunOf(b)' = begunOf(b) + 0
      BY <2>1, <3>1, <3>2 DEF once
    <3> QED BY <2>1, <3>2, <3>3
  <2> QED BY <1>1, <1>2, <1>3, <1>4, <1>6, <2>2, <2>3, TracksPush
<1>10. Existing' = Existing
  BY <1>3 DEF Existing
<1>11. Abstract!Next
  <2>1. sameGraph
    BY <1>3, QueuesSame
  <2>2. issuedBy' = once_more(issuedBy, o) /\ begunBy' = once_more(begunBy, o)
    BY <1>1, <1>3, <1>4, CountsPrimed
  <2> QED BY <1>1, <1>3, <1>7, <1>10, <2>1, <2>2, AbstractSkip
<1>12. Created'
  <2>1. \A d \in Launchers \ {Host} : d \notin Existing =>
           \A m \in Launchers : noneQueuedBehind(m, d)'
    BY <1>1, <1>3 DEF Created, noneQueuedBehind
  <2> QED BY <1>1, <1>2, <1>3, <1>10, <2>1, PastCreated
<1>13. Returning' /\ QueuesFit'
  BY <1>1, <1>2, <1>3, PastReturning, QueuesFitSame
<1> QED BY <1>9, <1>11, <1>12, <1>13 DEF Refined
(* A launcher that returns is inside the launch it was sent, nothing else.  *)
LEMMA AtReturn ==
  ASSUME TypeOK, NEW r, NEW c, NEW depth, NEW at, OrderAt(r, c, depth, at),
         NEW l \in Launchers, NEW o \in Ops, nextIter[l] = o, kind(o) = "return"
  PROVE  l # Host /\ P.next[o] = 0 /\ P.target[blockOf(o)] = l
<1>1. /\ blockOf(o) \in Blocks /\ blockOf(o) = at[l][depth[l]]
      /\ inside(depth, l, depth[l])
  BY WhereItIs
<1>2. kind(blockOf(o)) = "launch" /\ blockOf(o) # 0
  BY BlockFacts
<1>3. depth[l] = 1
  <2>1. depth[l] \in Nat
    BY DEF OrderAt, GhostType
  <2>2. depth[l] # 1 => kind(blockOf(o)) = "for"
    BY <1>1, <2>1 DEF OrderAt, Chained
  <2> QED BY <1>2, <2>2
<1>4. P.target[blockOf(o)] = l /\ l # Host
  BY <1>1, <1>2, <1>3 DEF OrderAt, Rooted
<1>5. P.next[o] = 0
  BY NextFacts
<1> QED BY <1>4, <1>5

LEMMA LoadOpRefined ==
  ASSUME RefInv, TypeOK', NEW o \in Ops, LoadOp(o)
  PROVE  Refined
<1>1. TypeOK /\ EventInv /\ Created /\ Returning /\ QueuesFit
  BY DEF RefInv, EventInv
<1> PICK l \in Launchers : l = Current /\ opEntry[l] = 0 /\ nextIter[l] = o
  BY <1>1, CurrentIdle DEF LoadOp
<1>2. l \in Launchers /\ opEntry[l] = 0 /\ nextIter[l] = o
  OBVIOUS
<1>3. /\ nextIter \in [Launchers -> Ops \cup {0}] /\ opEntry \in [Launchers -> Ops \cup {0}]
  BY <1>1 DEF TypeOK, LauncherTypeOK
<1>4. /\ prog' = prog /\ nextIter' = [nextIter EXCEPT ![l] = goesOn(o)]
      /\ opEntry' = [opEntry EXCEPT ![l] = o]
      /\ startTime' = [startTime EXCEPT ![l] = 0] /\ endTime' = [endTime EXCEPT ![l] = 0]
      /\ exTimes' = IF kind(o) = "yield" THEN [exTimes EXCEPT ![o] = @ + 1] ELSE exTimes
      /\ UNCHANGED <<eventQueue, controlQueue, valueMap, order>>
      /\ kind(o) \notin AsyncKinds
  BY DEF LoadOp, nothingElse, counts, goesOn
<1>5. sameBegun /\ sameIssued
  BY <1>1, LoadOpCounts
<1>6. PICK r, c, depth, at : Tracks(r, c, depth, at)
  BY DEF RefInv
<1>7. OrderAt(r, c, depth, at)
  BY <1>6 DEF Tracks
<1>8. \E r2, c2, depth2, at2 : Tracks(r2, c2, depth2, at2)'
  BY <1>1, <1>2, <1>4, <1>5, <1>6, TracksLoad
<1>9. Existing' = Existing
  BY <1>4 DEF Existing
<1>10. UNCHANGED Abstract!vars
  <2>1. graphOf' = graphOf /\ queues' = queues
    BY <1>4, QueuesSame DEF sameGraph
  <2>2. issuedBy' = issuedBy /\ begunBy' = begunBy
    BY <1>1, <1>4, <1>5, CountsPrimed
  <2> QED BY <1>4, <1>9, <2>1, <2>2, AbstractQuiet
<1>11. \A m \in Launchers : m # l => nextIter'[m] = nextIter[m] /\ opEntry'[m] = opEntry[m]
  BY <1>3, <1>4
<1>12. nextIter'[l] = goesOn(o) /\ opEntry'[l] = o
  BY <1>2, <1>3, <1>4
<1>13. Created'
  <2>1. \A d \in Launchers \ {Host} : d \notin Existing' =>
           \A m \in Launchers : noneQueuedBehind(m, d)'
    BY <1>1, <1>4, <1>9 DEF Created, noneQueuedBehind
  <2>2. \A d \in Launchers \ {Host} : d \notin Existing' => notBehind(l, d)'
    <3> SUFFICES ASSUME NEW d \in Launchers \ {Host}, d \notin Existing PROVE notBehind(l, d)'
      BY <1>9
    <3>1. o <= d /\ d \in Nat /\ o \in Nat /\ blockOf(d) = 0
      BY <1>1, <1>2, IdleNotBehind, DeviceFacts, BlockFacts
    <3>2. CASE o < d
      <4>1. goesOn(o) <= d
        BY <1>1, <3>2, GoesOnBefore
      <4> QED BY <1>12, <4>1 DEF notBehind
    <3>3. CASE o = d
      <4>1. l = Host
        BY <1>1, <1>2, <1>7, <3>1, <3>3, WhereItIs
      <4> QED BY <1>12, <3>3, <4>1 DEF notBehind
    <3> QED BY <3>1, <3>2, <3>3
  <2> QED BY <1>1, <1>2, <1>4, <1>9, <1>11, <2>1, <2>2, CreatedStep
<1>14. Returning'
  <2>1. \A x \in Ops : opEntry'[l] = x /\ kind(x) = "return" =>
           l # Host /\ nextIter'[l] = 0 /\ P.target[blockOf(x)] = l
    <3> SUFFICES ASSUME kind(o) = "return"
                 PROVE  l # Host /\ nextIter'[l] = 0 /\ P.target[blockOf(o)] = l
      BY <1>12
    <3>1. goesOn(o) = P.next[o]
      BY DEF goesOn
    <3> QED BY <1>1, <1>2, <1>7, <1>12, <3>1, AtReturn
  <2> QED BY <1>1, <1>2, <1>4, <1>11, <2>1, ReturningStep
<1>15. QueuesFit'
  BY <1>1, <1>4, QueuesFitSame
<1> QED BY <1>8, <1>10, <1>13, <1>14, <1>15 DEF Refined
LEMMA TakeEventRefined ==
  ASSUME RefInv, TypeOK', NEW l \in Launchers, TakeEvent(l)
  PROVE  Refined
<1> DEFINE o == Head(eventQueue[l])
<1>1. TypeOK /\ EventInv /\ Created /\ Returning /\ QueuesFit /\ AllWalked
  BY DEF RefInv, EventInv, WalkInv
<1>2. /\ o \in Ops /\ kind(o) \in EventKinds /\ P.target[o] = l /\ l \in Existing /\ l # Host
      /\ o \in Events
  BY <1>1, TakenFact, ExistingType DEF TypeOK, Events
<1>3. /\ nextIter \in [Launchers -> Ops \cup {0}] /\ opEntry \in [Launchers -> Ops \cup {0}]
      /\ eventQueue \in [Launchers -> Seq(Ops)] /\ eventQueue[l] \in Seq(Ops)
  BY <1>1 DEF TypeOK, LauncherTypeOK, QueueTypeOK
<1>4. opEntry[l] = 0 /\ ~ waits(o) /\ eventQueue[l] # <<>> /\ nextIter[l] = 0
  <2>1. opEntry[l] = 0 /\ ~ waits(o) /\ eventQueue[l] # <<>> /\ phase = "check"
    BY DEF TakeEvent, headReady, is_idle
  <2> QED BY <1>1, <1>2, <2>1 DEF AllWalked, walked, is_idle
<1>5. /\ moreBegun(o) /\ sameIssued /\ ~ acquired(o)
  BY <1>1, TakeEventCounts
<1> HIDE DEF o
<1>6. /\ prog' = prog
      /\ nextIter' = IF kind(o) = "launch" THEN [nextIter EXCEPT ![l] = P.first[o]] ELSE nextIter
      /\ opEntry' = [opEntry EXCEPT ![l] = o]
      /\ startTime' = [startTime EXCEPT ![l] = 0] /\ endTime' = [endTime EXCEPT ![l] = 0]
      /\ eventQueue' = [eventQueue EXCEPT ![l] = Tail(@)]
      /\ UNCHANGED <<controlQueue, valueMap, order, exTimes>>
  BY DEF TakeEvent, counts, o
<1>7. PICK r, c, depth, at : Tracks(r, c, depth, at)
  BY DEF RefInv
<1>8. OrderAt(r, c, depth, at) /\ Signalled(depth, at)
  BY <1>7 DEF Tracks
<1>9. \E depth2, at2 : Tracks(r, c, depth2, at2)'
  BY <1>1, <1>2, <1>4, <1>5, <1>6, <1>7, TracksTake
<1>10. Existing' = Existing
  BY <1>6 DEF Existing
<1>11. \A y \in Events : P.target[y] = l => ~ (begunOf(y) > valueMap[doneOf(y)])
  <2> SUFFICES ASSUME NEW y \in Events, P.target[y] = l
               PROVE  ~ (begunOf(y) > valueMap[doneOf(y)])
    OBVIOUS
  <2>1. kind(y) = "launch" => ~ isIn(depth, at, y)
    <3> HAVE kind(y) = "launch"
    <3>1. y \in Ops
      BY <1>1, EventFacts
    <3> DEFINE depth2 == [depth EXCEPT ![l] = 1]
               at2    == [at EXCEPT ![l] = [at[l] EXCEPT ![1] = y]]
    <3>2. BodyEntered(depth, at, depth2, at2, l, y)
      BY DEF BodyEntered
    <3> HIDE DEF depth2, at2
    <3> QED BY <1>1, <1>2, <1>4, <1>8, <3>1, <3>2, Entered
  <2>2. ~ atWork(depth, at, y)
    BY <1>1, <1>4, <2>1, AtRest
  <2>3. begunOf(y) = valueMap[doneOf(y)] + 0
    BY <1>8, <2>2 DEF Signalled, once
  <2>4. valueMap[doneOf(y)] \in Nat
    BY <1>1, CountedFacts DEF TypeOK, CountTypeOK
  <2> QED BY <2>3, <2>4
<1>12. Abstract!Next
  <2>1. o \in countedOps
    BY <1>1, <1>2, CountedFacts
  <2>2. begunOf(o) = opMap[o]
    BY <1>1, <1>2, <1>5, <2>1, CountsType, CountedFacts DEF once
  <2>3. Abstract!Ready(o)
    BY <1>1, <1>4, <2>1, <2>2, ReadyFrom
  <2>4. graphOf' = graphOf
    BY <1>6, GraphSame
  <2>5. issuedBy' = issuedBy /\ begunBy' = once_more(begunBy, o)
    BY <1>1, <1>5, <1>6, CountsPrimed
  <2>6. queues' = [queues EXCEPT ![l] = Tail(queues[l])]
    <3>1. Launchers' = Launchers
      BY <1>6, Rigid
    <3>2. queues' = [d \in Launchers \ {Host} |-> eventQueue'[d]]
      BY <3>1 DEF queues
    <3>3. \A d \in Launchers \ {Host} :
            eventQueue'[d] = IF d = l THEN Tail(eventQueue[l]) ELSE eventQueue[d]
      BY <1>3, <1>6
    <3> QED BY <1>2, <3>2, <3>3 DEF queues
  <2> QED BY <1>1, <1>2, <1>4, <1>6, <1>10, <1>11, <2>3, <2>4, <2>5, <2>6, AbstractBegin DEF o
<1>13. \A m \in Launchers : m # l => nextIter'[m] = nextIter[m] /\ opEntry'[m] = opEntry[m]
  BY <1>3, <1>6
<1>14. opEntry'[l] = o /\ nextIter'[l] = IF kind(o) = "launch" THEN P.first[o] ELSE 0
  BY <1>3, <1>4, <1>6
<1>15. o = eventQueue[l][1] /\ 1 \in DOMAIN eventQueue[l]
  BY <1>3, <1>4 DEF o
<1>16. Created'
  <2>1. \A d \in Launchers \ {Host} : d \notin Existing' => notBehind(l, d)'
    <3> SUFFICES ASSUME NEW d \in Launchers \ {Host}, d \notin Existing PROVE notBehind(l, d)'
      BY <1>10
    <3>1. o < d /\ d \in Nat
      BY <1>1, <1>15, DeviceFacts DEF Created, noneQueuedBehind
    <3>2. P.first[o] <= d
      BY <1>1, <1>2, <3>1, FirstBefore
    <3> QED BY <1>14, <3>1, <3>2 DEF notBehind
  <2>2. \A d \in Launchers \ {Host} : d \notin Existing' =>
           \A m \in Launchers : noneQueuedBehind(m, d)'
    <3> SUFFICES ASSUME NEW d \in Launchers \ {Host}, d \notin Existing, NEW m \in Launchers,
                        NEW i \in DOMAIN eventQueue'[m]
                 PROVE  eventQueue'[m][i] < d
      BY <1>10 DEF noneQueuedBehind
    <3>1. \A j \in DOMAIN eventQueue[m] : eventQueue[m][j] < d
      BY <1>1 DEF Created, noneQueuedBehind
    <3>2. CASE m # l
      BY <1>3, <1>6, <3>1, <3>2
    <3>3. CASE m = l
      <4>1. eventQueue'[m] = Tail(eventQueue[l])
        BY <1>3, <1>6, <3>3
      <4>2. i + 1 \in DOMAIN eventQueue[l] /\ eventQueue'[m][i] = eventQueue[l][i + 1]
        BY <1>3, <1>4, <4>1
      <4> QED BY <3>1, <3>3, <4>2
    <3> QED BY <3>2, <3>3
  <2> QED BY <1>1, <1>6, <1>10, <1>13, <2>1, <2>2, CreatedStep
<1>17. Returning'
  <2>1. \A x \in Ops : opEntry'[l] = x => kind(x) # "return"
    BY <1>2, <1>14 DEF EventKinds
  <2> QED BY <1>1, <1>6, <1>13, <2>1, ReturningStep
<1>18. QueuesFit'
  <2>1. Launchers' = Launchers
    BY <1>6, Rigid
  <2>2. \A m \in Launchers : Len(eventQueue'[m]) <= EventQueueSize
    <3> TAKE m \in Launchers
    <3>1. CASE m # l
      BY <1>1, <1>3, <1>6, <3>1 DEF QueuesFit
    <3>2. CASE m = l
      <4>1. eventQueue'[m] = Tail(eventQueue[l])
        BY <1>3, <1>6, <3>2
      <4>2. Len(eventQueue'[m]) = Len(eventQueue[l]) - 1
        BY <1>3, <1>4, <4>1
      <4>3. Len(eventQueue[l]) \in Nat /\ Len(eventQueue[l]) <= EventQueueSize
        BY <1>1, <1>3 DEF QueuesFit
      <4> QED BY <4>2, <4>3, RunnerAssumption
    <3> QED BY <3>1, <3>2
  <2> QED BY <2>1, <2>2 DEF QueuesFit
<1> QED BY <1>9, <1>12, <1>16, <1>17, <1>18 DEF Refined

(* A control operation fires.                                               *)
LEMMA FireControlRefined ==
  ASSUME RefInv, TypeOK', NEW i \in DOMAIN controlQueue, FireControl(i)
  PROVE  Refined
<1> DEFINE o == controlQueue[i]
<1>1. TypeOK /\ EventInv /\ Created /\ Returning /\ QueuesFit
  BY DEF RefInv, EventInv
<1>2. /\ moreBegun(o) /\ sameIssued
      /\ o \in Ops /\ kind(o) \in ControlKinds /\ begunOf(o) = opMap[o]
      /\ begunOf(o) < issuedOf(o)
  BY <1>1, FireControlCounts
<1>3. /\ prog' = prog /\ ~ waits(o) /\ updateExecution(P.results[o])
      /\ UNCHANGED <<order, nextIter, opEntry, startTime, endTime, exTimes, eventQueue>>
  BY DEF FireControl, launcher
<1> HIDE DEF o
<1>4. kind(o) \in AsyncKinds /\ kind(o) # "launch" /\ o \in countedOps /\ o \notin Events
  BY <1>2 DEF AsyncKinds, ControlKinds, EventKinds, countedOps, Events
<1>5. /\ valueMap' = once_more(valueMap, doneOf(o))
      /\ \A y \in Events : valueMap'[doneOf(y)] = valueMap[doneOf(y)] + once(y = o)
  BY <1>1, <1>2, <1>3, <1>4, SignalFacts, DoneOnce
<1>6. PICK r, c, depth, at : Tracks(r, c, depth, at)
  BY DEF RefInv
<1>7. Tracks(r, c, depth, at)'
  <2>1. \A y \in Events : /\ begunOf(y)' = begunOf(y)
                          /\ valueMap'[doneOf(y)] = valueMap[doneOf(y)]
    <3> TAKE y \in Events
    <3>1. once(y = o) = 0
      BY <1>4 DEF once
    <3>2. y \in countedOps /\ begunOf(y) \in Nat /\ valueMap[doneOf(y)] \in Nat
      BY <1>1, CountedFacts, CountsType DEF TypeOK, CountTypeOK
    <3>3. begunOf(y)' = begunOf(y) + 0
      BY <1>2, <3>1, <3>2 DEF moreBegun
    <3>4. valueMap'[doneOf(y)] = valueMap[doneOf(y)] + 0
      BY <1>5, <3>1
    <3> QED BY <3>2, <3>3, <3>4
  <2> QED BY <1>1, <1>2, <1>3, <1>6, <2>1, TracksStay
<1>8. Abstract!Next
  <2>1. sameGraph
    BY <1>3, QueuesSame
  <2>2. issuedBy' = issuedBy /\ begunBy' = once_more(begunBy, o)
    BY <1>1, <1>2, <1>3, CountsPrimed
  <2>3. Existing' = Existing
    BY <1>3 DEF Existing
  <2>4. Abstract!Ready(o)
    BY <1>1, <1>2, <1>3, <1>4, ReadyFrom
  <2> QED BY <1>1, <1>2, <1>5, <2>1, <2>2, <2>3, <2>4, AbstractFire
<1>9. Created' /\ Returning' /\ QueuesFit'
  BY <1>1, <1>3, CreatedSame, ReturningSame, QueuesFitSame
<1> QED BY <1>7, <1>8, <1>9 DEF Refined
(* An operation starts on its launcher; an await is passed then.            *)
LEMMA StartOpRefined ==
  ASSUME RefInv, TypeOK', NEW l \in Launchers, StartOp(l)
  PROVE  Refined
<1> DEFINE o == opEntry[l]
<1>1. TypeOK /\ EventInv /\ Created /\ Returning /\ QueuesFit
  BY DEF RefInv, EventInv
<1>2. o \in Ops /\ ~ is_started(l) /\ (kind(o) = "await" => ~ waits(o))
  BY <1>1, EntryType DEF StartOp, mayStart
<1>3. IF kind(o) = "await" THEN moreBegun(o) /\ moreIssued(o) /\ begunOf(o) = opMap[o]
      ELSE sameBegun /\ sameIssued
  BY <1>1, StartOpCounts
<1> HIDE DEF o
<1>4. /\ prog' = prog
      /\ startTime' = [startTime EXCEPT ![l] = time]
      /\ endTime' = [endTime EXCEPT ![l] = modelOp(o)]
      /\ UNCHANGED <<order, nextIter, opEntry, exTimes, eventQueue, valueMap>>
  BY DEF StartOp, nothingElse, o
<1>5. is_started(l)' /\ \A m \in Launchers : m # l => (is_started(m)' <=> is_started(m))
  <2>1. time # 0 /\ modelOp(o) # 0
    BY <1>1, <1>2, ModelOpType DEF TypeOK, ControlTypeOK
  <2>2. startTime \in [Launchers -> Nat] /\ endTime \in [Launchers -> Nat]
    BY <1>1 DEF TypeOK, LauncherTypeOK
  <2> QED BY <1>4, <2>1, <2>2 DEF is_started
<1>6. PICK r, c, depth, at : Tracks(r, c, depth, at)
  BY DEF RefInv
<1>7. Tracks(r, c, depth, at)'
  BY <1>1, <1>2, <1>3, <1>4, <1>5, <1>6, TracksStart DEF o
<1>8. sameGraph /\ Existing' = Existing
  BY <1>4, QueuesSame DEF Existing
<1>9. Abstract!Next \/ UNCHANGED Abstract!vars
  <2>1. CASE kind(o) = "await"
    <3>1. o \in countedOps
      BY <1>1, <1>2, <2>1, CountedFacts
    <3>2. Abstract!InTurn(o)
      BY <1>1, <1>2, <1>6, <2>1, <3>1, TurnOfAwait, TurnOf DEF o
    <3>3. Abstract!Ready(o)
      BY <1>1, <1>2, <1>3, <2>1, <3>1, ReadyFrom
    <3>4. issuedBy' = once_more(issuedBy, o) /\ begunBy' = once_more(begunBy, o)
      BY <1>1, <1>3, <1>4, <2>1, CountsPrimed
    <3> QED BY <1>1, <1>2, <1>4, <1>8, <2>1, <3>2, <3>3, <3>4, AbstractPass
  <2>2. CASE kind(o) # "await"
    <3>1. issuedBy' = issuedBy /\ begunBy' = begunBy
      BY <1>1, <1>3, <1>4, <2>2, CountsPrimed
    <3> QED BY <1>4, <1>8, <3>1, AbstractQuiet DEF sameGraph
  <2> QED BY <2>1, <2>2
<1>10. Created' /\ Returning' /\ QueuesFit'
  BY <1>1, <1>4, CreatedSame, ReturningSame, QueuesFitSame
<1> QED BY <1>7, <1>9, <1>10 DEF Refined

-----------------------------------------------------------------------------
(* A new device is one more in the table, whatever its order.               *)
LEMMA OneMoreDevice ==
  ASSUME TypeOK, NEW o \in Ops, kind(o) = "create", order' \in orders(Existing \cup {o})
  PROVE  Existing' = Existing \cup {o}
<1>1. Existing \cup {o} \subseteq Existing'
  BY OrderType
<1>2. Existing' \subseteq Existing \cup {o}
  <2>1. order' \in [1 .. Cardinality(Existing \cup {o}) -> Existing \cup {o}]
    BY DEF orders
  <2>2. Existing' = { order'[i] : i \in DOMAIN order' }
    BY DEF Existing
  <2>3. \A i \in DOMAIN order' : order'[i] \in Existing \cup {o}
    BY <2>1
  <2> QED BY <2>2, <2>3
<1> QED BY <1>1, <1>2

(* A copy has no body.                                                      *)
LEMMA NoBody ==
  ASSUME TypeOK, NEW o \in Ops, kind(o) = "memcpy", NEW p \in Ops
  PROVE  bodyOf(P, p) # o
<1>1. bodyOf(P, p) = root(blockOf(p)) /\ isBlock(blockOf(p))
  BY RootFacts
<1>2. bodyOf(P, p) = 0 \/ kind(bodyOf(P, p)) = "launch"
  BY <1>1, RootKind
<1>3. o # 0
  BY BlockFacts
<1> QED BY <1>2, <1>3

LEMMA FinishSignals ==
  ASSUME TypeOK, NEW l \in Launchers, FinishOp(l), ~ is_idle(l)
  PROVE  LET o == opEntry[l]
             x == endedBy(o)
         IN  /\ \A y \in Events : valueMap'[doneOf(y)] = valueMap[doneOf(y)] + once(y = x)
             /\ IF x # 0 THEN valueMap' = once_more(valueMap, doneOf(x)) ELSE valueMap' = valueMap
<1> DEFINE o == opEntry[l]
           x == endedBy(o)
<1>1. o \in Ops
  BY EntryType
<1>2. Ops \subseteq Nat \ {0}
  BY BlockFacts
<1>3. CASE x = 0 /\ valueMap' = valueMap
  <2> SUFFICES ASSUME NEW y \in Events
               PROVE  valueMap'[doneOf(y)] = valueMap[doneOf(y)] + once(y = x)
    BY <1>3
  <2>1. y # 0 /\ valueMap[doneOf(y)] \in Nat
    BY <1>2, EventFacts, CountedFacts DEF TypeOK, CountTypeOK
  <2>2. once(y = x) = 0
    BY <1>3, <2>1 DEF once
  <2> QED BY <1>3, <2>1, <2>2
<1>4. CASE kind(o) = "memcpy"
  <2>1. x = o /\ kind(o) \in AsyncKinds /\ kind(o) # "launch"
    BY <1>4 DEF endedBy, AsyncKinds, EventKinds
  <2>2. updateExecution(P.results[o])
    BY <1>4 DEF FinishOp
  <2>3. P.results[o] \in Seq(Values) /\ Len(P.results[o]) = 1
    BY <1>1, <2>1, SignalFacts
  <2>4. /\ valueMap' = once_more(valueMap, doneOf(o))
        /\ \A y \in Events : valueMap'[doneOf(y)] = valueMap[doneOf(y)] + once(y = o)
    BY <1>1, <2>1, <2>2, <2>3, DoneOnce
  <2> QED BY <1>1, <1>2, <2>1, <2>4
<1>5. CASE kind(o) = "return"
  <2> DEFINE b == blockOf(o)
  <2>1. b \in Ops /\ b # 0 /\ kind(b) = "launch" /\ kind(b) \in AsyncKinds
    BY <1>1, <1>5, BlockFacts DEF Blocks, AsyncKinds, EventKinds
  <2>2. x = b
    BY <1>5 DEF endedBy
  <2>3. updateExecution(<<P.results[b][1]>>)
    BY <1>5 DEF FinishOp
  <2>4. P.results[b][1] \in Values
    BY <2>1, SignalFacts
  <2> HIDE DEF b
  <2>5. /\ <<P.results[b][1]>> \in Seq(Values) /\ Len(<<P.results[b][1]>>) = 1
        /\ <<P.results[b][1]>>[1] = P.results[b][1]
    BY <2>4
  <2>6. /\ valueMap' = once_more(valueMap, doneOf(b))
        /\ \A y \in Events : valueMap'[doneOf(y)] = valueMap[doneOf(y)] + once(y = b)
    BY <2>1, <2>3, <2>5, DoneOnce
  <2> QED BY <2>1, <2>2, <2>6
<1>6. CASE kind(o) \notin {"memcpy", "return"}
  <2>1. x = 0
    BY <1>6 DEF endedBy
  <2>2. valueMap' = valueMap
    BY <1>6 DEF FinishOp
  <2> QED BY <1>3, <2>1, <2>2
<1> QED BY <1>4, <1>5, <1>6
(* An operation leaves its launcher: an event ends, a device is there, or   *)
(* nothing that an event could notice has happened.                         *)
LEMMA FinishOpRefined ==
  ASSUME RefInv, TypeOK', NEW l \in Launchers, FinishOp(l)
  PROVE  Refined
<1> DEFINE o == opEntry[l]
           x == endedBy(o)
<1>1. TypeOK /\ EventInv /\ Created /\ Returning /\ QueuesFit
  BY DEF RefInv, EventInv
<1>2. ~ is_idle(l) /\ is_started(l)
  BY DEF FinishOp, finishes
<1>3. o \in Ops /\ o # 0
  BY <1>1, <1>2, EntryType DEF is_idle
<1>4. /\ \A y \in Events : valueMap'[doneOf(y)] = valueMap[doneOf(y)] + once(y = x)
      /\ IF x # 0 THEN valueMap' = once_more(valueMap, doneOf(x)) ELSE valueMap' = valueMap
  BY <1>1, <1>2, FinishSignals
<1>5. sameBegun /\ sameIssued
  BY <1>1, FinishOpCounts
<1>6. IF kind(o) = "create" /\ o \notin Existing
        THEN Existing' = Existing \cup {o} ELSE Existing' = Existing
  <2>1. CASE kind(o) = "create" /\ o \notin Existing
    <3>1. order' \in orders(Existing \cup {o})
      BY <2>1 DEF FinishOp
    <3> QED BY <1>1, <1>3, <2>1, <3>1, OneMoreDevice
  <2>2. CASE ~ (kind(o) = "create" /\ o \notin Existing)
    <3>1. order' = order
      BY <2>2 DEF FinishOp
    <3> QED BY <2>2, <3>1 DEF Existing
  <2> QED BY <2>1, <2>2
<1> HIDE DEF o, x
<1>7. /\ prog' = prog
      /\ opEntry' = [opEntry EXCEPT ![l] = 0] /\ startTime' = [startTime EXCEPT ![l] = 0]
      /\ endTime' = [endTime EXCEPT ![l] = 0]
      /\ UNCHANGED <<nextIter, exTimes, eventQueue>>
  BY DEF FinishOp
<1>8. PICK r, c, depth, at : Tracks(r, c, depth, at)
  BY DEF RefInv
<1>9. /\ Tracks(r, c, depth, at)'
      /\ x # 0 => x \in Events /\ atWork(depth, at, x) /\ ~ isIn(depth, at, x)
                  /\ hasDevice(x)
  <2>1. x = endedBy(o)
    BY DEF x
  <2>2. opEntry[l] = o
    BY DEF o
  <2>3. PICK p, y : p \in Ops /\ p = o /\ y = x
    BY <1>3
  <2>4. \A z \in Events : valueMap'[doneOf(z)] = valueMap[doneOf(z)] + once(z = y)
    BY <1>4, <2>3
  <2>5. opEntry[l] = p /\ y = endedBy(p)
    BY <2>1, <2>2, <2>3
  <2>6. /\ Tracks(r, c, depth, at)'
        /\ y # 0 => y \in Events /\ atWork(depth, at, y) /\ ~ isIn(depth, at, y)
                    /\ hasDevice(y)
    <3>1. Emptied(l)
      BY <1>7 DEF Emptied
    <3>2. p \in Ops
      BY <2>3
    <3>3. opEntry[l] = p /\ y = endedBy(p)
      BY <2>5
    <3> QED BY <1>1, <1>2, <1>5, <1>8, <2>4, <3>1, <3>2, <3>3, TracksFinish
  <2> QED BY <2>3, <2>6
<1>10. sameGraph /\ issuedBy' = issuedBy /\ begunBy' = begunBy
  BY <1>1, <1>5, <1>7, QueuesSame, CountsPrimed
<1>11. Abstract!Next \/ UNCHANGED Abstract!vars
  <2>1. CASE x # 0
    <3>1. kind(o) \in {"memcpy", "return"}
      BY <2>1 DEF x, endedBy
    <3>2. Existing' = Existing
      BY <1>6, <3>1
    <3>3. x \in Events /\ atWork(depth, at, x) /\ ~ isIn(depth, at, x) /\ hasDevice(x)
      BY <1>9, <2>1
    <3>4. begunOf(x) > valueMap[doneOf(x)]
      <4>1. begunOf(x) = valueMap[doneOf(x)] + 1
        BY <1>8, <3>3 DEF Tracks, Signalled, once
      <4>2. valueMap[doneOf(x)] \in Nat
        BY <1>1, <3>3, CountedFacts DEF TypeOK, CountTypeOK
      <4> QED BY <4>1, <4>2
    <3>5. \A p \in countedOps : bodyOf(P, p) = x =>
            issuedOf(p) = begunOf(x) * (runs(blockOf(p)) \div runs(x))
      <4>1. CASE kind(x) = "launch"
        <5>1. x \in Ops
          BY <1>1, <3>3, EventFacts
        <5> QED BY <1>1, <1>8, <3>3, <4>1, <5>1, AllIssued
      <4>2. CASE kind(x) = "memcpy"
        BY <1>1, <3>3, <4>2, EventFacts, CountedFacts, NoBody
      <4> QED BY <3>3, <4>1, <4>2 DEF Events, EventKinds
    <3> QED BY <1>1, <1>4, <1>10, <2>1, <3>2, <3>3, <3>4, <3>5, AbstractEnd
  <2>2. CASE x = 0 /\ kind(o) = "create" /\ o \notin Existing
    <3>1. o \in Launchers \ {Host}
      BY <1>3, <2>2 DEF Launchers, Host, kind
    <3> QED BY <1>1, <1>4, <1>6, <1>10, <2>2, <3>1, AbstractCreate
  <2>3. CASE x = 0 /\ ~ (kind(o) = "create" /\ o \notin Existing)
    BY <1>4, <1>6, <1>10, <2>3, AbstractQuiet DEF sameGraph
  <2> QED BY <2>1, <2>2, <2>3
<1>12. \A m \in Launchers : m # l => nextIter'[m] = nextIter[m] /\ opEntry'[m] = opEntry[m]
  BY <1>1, <1>7 DEF TypeOK, LauncherTypeOK
<1>13. opEntry'[l] = 0 /\ nextIter'[l] = nextIter[l]
  BY <1>1, <1>7 DEF TypeOK, LauncherTypeOK
<1>14. Created'
  <2>1. Existing \subseteq Existing'
    BY <1>6
  <2>2. \A d \in Launchers \ {Host} : d \notin Existing' => notBehind(l, d)'
    <3> SUFFICES ASSUME NEW d \in Launchers \ {Host}, d \notin Existing' PROVE notBehind(l, d)'
      OBVIOUS
    <3>1. notBehind(l, d)
      BY <1>1, <2>1 DEF Created
    <3>2. ~ (l = Host /\ opEntry[Host] = d)
      <4> SUFFICES ASSUME l = Host, opEntry[Host] = d PROVE FALSE
        OBVIOUS
      <4>1. o = d /\ kind(d) = "create"
        BY <1>1, DeviceFacts DEF o
      <4> QED BY <1>6, <2>1, <4>1
    <3> QED BY <1>13, <3>1, <3>2 DEF notBehind
  <2>3. \A d \in Launchers \ {Host} : d \notin Existing' =>
           \A m \in Launchers : noneQueuedBehind(m, d)'
    BY <1>1, <1>7, <2>1 DEF Created, noneQueuedBehind
  <2> QED BY <1>1, <1>7, <1>12, <2>1, <2>2, <2>3, CreatedStep
<1>15. Returning'
  <2>1. \A y \in Ops : opEntry'[l] # y
    BY <1>1, <1>13, BlockFacts
  <2> QED BY <1>1, <1>7, <1>12, <2>1, ReturningStep
<1>16. QueuesFit'
  BY <1>1, <1>7, QueuesFitSame
<1> QED BY <1>9, <1>11, <1>14, <1>15, <1>16 DEF Refined
-----------------------------------------------------------------------------
(* At the start nothing is issued, begun or over.                           *)
LEMMA NothingIssued ==
  ASSUME Init
  PROVE  \A o \in Ops : begunOf(o) = 0 /\ issuedOf(o) = 0 /\ ~ awaited(o)
<1>1. TypeOK /\ Ops \subseteq Nat \ {0}
  BY InitType, BlockFacts
<1>2. /\ opMap = [o \in Ops |-> 0] /\ opEntry = [l \in Launchers |-> 0]
      /\ eventQueue = [l \in Launchers |-> <<>>] /\ controlQueue = <<>>
  BY DEF Init
<1> TAKE o \in Ops
<1>3. ~ awaited(o) /\ ~ acquired(o)
  BY <1>1, <1>2 DEF awaited, acquired
<1>4. begunOf(o) = 0
  BY <1>2, <1>3 DEF begunOf
<1>5. queued(o) = 0
  <2>1. queueOf(o) = <<>>
    BY <1>2 DEF queueOf
  <2>2. queued(o) = times(queueOf(o), o) /\ queueOf(o) \in Seq(Ops)
    BY <1>1, QueuedIs
  <2>3. times(queueOf(o), o) = 0
    <3>1. PICK q \in Seq(Ops) : q = <<>> /\ q = queueOf(o)
      BY <2>1, <2>2
    <3>2. \A i \in DOMAIN q : q[i] # o
      BY <3>1
    <3> QED
      BY <3>1, <3>2, TimesType
  <2> QED BY <2>2, <2>3
<1> QED BY <1>3, <1>4, <1>5 DEF issuedOf

LEMMA TracksInit == Init => \E r, c, depth, at : Tracks(r, c, depth, at)
<1> SUFFICES ASSUME Init PROVE \E r, c, depth, at : Tracks(r, c, depth, at)
  OBVIOUS
<1>1. TypeOK /\ Ops \subseteq Nat \ {0} /\ Ops \subseteq Blocks /\ 0 \in Blocks
  BY InitType, BlockFacts DEF Blocks
<1>2. PICK r : r = [b \in Blocks |-> 0]
  OBVIOUS
<1>3. PICK depth : depth = [l \in Launchers |-> IF l = Host THEN 1 ELSE 0]
  OBVIOUS
<1>4. PICK at : at = [l \in Launchers |-> [i \in Nat |-> 0]]
  OBVIOUS
<1>5. /\ OrderAt(r, r, depth, at)
      /\ \A l \in Launchers : \A i \in Nat : inside(depth, l, i) <=> l = Host /\ i = 1
      /\ \A o \in Ops : walks(r, r, o) = 0
  BY <1>2, <1>3, <1>4, OrderStart
<1>6. \A o \in Ops : begunOf(o) = 0 /\ issuedOf(o) = 0 /\ ~ awaited(o)
  BY NothingIssued
<1>7. /\ opEntry = [l \in Launchers |-> 0] /\ exTimes = [o \in Ops |-> 0]
      /\ valueMap = [v \in Values |-> 0]
  BY DEF Init
<1>8. \A o \in Ops : ~ isIn(depth, at, o)
  BY <1>1, <1>4 DEF isIn
<1>9. \A l \in Launchers : \A o \in Ops : opEntry[l] # o
  BY <1>1, <1>7
<1>10. Issued(r, r)
  <2> SUFFICES ASSUME NEW o \in countedOps
               PROVE  walks(r, r, o) = issuedOf(o) + once(kind(o) = "await" /\ awaited(o))
    BY DEF Issued
  <2>1. o \in Ops
    BY DEF countedOps
  <2>2. once(kind(o) = "await" /\ awaited(o)) = 0
    BY <1>6, <2>1 DEF once
  <2> QED BY <1>5, <1>6, <2>1, <2>2
<1>11. Awaiting(depth, at)
  BY <1>9 DEF Awaiting
<1>12. Looping(r, r, depth, at)
  <2> SUFFICES ASSUME NEW f \in Ops, kind(f) = "for" PROVE LoopAt(r, r, depth, at, f)
    BY DEF Looping
  <2>1. r[f] = 0 /\ walks(r, r, f) = 0 /\ ~ isIn(depth, at, f) /\ P.trip[f] \in Nat
    BY <1>1, <1>2, <1>5, <1>8, RunsFacts
  <2> QED BY <2>1 DEF LoopAt
<1>13. Yields(r)
  <2>1. \A o \in Ops : exTimes[o] = 0 /\ r[blockOf(o)] = 0
    BY <1>1, <1>2, <1>7, BlockFacts
  <2> QED BY <2>1 DEF Yields
<1>14. Bodies(r, depth, at)
  <2>1. r[0] = 0 /\ \A o \in Ops : r[o] = 0 /\ begunOf(o) = 0 /\ once(isIn(depth, at, o)) = 0
    BY <1>1, <1>2, <1>6, <1>8 DEF once
  <2> QED BY <2>1 DEF Bodies
<1>15. Signalled(depth, at)
  <2> SUFFICES ASSUME NEW o \in Events
               PROVE  begunOf(o) = valueMap[doneOf(o)] + once(atWork(depth, at, o))
    BY DEF Signalled
  <2>1. o \in Ops /\ valueMap[doneOf(o)] = 0
    BY <1>1, <1>7, CountedFacts
  <2>2. ~ atWork(depth, at, o)
    BY <1>8, <1>9, <2>1 DEF atWork, returns
  <2>3. once(atWork(depth, at, o)) = 0
    BY <2>2 DEF once
  <2> QED BY <1>6, <2>1, <2>3
<1>16. Tracks(r, r, depth, at)
  BY <1>5, <1>10, <1>11, <1>12, <1>13, <1>14, <1>15 DEF Tracks
<1> QED BY <1>16

LEMMA RefInit == Init => RefInv
<1> SUFFICES ASSUME Init PROVE RefInv
  OBVIOUS
<1>1. TypeOK /\ Ops \subseteq Nat \ {0}
  BY InitType, BlockFacts
<1>2. /\ opEntry = [l \in Launchers |-> 0] /\ eventQueue = [l \in Launchers |-> <<>>]
      /\ nextIter = [l \in Launchers |-> IF l = Host THEN P.first[0] ELSE 0]
  BY DEF Init
<1>3. Created
  <2> SUFFICES ASSUME NEW d \in Launchers \ {Host}, NEW l \in Launchers
               PROVE  notBehind(l, d) /\ noneQueuedBehind(l, d)
    BY DEF Created
  <2>1. d \in inBlock(0) /\ d \in Nat
    BY <1>1, DeviceFacts DEF inBlock
  <2>2. P.first[0] <= d
    BY <1>1, <2>1, FirstFacts DEF Blocks
  <2>3. notBehind(l, d)
    BY <1>2, <2>1, <2>2 DEF notBehind
  <2>4. noneQueuedBehind(l, d)
    BY <1>2 DEF noneQueuedBehind
  <2> QED BY <2>3, <2>4
<1>4. Returning
  BY <1>1, <1>2 DEF Returning
<1>5. QueuesFit
  <2>1. \A l \in Launchers : Len(eventQueue[l]) = 0
    BY <1>2
  <2> QED BY <2>1, RunnerAssumption DEF QueuesFit
<1> QED BY <1>3, <1>4, <1>5, InitInv, WalkInit, TracksInit DEF RefInv

LEMMA AbstractInit == Init => Abstract!Init
<1> SUFFICES ASSUME Init PROVE Abstract!Init
  OBVIOUS
<1>1. TypeOK
  BY InitType
<1>2. /\ order = <<>> /\ eventQueue = [l \in Launchers |-> <<>>]
      /\ valueMap = [v \in Values |-> 0]
  BY DEF Init
<1>3. Existing = {}
  BY <1>2 DEF Existing
<1>4. countedOps = graphOf.events \cup graphOf.controls \cup graphOf.awaits
      /\ countedOps \subseteq Ops
  BY <1>1, CountedFacts
<1>5. \A o \in countedOps : begunOf(o) = 0 /\ begunOf(o) + queued(o) = 0
  BY <1>4, NothingIssued DEF issuedOf
<1>6. graphOf.devices = Launchers \ {Host} /\ DOMAIN graphOf.signalRuns = Values
  <2>1. DOMAIN P.defExs = Values
    BY <1>1, ProgramFacts DEF TypeOK, ControlTypeOK, ProgramTypeOK, Values
  <2> QED BY <1>1, <2>1, GraphFields
<1>7. /\ [o \in countedOps |-> begunOf(o) + queued(o)] = [o \in countedOps |-> 0]
      /\ [o \in countedOps |-> begunOf(o)] = [o \in countedOps |-> 0]
  BY <1>5
<1>8. [d \in Launchers \ {Host} |-> eventQueue[d]] = [d \in Launchers \ {Host} |-> <<>>]
  BY <1>2
<1> QED BY <1>2, <1>3, <1>4, <1>6, <1>7, <1>8
        DEF Abstract!Init, Abstract!Ops, Abstract!Events, Abstract!Controls, Abstract!Awaits, graphOf
-----------------------------------------------------------------------------
LEMMA RefNext ==
  ASSUME RefInv, [Next]_vars, [hostStalls]_vars, [skipsNoResults]_vars
  PROVE  RefInv' /\ (Abstract!Next \/ UNCHANGED Abstract!vars)
<1>1. EventInv' /\ WalkInv'
  BY NextInv, WalkNext DEF RefInv
<1>2. TypeOK'
  BY <1>1 DEF EventInv
<1>3. Refined
  <2> USE <1>2
  <2> DEFINE quiet == /\ prog' = prog
                      /\ UNCHANGED <<order, nextIter, opEntry, startTime, endTime, exTimes,
                                     opMap, valueMap, eventQueue, controlQueue>>
  <2>0. ASSUME quiet PROVE Refined
    BY <2>0, QuietRefined
  <2> HIDE DEF quiet
  <2>1. CASE UNCHANGED vars
    <3>1. quiet
      BY <2>1 DEF vars, control, launcher, counts, quiet
    <3> QED BY <2>0, <3>1
  <2>2. CASE NothingToSet
    <3>1. quiet
      BY <2>2 DEF NothingToSet, nothingElse, launcher, counts, quiet
    <3> QED BY <2>0, <3>1
  <2>3. ASSUME NEW o \in Ops, PushControl(o) PROVE Refined
    BY <2>3, PushControlRefined
  <2>4. ASSUME NEW o \in Ops, SkipMissingLauncher(o), ~ UNCHANGED vars PROVE Refined
    <3>1. Len(P.results[o]) = 1
      BY <2>4 DEF skipsNoResults
    <3> QED BY <2>4, <3>1, SkipRefined
  <2>5. ASSUME NEW o \in Ops, PushEvent(o) PROVE Refined
    BY <2>5, PushEventRefined
  <2>6. ASSUME NEW o \in Ops, StallOnFullQueue(o) PROVE Refined
    <3>1. quiet
      BY <2>6 DEF StallOnFullQueue, nothingElse, launcher, counts, quiet
    <3> QED BY <2>0, <3>1
  <2>7. ASSUME NEW o \in Ops, LoadOp(o) PROVE Refined
    BY <2>7, LoadOpRefined
  <2>8. ASSUME NEW l \in Launchers, TakeEvent(l) PROVE Refined
    BY <2>8, TakeEventRefined
  <2>9. ASSUME NEW l \in Launchers, TakeNoEvent(l) PROVE Refined
    <3>1. quiet
      BY <2>9 DEF TakeNoEvent, launcher, counts, quiet
    <3> QED BY <2>0, <3>1
  <2>10. ASSUME NEW i \in DOMAIN controlQueue, FireControl(i) PROVE Refined
    BY <2>10, FireControlRefined
  <2>11. CASE ControlQueueWaits
    <3>1. quiet
      BY <2>11 DEF ControlQueueWaits, launcher, counts, quiet
    <3> QED BY <2>0, <3>1
  <2>12. CASE EndCondition
    <3>1. quiet
      BY <2>12 DEF EndCondition, launcher, counts, quiet
    <3> QED BY <2>0, <3>1
  <2>13. ASSUME NEW l \in Launchers, NothingToSchedule(l) PROVE Refined
    <3>1. quiet
      BY <2>13 DEF NothingToSchedule, nothingElse, launcher, counts, quiet
    <3> QED BY <2>0, <3>1
  <2>14. ASSUME NEW l \in Launchers, StallRead(l) PROVE Refined
    <3>1. quiet
      BY <2>14 DEF StallRead, nothingElse, launcher, counts, quiet
    <3> QED BY <2>0, <3>1
  <2>15. ASSUME NEW l \in Launchers, StartOp(l) PROVE Refined
    BY <2>15, StartOpRefined
  <2>16. CASE AdvanceTime
    <3>1. quiet
      BY <2>16 DEF AdvanceTime, launcher, counts, quiet
    <3> QED BY <2>0, <3>1
  <2>17. ASSUME NEW l \in Launchers, NothingToFinish(l) PROVE Refined
    <3>1. quiet
      BY <2>17 DEF NothingToFinish, nothingElse, launcher, counts, quiet
    <3> QED BY <2>0, <3>1
  <2>18. ASSUME NEW l \in Launchers, LinkSignal(l) PROVE Refined
    <3>1. quiet
      BY <2>18 DEF LinkSignal, launcher, counts, quiet
    <3> QED BY <2>0, <3>1
  <2>19. ASSUME NEW l \in Launchers, FinishOp(l) PROVE Refined
    BY <2>19, FinishOpRefined
  <2>20. CASE Stopped
    BY <2>1, <2>20 DEF Stopped
  <2> QED
    BY <2>1, <2>2, <2>3, <2>4, <2>5, <2>6, <2>7, <2>8, <2>9, <2>10, <2>11, <2>12, <2>13,
       <2>14, <2>15, <2>16, <2>17, <2>18, <2>19, <2>20 DEF Next
<1>4. RefInv'
  <2>1. Created' /\ Returning' /\ QueuesFit' /\ \E r, c, depth, at : Tracks(r, c, depth, at)'
    BY <1>3 DEF Refined
  <2> QED BY <1>1, <2>1 DEF RefInv
<1> QED BY <1>3, <1>4 DEF Refined

(***************************************************************************)
(* The simulator implements EventSemantics (the property ImplementsEvents):*)
(* for every program, any number of devices, every size of the queues and  *)
(* every order of the hash table, each of its steps is a step of the       *)
(* events or changes nothing an event could notice.  It rests on two rules *)
(* the simulator does not look after and programs keep: only the host is   *)
(* stopped by a full queue (setOpEntry), and no launch that passes signals *)
(* on goes to a processor that does not exist.                             *)
(***************************************************************************)
THEOREM SimulatorImplementsEvents ==
  Spec /\ OnlyHostStalls /\ NoResultsSkipped => ImplementsEvents
<1>1. Init => RefInv /\ Abstract!Init
  BY RefInit, AbstractInit
<1>2. RefInv /\ [Next]_vars /\ [hostStalls]_vars /\ [skipsNoResults]_vars
        => RefInv' /\ [Abstract!Next]_(Abstract!vars)
  BY RefNext
<1> QED
  BY <1>1, <1>2, PTL DEF Spec, OnlyHostStalls, NoResultsSkipped, ImplementsEvents, Abstract!Spec
=============================================================================
