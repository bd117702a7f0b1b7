----------------------------- MODULE EventPasses -----------------------------
(***************************************************************************)
(* The passes that turn loops into events of an array of processors, in    *)
(* the order of test/LoweringPipeline/scripts.sh: match-equeue-structure,  *)
(* mem-copy, merge-memcpy-launch (or memcpy-to-launch), split-launch,      *)
(* add-loop, modify-loop, loop-parallel, parallel-to-equeue and            *)
(* lower-extraction (lib/Transforms).  A pass takes the text of a program  *)
(* (module IdMap) and gives another.                                       *)
(*                                                                         *)
(* A loop of the array is an operation "for" until loop-parallel makes it  *)
(* "parallel"; "splat" makes a vector of a component, of a given shape,    *)
(* and "extract" takes the element at an index, whose coordinates are      *)
(* records [of, plus]: the loop whose induction variable it is, 0 for a    *)
(* constant, and what is added.  Names of components are sequences, so     *)
(* that the name pe_array_0_1 is << "pe_array", 0, 1 >>.                   *)
(*                                                                         *)
(* Left out: constants and affine.apply, which only carry indices and are  *)
(* folded between the passes, constant indices on a path, buffers (they    *)
(* cost what the access says), and results of launches that are            *)
(* components, which stand for the operation that defines them.            *)
(***************************************************************************)
EXTENDS ProgramText

(***************************************************************************)
(* A pass inserts, clones and moves operations.  It works on a sequence of *)
(* labelled operations that refer to each other by label: <<o>> is         *)
(* operation o of the program, <<0>> the block of the function, labels     *)
(* that start with 0 are new operations, the others clones.                *)
(***************************************************************************)
refer(op, label(_)) ==
  [op EXCEPT !.block  = label(@),
             !.handle = label(@),
             !.ins    = [i \in DOMAIN @ |-> [@[i] EXCEPT ![2] = label(@)]],
             !.comps  = [i \in DOMAIN @ |-> [@[i] EXCEPT !.op = label(@)]],
             !.index  = [i \in DOMAIN @ |-> [@[i] EXCEPT !.of = label(@)]]]

labelled(at, op) == [at |-> at, op |-> op]
this(o) == <<o>>
new(n) == <<0, n>>
(* A new operation that has no device. *)
plain(at, op) == labelled(at, [op EXCEPT !.handle = this(0)])

sorted(p, ops) == SelectSeq([o \in OpsOf(p) |-> o], LAMBDA o : o \in ops)

kept(p, ops) ==
  LET places == sorted(p, ops)
  IN  [i \in DOMAIN places |-> labelled(this(places[i]), refer(p[places[i]], this))]

text(items) ==
  LET position(label) ==
        IF label = this(0) THEN 0 ELSE CHOOSE i \in DOMAIN items : items[i].at = label
  IN  [i \in DOMAIN items |-> refer(items[i].op, position)]

(* The operations inside operation w, at any depth. *)
Inside(p, w) ==
  LET in[o \in OpsOf(p)] == p[o].block = w \/ (p[o].block # 0 /\ in[p[o].block])
  IN  {o \in OpsOf(p) : in[o]}

(* A block and the blocks around it, from the inside out. *)
Around(p, b) ==
  LET blocks[o \in {0} \cup OpsOf(p)] == IF o = 0 THEN <<>> ELSE <<o>> \o blocks[p[o].block]
  IN  blocks[b]

nth(p, b, n) == sorted(p, InBlock(p, b))[n]

(* getPermutation: all indices below the bounds, the last one fastest. *)
permutations(bounds) ==
  FoldLeft(LAMBDA lines, n :
             FlattenSeq([i \in DOMAIN lines |-> [j \in 1 .. n |-> Append(lines[i], j - 1)]]),
           << <<>> >>, bounds)

-----------------------------------------------------------------------------
(***************************************************************************)
(* getField: the component at the end of a path from component accel, for  *)
(* an operation in block b.  A step is a record [name, plus]; one through  *)
(* a vector has an offset for each dimension and takes the element at the  *)
(* induction variables of the loops around, the innermost first.           *)
(***************************************************************************)
fieldAt(j) == <<0, j, 1>>
elementAt(j) == <<0, j, 2>>
endOf(path) == IF path[Len(path)].plus = <<>> THEN fieldAt(Len(path)) ELSE elementAt(Len(path))

getField(p, b, accel, path) ==
  LET loops == SelectSeq(Around(p, b), LAMBDA o : p[o].kind = "for")
      from(j) == IF j = 1 THEN this(accel) ELSE endOf(SubSeq(path, 1, j - 1))
      step(j) ==
        << labelled(fieldAt(j), GetComponent(this(b), from(j), path[j].name)) >>
        \o IF path[j].plus = <<>> THEN <<>>
           ELSE << labelled(elementAt(j),
                     Extract(this(b), fieldAt(j),
                             [k \in DOMAIN path[j].plus |->
                                [of |-> this(loops[k]), plus |-> path[j].plus[k]]])) >>
  IN  FlattenSeq([j \in DOMAIN path |-> step(j)])

(***************************************************************************)
(* Operations of a block move into a launch of their own, with a start     *)
(* signal of its own.  Signals of theirs that others use become results of *)
(* the launch.                                                             *)
(***************************************************************************)
moveIntoLaunch(p, moved, device, outer, prefix, at) ==
  LET inner == moved \cup UNION {Inside(p, o) : o \in moved}
      out   == SetToSeq({v \in ValuesOf(p) :
                  /\ v[1] = "res" /\ v[2] \in moved
                  /\ \E u \in OpsOf(p) \ moved : v \in Range(p[u].ins)})
      result(v) == IF v \in Range(out) THEN << "res", new(2), CHOOSE i \in DOMAIN out : out[i] = v >>
                   ELSE << v[1], this(v[2]), v[3] >>
      outside(o) == labelled(this(o), [refer(p[o], this) EXCEPT
                      !.ins = [i \in DOMAIN @ |-> result(p[o].ins[i])]])
      inside(o) == IF o \in moved THEN labelled(this(o), [refer(p[o], this) EXCEPT !.block = new(2)])
                   ELSE outside(o)
      rest == OpsOf(p) \ inner
      before == sorted(p, {o \in rest : o < at})
      behind == sorted(p, {o \in rest : o >= at})
      body   == sorted(p, inner)
  IN  text([i \in DOMAIN before |-> outside(before[i])]
           \o prefix
           \o << plain(new(1), Start(this(outer))),
                 labelled(new(2), LaunchWith(this(outer), device, << "res", new(1), 0 >>,
                                             <<>>, Len(out))) >>
           \o [i \in DOMAIN body |-> inside(body[i])]
           \o << plain(new(3), Return(new(2), [i \in DOMAIN out |->
                                           << out[i][1], this(out[i][2]), out[i][3] >>])) >>
           \o [i \in DOMAIN behind |-> outside(behind[i])])

(* match-equeue-structure: operations from + 1 to `to' of block b go into a *)
(* launch on the component at the end of the path.                          *)
StructureMatching(p, b, from, to, accel, path) ==
  moveIntoLaunch(p, {nth(p, b, n) : n \in from + 1 .. to}, endOf(path), b,
                 getField(p, b, accel, path), nth(p, b, from + 1))

(* split-launch: the first operations of a launch go into one before it, on *)
(* the same processor, which does not wait for its start signal.            *)
SplitLaunch(p, w, at) ==
  moveIntoLaunch(p, {nth(p, w, n) : n \in 1 .. at}, this(p[w].handle), p[w].block, <<>>, w)

(* mem-copy: a copy before operation n + 1 of block b, by the component at  *)
(* the end of the path, which no one waits for.                             *)
MemCopy(p, b, n, accel, path, engine, cycles) ==
  LET at == nth(p, b, n + 1)
  IN  text(kept(p, {o \in OpsOf(p) : o < at})
           \o getField(p, b, accel, path)
           \o << plain(new(1), Start(this(b))),
                 labelled(new(2), Copy(this(b), endOf(path), << "res", new(1), 0 >>, engine, cycles)) >>
           \o kept(p, {o \in OpsOf(p) : o >= at}))

(* merge-memcpy-launch: the copy, which nothing may wait for, becomes reads *)
(* at the start of a launch (one, or none if the launch reads its source    *)
(* already) and a write of the same buffer at its end.                      *)
MergeMemCopyLaunch(p, w, copy, reads, write) ==
  LET first == firstOp(p, w)
      last  == terminator(p, w)
      rest(ops) == kept(p, ops \ {copy})
  IN  text(rest({o \in OpsOf(p) : o < first})
           \o [i \in DOMAIN reads |-> plain(new(i + 1), [reads[i] EXCEPT !.block = this(w)])]
           \o rest({o \in OpsOf(p) : first <= o /\ o < last})
           \o << plain(new(1), [write EXCEPT !.block = this(w)]) >>
           \o rest({o \in OpsOf(p) : last <= o}))

(* memcpy-to-launch: the copy, which nothing may wait for, becomes a launch *)
(* of its own on the DMA engine.                                            *)
MemCopyToLaunch(p, copy, read, write) ==
  text(kept(p, {o \in OpsOf(p) : o < copy})
       \o << labelled(new(1), refer(Launch(p[copy].block, p[copy].handle, p[copy].ins[1]), this)),
             plain(new(2), [read EXCEPT !.block = new(1)]),
             plain(new(3), [write EXCEPT !.block = new(1)]),
             plain(new(4), Return(new(1), <<>>)) >>
       \o kept(p, {o \in OpsOf(p) : o > copy}))

-----------------------------------------------------------------------------
(* add-loop: a loop of n iterations in block b, around the operations of    *)
(* the block from one number to before another (from 0 is from 1, without   *)
(* the one before).                                                         *)
AddLoop(p, b, n, from, to) ==
  LET first == Max({from, 1})
      at    == nth(p, b, first)
      moved == {nth(p, b, i) : i \in first .. first + to - from - 1}
      body  == moved \cup UNION {Inside(p, o) : o \in moved}
      into(item) == IF item.op.block = this(b) THEN [item EXCEPT !.op.block = new(1)] ELSE item
      items == kept(p, body)
  IN  text(kept(p, {o \in OpsOf(p) : o < at})
           \o << plain(new(1), For(this(b), n, <<>>)) >>
           \o [i \in DOMAIN items |-> into(items[i])]
           \o << plain(new(2), Yield(new(1), <<>>)) >>
           \o kept(p, {o \in OpsOf(p) \ body : o >= at}))

(* Loops in the order in which they end. *)
loopsOf(p) ==
  SetToSortSeq({o \in OpsOf(p) : p[o].kind = "for"},
               LAMBDA a, b : terminator(p, a) < terminator(p, b))

(* modify-loop: loops get other bounds, given by their number from 0. *)
ModifyLoop(p, values) ==
  LET loops == loopsOf(p)
  IN  [o \in OpsOf(p) |->
         IF \E i \in DOMAIN values : loops[i + 1] = o
         THEN [p[o] EXCEPT !.ub = values[CHOOSE i \in DOMAIN values : loops[i + 1] = o]]
         ELSE p[o]]

(* loop-parallel: the loops of the numbers given become parallel, counted   *)
(* from the last one to end.                                                *)
MyParallelize(p, indices) ==
  LET loops == Reverse(loopsOf(p))
  IN  [o \in OpsOf(p) |->
         IF \E i \in DOMAIN loops : loops[i] = o /\ i - 1 \in indices
         THEN [p[o] EXCEPT !.kind = "parallel"] ELSE p[o]]

(* Mutant: what was joined is not joined on, and not awaited. *)
joinWithFirst(signals, n) == Res(signals[1], 0)

joined(signals, n) == IF n = 2 THEN Res(signals[1], 0) ELSE Res(new(n - 1), 0)

(***************************************************************************)
(* parallel-to-equeue, for the innermost of parallel loops.  Its body is   *)
(* cloned for every index to the end of the block the outermost loop is    *)
(* in, with the index for the induction variables, and the end of that     *)
(* block awaits all events that are started in it.                         *)
(***************************************************************************)
ParallelToEQueue(p, w) ==
  LET around == Around(p, w)
      nest   == SubSeq(around, 1, Min({i \in DOMAIN around : p[around[i]].kind # "parallel"}) - 1)
      outer  == nest[Len(nest)]
      b      == p[outer].block
      end    == terminator(p, b)
      body   == Inside(p, w) \ {terminator(p, w)}
      gone   == {outer} \cup Inside(p, outer)
      value(line, i) ==
        IF i.of \notin Range(nest) THEN i
        ELSE [of |-> 0, plus |-> i.plus + line[CHOOSE k \in DOMAIN nest : nest[k] = i.of]]
      clone(line, o) ==
        labelled(this(o) \o line,
                 refer([p[o] EXCEPT !.index = [k \in DOMAIN @ |-> value(line, @[k])]],
                       LAMBDA r : IF r = w THEN this(b)
                                  ELSE IF r \in body THEN this(r) \o line ELSE this(r)))
      bounds == [k \in DOMAIN nest |-> getExTimes(p, nest[k])]
      clones(line) == LET inside == sorted(p, body)
                      IN  [i \in DOMAIN inside |-> clone(line, inside[i])]
      lines  == permutations(bounds)
      ops    == kept(p, {o \in OpsOf(p) \ gone : o < end})
                \o FlattenSeq([i \in DOMAIN lines |-> clones(lines[i])])
      begun == SelectSeq(ops, LAMBDA item : item.op.block = this(b) /\
                                             item.op.kind \in {"launch", "memcpy"})
      signals == [i \in DOMAIN begun |-> begun[i].at]
      joins  == [i \in 1 .. Len(signals) - 1 |->
                   plain(new(i + 1),
                     And(this(b), << joined(signals, i + 1), Res(signals[i + 1], 0) >>))]
  IN  text(ops \o joins
           \o << plain(new(1), Await(this(b), << joined(signals, Len(signals) + 1) >>)) >>
           \o kept(p, {o \in OpsOf(p) : o >= end}))

-----------------------------------------------------------------------------
(* What a component is made of. *)
Parts(p, o) ==
  LET parts[x \in {0} \cup OpsOf(p)] ==
        IF x = 0 THEN {}
        ELSE {x} \cup parts[p[x].handle]
                 \cup UNION {parts[p[x].comps[i].op] : i \in DOMAIN p[x].comps}
  IN  parts[o]

(***************************************************************************)
(* SplatOpConversion: each element of the vector becomes a component of    *)
(* its own, which has its index in its name: the first is what the vector  *)
(* was made of, the others are clones of it, that are added to the         *)
(* component with the vector.  Names that are added again change nothing.  *)
(***************************************************************************)
SplatOpConversion(p, splat) ==
  LET user  == CHOOSE u \in OpsOf(p) : \E i \in DOMAIN p[u].comps : p[u].comps[i].op = splat
      field == CHOOSE i \in DOMAIN p[user].comps : p[user].comps[i].op = splat
      parts == Parts(p, p[splat].handle)
      names == permutations(p[splat].shape)
      copy(x, n) == IF n > 1 /\ x \in parts THEN <<x, n>> ELSE this(x)
      dup(x, n) == labelled(copy(x, n), refer(p[x], LAMBDA r : copy(r, n)))
      fields(n) == [i \in DOMAIN p[user].comps |->
                      IF i = field
                      THEN Field(p[user].comps[i].name \o names[n], copy(p[splat].handle, n))
                      ELSE Field(p[user].comps[i].name, this(p[user].comps[i].op))]
      added(n) == labelled(<<user, n>>, AddComponents(this(p[user].block), this(user), fields(n)))
      others   == [n \in 1 .. Len(names) - 1 |-> Len(names) + 1 - n]
      lowered(o) ==
        CASE o = splat -> <<>>
          [] o = user -> << labelled(this(o), [refer(p[o], this) EXCEPT !.comps = fields(1)]) >>
                         \o [i \in DOMAIN others |-> added(others[i])]
          [] o \in parts -> [i \in DOMAIN others |-> dup(o, others[i])] \o kept(p, {o})
          [] OTHER -> kept(p, {o})
  IN  text(FlattenSeq([o \in DOMAIN p |-> lowered(o)]))

(* ExtractOpConversion: an element at constant indices is looked up by its  *)
(* name.  Others stay, until the loops around them are unrolled.            *)
ExtractOpConversion(p) ==
  [o \in OpsOf(p) |->
     IF p[o].kind = "extract" /\ \A k \in DOMAIN p[o].index : p[o].index[k].of = 0
     THEN GetComponent(p[o].block, p[p[o].handle].handle,
                       p[p[o].handle].name \o [k \in DOMAIN p[o].index |-> p[o].index[k].plus])
     ELSE p[o]]

LowerExtraction(p) ==
  LET extracted == ExtractOpConversion(p)
      splats == {o \in OpsOf(extracted) : extracted[o].kind = "splat"}
  IN  FoldLeft(LAMBDA q, n : SplatOpConversion(q, Min({o \in OpsOf(q) : q[o].kind = "splat"})),
               extracted, SetToSeq(splats))
=============================================================================
