-------------------------------- MODULE IdMap --------------------------------
(***************************************************************************)
(* EQueue programs as the simulator reads them, and the tables it builds   *)
(* from a program before it simulates: buildIdMap and buildExMap of        *)
(* lib/EQueue/CommandProcessor.cpp.                                        *)
(*                                                                         *)
(* A program is the sequence of its operations in textual order, so an     *)
(* operation is its position.  A region of the dialect has one block, and  *)
(* a block is named by the operation that owns the region, 0 for the       *)
(* function.  Only what the simulation depends on is kept of an operation: *)
(*   kind, block   what it is and the block it is in                       *)
(*   ins           its operands of signal type (start signal first)        *)
(*   nres, nargs   the signals among its results and region arguments      *)
(*   handle        the operation whose result is the device (or component) *)
(*   name, comps   for component fields: the name asked for, and the named *)
(*                 components as records [name, op]                        *)
(*   lb, ub, step  for scf.for: its constant bounds                        *)
(*   bank, cycles  for memory accesses: the schedule used and its cost     *)
(*   con, vol      for memory accesses: the connection and the bits moved  *)
(*   shape, index  for splat and extract_element: see module EventPasses   *)
(***************************************************************************)
EXTENDS Integers, Sequences, FiniteSetsExt, SequencesExt

Unbanked    == "no bank"
Unconnected == "no connection"
Undefined   == <<"none", 0, 0>>

Res(op, i) == <<"res", op, i>>     \* i-th result, result 0 being the done signal
Arg(op, i) == <<"arg", op, i>>     \* i-th argument of the region of op

Op(kind, block) ==
  [kind |-> kind, block |-> block, ins |-> <<>>, nres |-> 0, nargs |-> 0,
   handle |-> 0, name |-> "", comps |-> <<>>, lb |-> 0, ub |-> 1, step |-> 1,
   bank |-> Unbanked, cycles |-> 0, con |-> Unconnected, vol |-> 0,
   shape |-> <<>>, index |-> <<>>]

-----------------------------------------------------------------------------
OpsOf(p) == DOMAIN p

InBlock(p, b) == { o \in OpsOf(p) : p[o].block = b }

firstOp(p, b) == IF InBlock(p, b) = {} THEN 0 ELSE Min(InBlock(p, b))

nextOp(p, o) ==
  LET after == { x \in InBlock(p, p[o].block) : x > o }
  IN  IF after = {} THEN 0 ELSE Min(after)

terminator(p, b) == Max(InBlock(p, b))

ValuesOf(p) ==
  UNION { { Res(o, i) : i \in 0 .. p[o].nres - 1 } : o \in OpsOf(p) }
    \cup UNION { { Arg(o, i) : i \in 0 .. p[o].nargs - 1 } : o \in OpsOf(p) }

(* getExTimes: the trip count of a loop with constant bounds. *)
getExTimes(p, o) == (p[o].ub - p[o].lb + p[o].step - 1) \div p[o].step

-----------------------------------------------------------------------------
(***************************************************************************)
(* valueIds: a launch argument stands for its operand, a result of a loop  *)
(* or a launch for what the terminator of its body passes, an iteration    *)
(* argument and every other value for itself.                              *)
(***************************************************************************)
valueIds(p) ==
  LET ids[v \in ValuesOf(p)] ==
        LET op == p[v[2]]
            i  == v[3]
            passed == p[terminator(p, v[2])].ins
        IN  CASE v[1] = "arg" /\ op.kind = "launch" -> ids[op.ins[i + 2]]
              [] v[1] = "res" /\ op.kind = "for" -> ids[passed[i + 1]]
              [] v[1] = "res" /\ op.kind = "launch" /\ i > 0 -> ids[passed[i]]
              [] OTHER -> v
  IN  ids

(* iterInitValue: the initial signal of an iteration argument. *)
iterInitValue(p) ==
  LET ids == valueIds(p)
  IN  [v \in ValuesOf(p) |->
         IF v[1] = "arg" /\ p[v[2]].kind = "for"
           THEN ids[p[v[2]].ins[v[3] + 1]]
           ELSE Undefined]

(***************************************************************************)
(* A component field resolves to the component of that name: those of      *)
(* create_comp_field first, then those that add_comp_field operations      *)
(* before the use have added; the first of a name wins.  A field that is   *)
(* not there resolves to the get_comp_field operation itself, which is no  *)
(* launcher.  Whatever its index, an element of a vector is the component  *)
(* the vector was made of (vectorIds).                                     *)
(***************************************************************************)
deviceIds(p) ==
  LET dev[o \in OpsOf(p)] ==
        LET comp   == dev[p[o].handle]
            adders == { a \in OpsOf(p) :
                          a < o /\ p[a].kind = "add_comp" /\ dev[p[a].handle] = comp }
            fields == { <<a, i>> \in ({comp} \cup adders) \X (1 .. Len(p)) :
                          i <= Len(p[a].comps) /\ p[a].comps[i].name = p[o].name }
            first  == CHOOSE f \in fields : \A g \in fields :
                        f[1] < g[1] \/ (f[1] = g[1] /\ f[2] <= g[2])
        IN  IF p[o].kind = "extract" THEN dev[p[comp].handle]
            ELSE IF p[o].kind # "get_comp" \/ fields = {} THEN o
            ELSE dev[p[first[1]].comps[first[2]].op]
  IN  dev

(* blockExs: how often a block runs, the trip counts around it multiplied. *)
blockExs(p) ==
  LET exs[b \in {0} \cup OpsOf(p)] ==
        IF b = 0 THEN 1
        ELSE exs[p[b].block] * (IF p[b].kind = "for" THEN getExTimes(p, b) ELSE 1)
  IN  exs

-----------------------------------------------------------------------------
(***************************************************************************)
(* The tables of a program, as module Runner uses them.  defExs is the     *)
(* count of the block that defines a signal, 1 for a block argument.       *)
(***************************************************************************)
Tables(p) ==
  LET exs == blockExs(p)
      dev == deviceIds(p)
  IN  [id      |-> 0,         \* to tell programs apart
       kind    |-> [o \in OpsOf(p) |-> p[o].kind],
       block   |-> [o \in OpsOf(p) |-> p[o].block],
       first   |-> [b \in {0} \cup OpsOf(p) |-> firstOp(p, b)],
       next    |-> [o \in OpsOf(p) |-> nextOp(p, o)],
       ins     |-> [o \in OpsOf(p) |-> p[o].ins],
       results |-> [o \in OpsOf(p) |-> [i \in 1 .. p[o].nres |-> Res(o, i - 1)]],
       args    |-> [o \in OpsOf(p) |-> [i \in 1 .. p[o].nargs |-> Arg(o, i - 1)]],
       target  |-> [o \in OpsOf(p) |-> IF p[o].handle = 0 THEN 0 ELSE dev[p[o].handle]],
       trip    |-> [o \in OpsOf(p) |-> IF p[o].kind = "for" THEN getExTimes(p, o) ELSE 1],
       bank    |-> [o \in OpsOf(p) |-> p[o].bank],
       cycles  |-> [o \in OpsOf(p) |-> p[o].cycles],
       con     |-> [o \in OpsOf(p) |-> p[o].con],
       vol     |-> [o \in OpsOf(p) |-> p[o].vol],
       valueIds |-> valueIds(p),
       iterInitValue |-> iterInitValue(p),
       blockExs |-> exs,
       defExs  |-> [v \in ValuesOf(p) |->
                      IF v[1] = "res" THEN exs[p[v[2]].block] ELSE 1]]
=============================================================================
