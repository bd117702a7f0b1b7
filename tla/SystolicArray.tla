---------------------------- MODULE SystolicArray ----------------------------
(***************************************************************************)
(* What the generated program for a systolic array does                    *)
(* (example/SystolicArray/01-Generator/SystolicArray.cpp).  One processor  *)
(* controls the array in rounds.  In a read round it launches every PE,    *)
(* which reads its registers; in a write round it launches every PE again, *)
(* which passes what it has read to its neighbours.  Input and weight      *)
(* stationary arrays copy operands into the first column or row by DMA.    *)
(* The controlling processor awaits all launches and copies of a round.    *)
(*                                                                         *)
(* The simulator moves no data, so a value here is where it comes from.    *)
(* An operand is a tag <<b, n>>, the n-th value taken from bank b of the   *)
(* SRAM since the fold began.  An ofmap value is the step in which it was  *)
(* new.  It has no product in it: a launch returns the ofmap as it has     *)
(* read it, and nothing takes what its mac gives (SystolicArray.cpp:187,   *)
(* 620, 937).                                                              *)
(***************************************************************************)
EXTENDS ConvLayer, FiniteSets, Functions

CONSTANTS
  Layers,   (* the layers and arrays to generate for *)
  non       (* no operand *)

ASSUME LayersAssumption == \A L \in Layers : LayerTypeOK(L)
ASSUME NonAssumption == non \notin Nat /\ non \notin Nat \X Nat

VARIABLES
  layer,          (* the layer; never changes                              *)
  v, h,           (* the fold                                              *)
  stage,          (* "load", "compute" or "done"                           *)
  round, t,       (* the round within step t of the stage                  *)
  pending,        (* PEs launched in this round that have not run          *)
  copies,         (* copies started in this round that have not been made  *)
  ibuffer2s, wbuffer2s, obuffer2s,              (* registers of the PEs    *)
  ifmap_flight, filter_flight, ofmap_flight,    (* what launches returned  *)
  bankReads,      (* history: values taken from each SRAM bank             *)
  outputs         (* history: values written to the SRAM by each column    *)

place     == <<layer, v, h, stage, round, t>>
registers == <<ibuffer2s, wbuffer2s, obuffer2s>>
flights   == <<ifmap_flight, filter_flight, ofmap_flight>>
vars      == <<place, pending, copies, registers, flights, bankReads, outputs>>

Array == Places(layer.array_height, layer.array_width)
Banks == 0 .. 2 * (layer.array_height + layer.array_width) - 1
Tags  == Banks \X Nat

rows == IF layer.dataflow = "OS" THEN OSRows(layer) ELSE FoldRows(layer, h)
cols == IF layer.dataflow = "OS" THEN OSCols(layer) ELSE FoldCols(layer, v)
Used == Places(rows, cols)

(* The SRAM banks that feed column c and row r. *)
Col(c) == c
Row(r) == cols + r
fetched(b) == <<b, bankReads[b]>>

TypeOK ==
  /\ layer \in Layers
  /\ v \in Nat /\ h \in Nat /\ t \in Nat
  /\ stage \in {"load", "compute", "done"}
  /\ round \in {"read", "write", "copy"}
  /\ pending \subseteq Used
  /\ copies \subseteq {"col", "row"} \X Nat
  /\ ibuffer2s \in [Array -> Tags \cup {non}]
  /\ wbuffer2s \in [Array -> Tags \cup {non}]
  /\ obuffer2s \in [Array -> Nat]
  /\ ifmap_flight \in [Array -> Tags \cup {non}]
  /\ filter_flight \in [Array -> Tags \cup {non}]
  /\ ofmap_flight \in [Array -> Nat \cup {non}]
  /\ bankReads \in [Banks -> Nat]
  /\ outputs \in [0 .. layer.array_width - 1 -> Nat]

-----------------------------------------------------------------------------
(* A fold starts: an output stationary array computes at once, the others   *)
(* load the operand that stays, whose first step has only copies.           *)
Empty(P) == [p \in P |-> non]

LoadCopies(n) ==
  ({"col"} \X (0 .. cols - 1)) \cup
  IF layer.dataflow = "IS" THEN {<<"row", n>>}
  ELSE IF n = rows - 1 THEN {"row"} \X (0 .. rows - 1) ELSE {}

Init ==
  /\ layer \in Layers
  /\ v = 0 /\ h = 0 /\ t = 0
  /\ stage = IF layer.dataflow = "OS" THEN "compute" ELSE "load"
  /\ round = IF layer.dataflow = "OS" THEN "read" ELSE "copy"
  /\ pending = IF layer.dataflow = "OS" THEN Used ELSE {}
  /\ copies = IF layer.dataflow = "OS" THEN {} ELSE LoadCopies(0)
  /\ ibuffer2s = Empty(Array) /\ wbuffer2s = Empty(Array)
  /\ obuffer2s = [p \in Array |-> 0]
  /\ ifmap_flight = Empty(Array) /\ filter_flight = Empty(Array)
  /\ ofmap_flight = Empty(Array)
  /\ bankReads = [b \in Banks |-> 0]
  /\ outputs = [c \in 0 .. layer.array_width - 1 |-> 0]

In(dataflow, s, rnd) == layer.dataflow = dataflow /\ stage = s /\ round = rnd

Runs(r, c) ==
  /\ <<r, c>> \in pending
  /\ pending' = pending \ {<<r, c>>}
  /\ UNCHANGED <<place, copies>>

(* Mutant: the controlling processor does not await the launches. *)
LaunchesDoneUnawaited == TRUE

LaunchesDone == pending = {}

Output(c) == outputs' = [outputs EXCEPT ![c] = @ + 1]

-----------------------------------------------------------------------------
(* Output stationary.  A PE works from step r + c on, for as many products  *)
(* as the folds that use its row and column have.                           *)
OSActive(L, n, r, c) ==
  LET fv == OSFiltersFold(L)
      fh == OSPixelsFold(L)
      px == px_per_conv(L)
  IN  /\ n >= r + c
      /\ \/ /\ r < last_height(L) /\ c < last_width(L)
            /\ n < r + c + fv * fh * px
         \/ r < last_height(L) /\ n < r + c + (fv - 1) * fh * px
         \/ c < last_width(L) /\ n < r + c + fv * (fh - 1) * px
         \/ n < r + c + (fv - 1) * (fh - 1) * px

(* The first column takes its ifmap and the first row its filter from the   *)
(* SRAM, the others from their registers.  The ofmap is returned as read.   *)
OSReads(r, c) ==
  LET banks == {b \in {Row(r)} : c = 0} \cup {b \in {Col(c)} : r = 0}
  IN  /\ In("OS", "compute", "read")
      /\ Runs(r, c)
      /\ OSActive(layer, t, r, c)
      /\ ifmap_flight' = [ifmap_flight EXCEPT ![<<r, c>>] =
                            IF c = 0 THEN fetched(Row(r)) ELSE ibuffer2s[<<r, c>>]]
      /\ filter_flight' = [filter_flight EXCEPT ![<<r, c>>] =
                            IF r = 0 THEN fetched(Col(c)) ELSE wbuffer2s[<<r, c>>]]
      /\ ofmap_flight' = [ofmap_flight EXCEPT ![<<r, c>>] = obuffer2s[<<r, c>>]]
      /\ bankReads' = [b \in Banks |->
                         IF b \in banks THEN bankReads[b] + 1 ELSE bankReads[b]]
      /\ UNCHANGED <<registers, outputs>>

OSIdles(r, c) ==
  /\ In("OS", "compute", "read")
  /\ Runs(r, c)
  /\ ~OSActive(layer, t, r, c)
  /\ ifmap_flight' = [ifmap_flight EXCEPT ![<<r, c>>] = non]
  /\ filter_flight' = [filter_flight EXCEPT ![<<r, c>>] = non]
  /\ ofmap_flight' = [ofmap_flight EXCEPT ![<<r, c>>] = non]
  /\ UNCHANGED <<registers, bankReads, outputs>>

(* Mutant: an idle PE puts out a result, too. *)
OSStoresAlways(r, c) ==
  IF ~(t >= c + r /\ t + c + r <= total_cycles(layer))
  THEN UNCHANGED <<obuffer2s, outputs>>
  ELSE IF (t - c - r) % px_per_conv(layer) = 0
  THEN obuffer2s' = [obuffer2s EXCEPT ![<<r, c>>] = t + 1] /\ Output(c)
  ELSE /\ obuffer2s' = [obuffer2s EXCEPT ![<<r, c>>] = ofmap_flight[<<r, c>>]]
       /\ UNCHANGED outputs

(* Mutant: the ofmap is put out and kept. *)
OSStoresKeeping(r, c) ==
  IF \/ ofmap_flight[<<r, c>>] = non
     \/ ~(t >= c + r /\ t + c + r <= total_cycles(layer))
  THEN UNCHANGED <<obuffer2s, outputs>>
  ELSE /\ obuffer2s' = [obuffer2s EXCEPT ![<<r, c>>] = ofmap_flight[<<r, c>>]]
       /\ IF (t - c - r) % px_per_conv(layer) = 0 THEN Output(c) ELSE UNCHANGED outputs

(* The ofmap stays in the PE, or is put out and a zero, which the PE works  *)
(* on from the next step, takes its place.                                  *)
OSStores(r, c) ==
  IF \/ ofmap_flight[<<r, c>>] = non
     \/ ~(t >= c + r /\ t + c + r <= total_cycles(layer))
  THEN UNCHANGED <<obuffer2s, outputs>>
  ELSE IF (t - c - r) % px_per_conv(layer) = 0
  THEN obuffer2s' = [obuffer2s EXCEPT ![<<r, c>>] = t + 1] /\ Output(c)
  ELSE /\ obuffer2s' = [obuffer2s EXCEPT ![<<r, c>>] = ofmap_flight[<<r, c>>]]
       /\ UNCHANGED outputs

OSWrites(r, c) ==
  /\ In("OS", "compute", "write")
  /\ Runs(r, c)
  /\ ibuffer2s' = IF c < cols - 1 /\ ifmap_flight[<<r, c>>] # non
                  THEN [ibuffer2s EXCEPT ![<<r, c + 1>>] = ifmap_flight[<<r, c>>]]
                  ELSE ibuffer2s
  /\ wbuffer2s' = IF r < rows - 1 /\ filter_flight[<<r, c>>] # non
                  THEN [wbuffer2s EXCEPT ![<<r + 1, c>>] = filter_flight[<<r, c>>]]
                  ELSE wbuffer2s
  /\ OSStores(r, c)
  /\ UNCHANGED <<flights, bankReads>>

(* The await between the rounds, and the one after them. *)
OSAwaits ==
  /\ layer.dataflow = "OS" /\ stage = "compute" /\ LaunchesDone
  /\ \/ /\ round = "read"
        /\ round' = "write" /\ pending' = Used
        /\ UNCHANGED <<t, stage>>
     \/ /\ round = "write" /\ t + 1 < total_cycles(layer)
        /\ round' = "read" /\ pending' = Used /\ t' = t + 1
        /\ UNCHANGED stage
     \/ /\ round = "write" /\ t + 1 = total_cycles(layer)
        /\ stage' = "done"
        /\ UNCHANGED <<t, round, pending>>
  /\ UNCHANGED <<layer, v, h, copies, registers, flights, bankReads, outputs>>

OSNext == \/ \E p \in pending : \/ OSReads(p[1], p[2])
                                \/ OSIdles(p[1], p[2])
                                \/ OSWrites(p[1], p[2])
          \/ OSAwaits

-----------------------------------------------------------------------------
(***************************************************************************)
(* Input and weight stationary.  Loading, a step moves what stays one row  *)
(* down (from the second step on) and copies the next of it into row 0.    *)
(* Read rounds come before write rounds, copies run beside the launches of *)
(* a read round; an access of a register takes no time and a copy takes    *)
(* some, so a PE has read before the copy of its register is there.        *)
(***************************************************************************)
Copies(kind, n, bank) ==
  /\ <<kind, n>> \in copies
  /\ copies' = copies \ {<<kind, n>>}
  /\ bankReads' = [bankReads EXCEPT ![bank] = @ + 1]
  /\ UNCHANGED <<place, pending, obuffer2s, flights, outputs>>

CopyInto(buffer, r, c, bank) == [buffer EXCEPT ![<<r, c>>] = fetched(bank)]

ISLoads(r, c) ==
  /\ Runs(r, c)
  /\ \/ /\ In("IS", "load", "read")
        /\ ifmap_flight' = [ifmap_flight EXCEPT ![<<r, c>>] = ibuffer2s[<<r, c>>]]
        /\ UNCHANGED ibuffer2s
     \/ /\ In("IS", "load", "write")
        /\ ibuffer2s' = [ibuffer2s EXCEPT ![<<r + 1, c>>] = ifmap_flight[<<r, c>>]]
        /\ UNCHANGED ifmap_flight
  /\ UNCHANGED <<wbuffer2s, obuffer2s, filter_flight, ofmap_flight, bankReads, outputs>>

WSLoads(r, c) ==
  /\ Runs(r, c)
  /\ \/ /\ In("WS", "load", "read")
        /\ filter_flight' = [filter_flight EXCEPT ![<<r, c>>] = wbuffer2s[<<r, c>>]]
        /\ UNCHANGED wbuffer2s
     \/ /\ In("WS", "load", "write")
        /\ wbuffer2s' = [wbuffer2s EXCEPT ![<<r + 1, c>>] = filter_flight[<<r, c>>]]
        /\ UNCHANGED filter_flight
  /\ UNCHANGED <<ibuffer2s, obuffer2s, ifmap_flight, ofmap_flight, bankReads, outputs>>

ISLoadCopies ==
  /\ In("IS", "load", "copy")
  /\ \E n \in 0 .. rows + cols :
       \/ /\ Copies("col", n, Col(n))
          /\ ibuffer2s' = CopyInto(ibuffer2s, 0, n, Col(n)) /\ UNCHANGED wbuffer2s
       \/ /\ Copies("row", n, Row(n))
          /\ wbuffer2s' = CopyInto(wbuffer2s, n, 0, Row(n)) /\ UNCHANGED ibuffer2s

WSLoadCopies ==
  /\ In("WS", "load", "copy")
  /\ \E n \in 0 .. rows + cols :
       \/ /\ Copies("col", n, Col(n))
          /\ wbuffer2s' = CopyInto(wbuffer2s, 0, n, Col(n)) /\ UNCHANGED ibuffer2s
       \/ /\ Copies("row", n, Row(n))
          /\ ibuffer2s' = CopyInto(ibuffer2s, n, 0, Row(n)) /\ UNCHANGED wbuffer2s

(* Computing: a PE reads its registers while the first column gets the next *)
(* of what moves, then passes the ifmap to the right and the ofmap down, or *)
(* out of the last row.  Nothing is written to the registers of row 0: what *)
(* is read there in a step is where an ofmap begins.                        *)
ofmapRead(r, c) == IF r = 0 THEN t ELSE obuffer2s[<<r, c>>]

ReadsPE(r, c) ==
  /\ Runs(r, c)
  /\ ifmap_flight' = [ifmap_flight EXCEPT ![<<r, c>>] = ibuffer2s[<<r, c>>]]
  /\ ofmap_flight' = [ofmap_flight EXCEPT ![<<r, c>>] = ofmapRead(r, c)]
  /\ UNCHANGED <<registers, filter_flight, bankReads, outputs>>

(* Mutants: results are taken as if all rows began at once, or one step short. *)
InWindowEarly(r, c) == t > c + 1 /\ t <= c + moving(layer) + rows
InWindowShort(r, c) == t > c + r + 1 /\ t < c + moving(layer) + rows

InWindow(r, c) == t > c + r + 1 /\ t <= c + moving(layer) + rows

WritesPE(r, c) ==
  /\ Runs(r, c)
  /\ ibuffer2s' = IF c < cols - 1
                  THEN [ibuffer2s EXCEPT ![<<r, c + 1>>] = ifmap_flight[<<r, c>>]]
                  ELSE ibuffer2s
  /\ obuffer2s' = IF r < rows - 1 /\ InWindow(r, c)
                  THEN [obuffer2s EXCEPT ![<<r + 1, c>>] = ofmap_flight[<<r, c>>]]
                  ELSE obuffer2s
  /\ IF r = rows - 1 /\ InWindow(r, c) THEN Output(c) ELSE UNCHANGED outputs
  /\ UNCHANGED <<wbuffer2s, flights, bankReads>>

ISReads(r, c)  == In("IS", "compute", "read") /\ ReadsPE(r, c)
ISWrites(r, c) == In("IS", "compute", "write") /\ WritesPE(r, c)
WSReads(r, c)  == In("WS", "compute", "read") /\ ReadsPE(r, c)
WSWrites(r, c) == In("WS", "compute", "write") /\ WritesPE(r, c)

ISCopies(r) ==
  /\ In("IS", "compute", "read") /\ <<r, 0>> \notin pending
  /\ Copies("row", r, Row(r))
  /\ wbuffer2s' = CopyInto(wbuffer2s, r, 0, Row(r)) /\ UNCHANGED ibuffer2s

(* Mutant: the ifmap is copied into the register of the weights. *)
WSCopiesIntoWeights(r) ==
  /\ In("WS", "compute", "read") /\ <<r, 0>> \notin pending
  /\ Copies("row", r, Row(r))
  /\ wbuffer2s' = CopyInto(wbuffer2s, r, 0, Row(r)) /\ UNCHANGED ibuffer2s

WSCopies(r) ==
  /\ In("WS", "compute", "read") /\ <<r, 0>> \notin pending
  /\ Copies("row", r, Row(r))
  /\ ibuffer2s' = CopyInto(ibuffer2s, r, 0, Row(r)) /\ UNCHANGED wbuffer2s

(***************************************************************************)
(* The controlling processor goes on to the next round when every launch   *)
(* and copy of this one is done.                                           *)
(***************************************************************************)
(* Mutant: the copies end a step too early. *)
RowCopiesShort(n) == IF n < moving(layer) - 2 THEN {"row"} \X (0 .. rows - 1) ELSE {}

(* In each step but the last, the first column gets what it reads next. *)
RowCopies(n) == IF n < moving(layer) - 1 THEN {"row"} \X (0 .. rows - 1) ELSE {}

StartRound(rnd, launched, copied) ==
  round' = rnd /\ pending' = launched /\ copies' = copied

AwaitsLoading ==
  /\ stage = "load"
  /\ \/ /\ round = "read" /\ StartRound("write", Places(rows - 1, cols), {})
        /\ UNCHANGED <<stage, t>>
     \/ /\ round = "write" /\ StartRound("copy", {}, LoadCopies(t))
        /\ UNCHANGED <<stage, t>>
     \/ /\ round = "copy" /\ t < rows - 1
        /\ StartRound("read", Places(rows - 1, cols), {})
        /\ t' = t + 1 /\ UNCHANGED stage
     \/ /\ round = "copy" /\ t = rows - 1
        /\ stage' = "compute" /\ t' = 0
        /\ StartRound("read", Used, RowCopies(0))
  /\ UNCHANGED <<v, h, bankReads>>

AwaitsRows ==
  /\ stage = "compute"
  /\ \/ /\ round = "read" /\ StartRound("write", Used, {})
        /\ UNCHANGED t
     \/ /\ round = "write" /\ t + 1 < moving(layer) + rows + cols
        /\ t' = t + 1
        /\ StartRound("read", Used, RowCopies(t + 1))
  /\ UNCHANGED <<v, h, stage, bankReads>>

(* The next fold of the window, or of the columns; the tags count anew. *)
AwaitsFold ==
  /\ In(layer.dataflow, "compute", "write") /\ t + 1 = moving(layer) + rows + cols
  /\ \/ /\ h + 1 < num_h_fold(layer)
        /\ h' = h + 1 /\ UNCHANGED v
     \/ /\ h + 1 = num_h_fold(layer)
        /\ h' = 0 /\ v' = v + 1
  /\ bankReads' = [b \in Banks |-> 0]
  /\ t' = 0
  /\ IF v' < num_v_fold(layer)
     THEN stage' = "load" /\ StartRound("copy", {}, LoadCopies(0)')
     ELSE stage' = "done" /\ UNCHANGED <<round, pending, copies>>

Awaits ==
  /\ layer.dataflow # "OS" /\ LaunchesDone /\ copies = {}
  /\ UNCHANGED <<layer, registers, flights, outputs>>
  /\ AwaitsLoading \/ AwaitsRows \/ AwaitsFold

StationaryNext ==
  \/ \E p \in pending : \/ ISLoads(p[1], p[2]) \/ WSLoads(p[1], p[2])
                        \/ ISReads(p[1], p[2]) \/ WSReads(p[1], p[2])
                        \/ ISWrites(p[1], p[2]) \/ WSWrites(p[1], p[2])
  \/ \E r \in 0 .. rows - 1 : ISCopies(r) \/ WSCopies(r)
  \/ ISLoadCopies \/ WSLoadCopies
  \/ Awaits

Next == OSNext \/ StationaryNext
Spec == Init /\ [][Next]_vars
-----------------------------------------------------------------------------
(***************************************************************************)
(* Operands that meet in a PE of an output stationary array belong to the  *)
(* same product: the k-th ifmap value of its row and the k-th filter value *)
(* of its column, whatever order the launches of a round run in.           *)
(***************************************************************************)
HasRead(p) == round = "write" \/ p \notin pending

Aligned ==
  layer.dataflow = "OS" =>
    \A r \in 0 .. rows - 1, c \in 0 .. cols - 1 :
      HasRead(<<r, c>>) /\ ifmap_flight[<<r, c>>] # non =>
        /\ ifmap_flight[<<r, c>>] = <<Row(r), t - r - c>>
        /\ filter_flight[<<r, c>>] = <<Col(c), t - r - c>>

(***************************************************************************)
(* A weight stationary array computes a whole fold with the weights it has *)
(* loaded: row r holds the value that was copied into row 0 with r steps   *)
(* of loading to go.                                                       *)
(***************************************************************************)
WeightsStationary ==
  layer.dataflow = "WS" /\ stage = "compute" =>
    \A p \in Used : wbuffer2s[p] = <<Col(p[2]), rows - 1 - p[1]>>

(***************************************************************************)
(* An input stationary array keeps the ifmap values it has loaded: "every  *)
(* ifmap is stationary until N weights convolve with it"                   *)
(* (example/SystolicArray/README.md:35-36); those of column c are due in   *)
(* the steps from c on.  The code passes the ifmaps to the right in each   *)
(* step (SystolicArray.cpp:672, 706).                                      *)
(***************************************************************************)
IfmapsStationary ==
  In("IS", "compute", "read") =>
    \A p \in Used :
      t < p[2] + moving(layer) => ibuffer2s[p] = <<Col(p[2]), rows - 1 - p[1]>>

(***************************************************************************)
(* The ifmap values of a weight stationary array move in lockstep: in step *)
(* t column c reads the value that entered its row c steps before.         *)
(***************************************************************************)
Lockstep ==
  In("WS", "compute", "write") =>
    \A p \in Used :
      t \in p[2] .. p[2] + moving(layer) - 1 =>
        ifmap_flight[p] = <<Row(p[1]), t - p[2]>>

(***************************************************************************)
(* Each column of an input or weight stationary array puts out one value   *)
(* for each operand that moves past it, in each fold it takes part in, for *)
(* windows opened and closed by the step, the row and the column           *)
(* (SystolicArray.cpp:675-676, 982-983, 1010-1011).                        *)
(***************************************************************************)
FoldsOf(c) == { n \in 0 .. num_v_fold(layer) - 1 : c < FoldCols(layer, n) }

ColumnsComplete ==
  stage = "done" /\ layer.dataflow # "OS" =>
    \A c \in DOMAIN outputs :
      outputs[c] = moving(layer) * num_h_fold(layer) * Cardinality(FoldsOf(c))

(***************************************************************************)
(* What leaves a column of an input or weight stationary array began in    *)
(* its first row one step earlier for each row it went down: nothing that  *)
(* an earlier fold left in the registers comes out, no value stays behind  *)
(* and none is overtaken.                                                  *)
(***************************************************************************)
ColumnsInTurn ==
  [][layer.dataflow # "OS" /\ outputs' # outputs =>
       \A p \in pending \ pending' : ofmap_flight[p] = t - (rows - 1)]_vars

(***************************************************************************)
(* What a PE of an output stationary array puts out has been in the PE for *)
(* the steps of one window, across folds, but for the first value of each  *)
(* PE, which leaves in the PE's first step (SystolicArray.cpp:314).        *)
(***************************************************************************)
SumsPutOut ==
  [][layer.dataflow = "OS" /\ outputs' # outputs =>
       \A p \in pending \ pending' :
         ofmap_flight[p] = IF t = p[1] + p[2] THEN 0 ELSE t + 1 - px_per_conv(layer)]_vars

(***************************************************************************)
(* An output stationary array puts out as many values as the loop nest of  *)
(* example/SystolicArray/README.md:22-28 has ofmap[n, eh, ew].  The code   *)
(* balances the folds but counts the steps of full ones                    *)
(* (SystolicArray.cpp:145).                                                *)
(***************************************************************************)
Sum(f) == FoldFunction(LAMBDA a, b : a + b, 0, f)

OutputsWritten ==
  stage = "done" /\ layer.dataflow = "OS" =>
    Sum(outputs) = e2(layer) * layer.num_filter

(***************************************************************************)
(* Each place of the array works with the processor and the memory of one  *)
(* PE, and no other place has them.                                        *)
(***************************************************************************)
OnePEPerPlace ==
  \A p, q \in Array :
    LET pe(x) == pe_array(layer)[peAt(layer, x[1], x[2])]
    IN  /\ pe(p).mem = pe(p).proc
        /\ pe(p).proc = pe(q).proc => p = q
=============================================================================
