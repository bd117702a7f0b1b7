------------------------------ MODULE ConvLayer ------------------------------
(***************************************************************************)
(* A convolution layer and the array of processing elements (PEs) it is    *)
(* laid out on: layer_config and accel_config of a generated program       *)
(* (example/SystolicArray/01-Generator), and how often each dataflow has   *)
(* to fold the layer to fit it in.  A layer is a record L of their fields. *)
(***************************************************************************)
EXTENDS Integers

Dataflows == {"OS", "IS", "WS"}   (* output, input, weight stationary *)

Sizes == {"array_height", "array_width", "ifmap_height", "ifmap_width",
          "filter_height", "filter_width", "channel", "num_filter", "stride"}

LayerTypeOK(L) ==
  /\ L.dataflow \in Dataflows
  /\ \A s \in Sizes : L[s] \in Nat \ {0}
  /\ L.filter_height <= L.ifmap_height
  /\ L.filter_width <= L.ifmap_width

(* ceil((float)a / (float)b) *)
Ceil(a, b) == (a + b - 1) \div b
Least(a, b) == IF a < b THEN a ELSE b

E_h(L) == (L.ifmap_height - L.filter_height + L.stride) \div L.stride
E_w(L) == (L.ifmap_width - L.filter_width + L.stride) \div L.stride
e2(L)  == E_h(L) * E_w(L)
px_per_conv(L) == L.filter_height * L.filter_width * L.channel

Places(rows, cols) == (0 .. rows - 1) \X (0 .. cols - 1)

-----------------------------------------------------------------------------
(* Output stationary: a PE keeps an output, filters are spread over the     *)
(* columns and output pixels over the rows, both balanced over the folds.   *)
OSFiltersFold(L) == Ceil(L.num_filter, L.array_width)
OSPixelsFold(L)  == Ceil(e2(L), L.array_height)

last_width(L)  == IF L.num_filter % L.array_width = 0 THEN L.array_width
                  ELSE L.num_filter % L.array_width
last_height(L) == IF e2(L) % L.array_height = 0 THEN L.array_height
                  ELSE e2(L) % L.array_height

OSCols(L) == Ceil(L.num_filter, OSFiltersFold(L))
OSRows(L) == Ceil(e2(L), OSPixelsFold(L))

total_cycles(L) == OSFiltersFold(L) * OSPixelsFold(L) * px_per_conv(L)
                     + last_width(L) + last_height(L)

-----------------------------------------------------------------------------
(* Input and weight stationary: a column of PEs holds a convolution window  *)
(* of ifmap pixels or of weights, in several folds when it is too tall, and *)
(* what moves past it is the other operand.                                 *)
num_h_fold(L) == IF L.array_height < px_per_conv(L)
                 THEN Ceil(px_per_conv(L), L.array_height) ELSE 1

max_parallel_conv(L) == IF L.array_height < px_per_conv(L) THEN 1
                        ELSE L.array_height \div px_per_conv(L)

max_cols_per_v_fold(L) == max_parallel_conv(L) * L.array_width

columns(L) == IF L.dataflow = "IS" THEN e2(L) ELSE L.num_filter
moving(L)  == IF L.dataflow = "IS" THEN L.num_filter ELSE e2(L)

num_v_fold(L) == Ceil(columns(L), max_cols_per_v_fold(L))

(* Columns and rows in use in fold <<v, h>>. *)
FoldCols(L, v) == Least(columns(L) - v * max_cols_per_v_fold(L), max_cols_per_v_fold(L))
FoldRows(L, h) == Least(px_per_conv(L) - h * L.array_height, L.array_height)

(* procs has array_width columns, but a fold may ask for more of them.      *)
FitsArray(L) == L.dataflow = "OS" \/ FoldCols(L, 0) <= L.array_width

-----------------------------------------------------------------------------
(***************************************************************************)
(* The array as a chain of components: each has a processor, a memory and  *)
(* the PE created before it, so that the launch finds the PEs by walking   *)
(* back from the last one.                                                 *)
(***************************************************************************)
PECount(L) == L.array_height * L.array_width

pe_array(L) == [n \in 0 .. PECount(L) - 1 |->
                  [mem |-> n, proc |-> n, pes |-> n - 1]]

(* Mutant: the walk starts again from the last PE in every row. *)
peAtEachRowAnew(L, r, c) ==
  LET walk[k \in 0 .. PECount(L) - 1] ==
        IF k % L.array_width = 0 THEN PECount(L) - 1 ELSE pe_array(L)[walk[k - 1]].pes
  IN  walk[r * L.array_width + c]

(* The PE at row r and column c of pes, mems and procs. *)
peAt(L, r, c) ==
  LET walk[k \in 0 .. PECount(L) - 1] ==
        IF k = 0 THEN PECount(L) - 1 ELSE pe_array(L)[walk[k - 1]].pes
  IN  walk[r * L.array_width + c]
=============================================================================
