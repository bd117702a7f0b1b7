----------------------------- MODULE MCSystolic -----------------------------
(* Layers for SystolicArray that TLC can check. *)
EXTENDS SystolicArray

Layer(dataflow, array, ifmap, filter, filters, stride) ==
  [dataflow |-> dataflow,
   array_height |-> array[1], array_width |-> array[2],
   ifmap_height |-> ifmap[1], ifmap_width |-> ifmap[2],
   filter_height |-> filter[1], filter_width |-> filter[2],
   channel |-> filter[3], num_filter |-> filters, stride |-> stride]

(* One fold, folds of the filters, of the pixels and of both, the last one  *)
(* full or not; windows of one pixel and of several; a stride of two; and   *)
(* a layer whose folds are not balanced.                                    *)
OSLayers ==
  { Layer("OS", <<2, 2>>, <<2, 2>>, <<1, 2, 1>>, 2, 1),
    Layer("OS", <<2, 2>>, <<1, 3>>, <<1, 1, 2>>, 3, 1),
    Layer("OS", <<2, 2>>, <<1, 3>>, <<1, 1, 1>>, 2, 2),
    Layer("OS", <<2, 2>>, <<1, 2>>, <<1, 2, 1>>, 1, 1),
    Layer("OS", <<2, 2>>, <<3, 1>>, <<1, 1, 3>>, 4, 1),
    Layer("OS", <<3, 2>>, <<1, 4>>, <<1, 2, 1>>, 3, 1),
    Layer("OS", <<3, 3>>, <<1, 3>>, <<1, 1, 2>>, 3, 1),
    Layer("OS", <<1, 3>>, <<1, 2>>, <<1, 1, 2>>, 4, 1) }

(* A window that fits in a column, that fills it, and that needs two or     *)
(* three folds; more columns than the array has; one row.                   *)
StationaryLayers ==
  { Layer(dataflow, sizes[1], sizes[2], sizes[3], sizes[4], 1) :
      dataflow \in {"IS", "WS"},
      sizes \in { << <<2, 2>>, <<1, 3>>, <<1, 2, 1>>, 2 >>,
                  << <<2, 2>>, <<2, 2>>, <<1, 1, 3>>, 3 >>,
                  << <<3, 2>>, <<1, 4>>, <<1, 2, 1>>, 3 >>,
                  << <<1, 2>>, <<1, 2>>, <<1, 1, 2>>, 1 >>,
                  << <<2, 1>>, <<1, 3>>, <<1, 2, 2>>, 2 >> } }

AllLayers == { L \in OSLayers \cup StationaryLayers : FitsArray(L) }
=============================================================================
