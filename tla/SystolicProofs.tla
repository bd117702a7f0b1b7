--------------------------- MODULE SystolicProofs ---------------------------
(***************************************************************************)
(* In an output stationary array of any size, for any layer, the operands  *)
(* that meet in a PE belong to the same product, and a sum that is put out *)
(* is whole, but for the first one of each PE.  And the walk through the   *)
(* chain of components gives each place of any array a PE of its own.  The *)
(* second part is about input and weight stationary arrays.                *)
(***************************************************************************)
EXTENDS SystolicArray, WellFoundedInduction, TLAPS

LEMMA CeilType == ASSUME NEW a \in Nat, NEW b \in Nat \ {0}
                  PROVE  /\ Ceil(a, b) \in Nat
                         /\ a > 0 => Ceil(a, b) > 0
                         /\ Ceil(a, b) * b >= a
                         /\ Ceil(a, b) * b <= a + b - 1
  <1>1. /\ (a + b - 1) \div b \in Int
        /\ ((a + b - 1) \div b) * b <= a + b - 1
        /\ ((a + b - 1) \div b) * b > a - 1
    BY SMT
  <1>. DEFINE q == (a + b - 1) \div b
  <1>2. q >= 0
    <2>. HIDE DEF q
    <2>. SUFFICES ASSUME q < 0 PROVE FALSE
      BY <1>1 DEF q
    <2>. QED
      BY <1>1, SMT DEF q
  <1>. QED BY <1>1, <1>2, SMT DEF Ceil

LEMMA CeilPositive == ASSUME NEW a \in Nat \ {0}, NEW b \in Nat \ {0}
                      PROVE  Ceil(a, b) \in Nat \ {0}
  <1>1. a \in Nat /\ a > 0
    BY SMT
  <1>2. Ceil(a, b) \in Nat /\ Ceil(a, b) > 0
    BY <1>1, CeilType
  <1>. QED BY <1>2, SMT

(* Balancing: a filters in as many folds as b columns need take no more     *)
(* than b columns each.                                                     *)
LEMMA BalancedFits == ASSUME NEW a \in Nat \ {0}, NEW b \in Nat \ {0}
                      PROVE  Ceil(a, Ceil(a, b)) \in 1 .. b
  <1>. DEFINE k == Ceil(a, b)
              q == Ceil(a, k)
  <1>1. k \in Nat \ {0} /\ k * b >= a
    BY CeilType
  <1>. HIDE DEF k
  <1>2. q \in Nat \ {0} /\ q * k <= a + k - 1
    BY <1>1, CeilType
  <1>. HIDE DEF q
  <1>3. ASSUME q >= b + 1 PROVE FALSE
    <2>1. q * k >= (b + 1) * k
      BY <1>1, <1>2, <1>3, SMT
    <2>2. (b + 1) * k = b * k + k /\ b * k = k * b
      BY <1>1, SMT
    <2>. QED BY <1>1, <1>2, <2>1, <2>2, SMT
  <1>4. q \in 1 .. b
    BY <1>2, <1>3, SMT
  <1>. QED BY <1>4 DEF q, k

LEMMA LayerSizes ==
  ASSUME NEW L, LayerTypeOK(L)
  PROVE  /\ L.array_height \in Nat \ {0} /\ L.array_width \in Nat \ {0}
         /\ OSFiltersFold(L) \in Nat \ {0} /\ OSPixelsFold(L) \in Nat \ {0}
         /\ px_per_conv(L) \in Nat \ {0} /\ e2(L) \in Nat \ {0}
         /\ OSCols(L) \in 1 .. L.array_width
         /\ OSRows(L) \in 1 .. L.array_height
         /\ last_width(L) \in Int /\ last_height(L) \in Int
  <1>1. /\ L.array_height \in Nat \ {0} /\ L.array_width \in Nat \ {0}
        /\ L.num_filter \in Nat \ {0} /\ L.stride \in Nat \ {0}
        /\ L.filter_height \in Nat \ {0} /\ L.filter_width \in Nat \ {0}
        /\ L.ifmap_height \in Nat \ {0} /\ L.ifmap_width \in Nat \ {0}
        /\ L.channel \in Nat \ {0}
    BY DEF LayerTypeOK, Sizes
  <1>2. E_h(L) \in Nat \ {0} /\ E_w(L) \in Nat \ {0}
    <2>1. ASSUME NEW d \in Nat, NEW s \in Nat \ {0} PROVE (d + s) \div s \in Nat \ {0}
      <3>1. (d + s) \div s = Ceil(d + 1, s)
        BY SMT DEF Ceil
      <3>. QED BY <3>1, CeilType
    <2>2. /\ L.ifmap_height - L.filter_height \in Nat
          /\ L.ifmap_width - L.filter_width \in Nat
      BY <1>1 DEF LayerTypeOK
    <2>. QED BY <1>1, <2>1, <2>2 DEF E_h, E_w
  <1>3. ASSUME NEW x \in Nat \ {0}, NEW y \in Nat \ {0} PROVE x * y \in Nat \ {0}
    BY SMT
  <1>4. e2(L) \in Nat \ {0} /\ px_per_conv(L) \in Nat \ {0}
    <2>1. L.filter_height * L.filter_width \in Nat \ {0}
      BY <1>1, <1>3
    <2>. QED BY <1>1, <1>2, <1>3, <2>1 DEF e2, px_per_conv
  <1>5. OSFiltersFold(L) \in Nat \ {0} /\ OSPixelsFold(L) \in Nat \ {0}
    BY <1>1, <1>4, CeilPositive DEF OSFiltersFold, OSPixelsFold
  <1>6. OSCols(L) \in 1 .. L.array_width /\ OSRows(L) \in 1 .. L.array_height
    BY <1>1, <1>4, BalancedFits DEF OSCols, OSRows, OSFiltersFold, OSPixelsFold
  <1>7. last_width(L) \in Int /\ last_height(L) \in Int
    BY <1>1, <1>4 DEF last_width, last_height
  <1>. QED BY <1>1, <1>4, <1>5, <1>6, <1>7

(* The PE to the right, and the one below, work a step later; a PE works    *)
(* without a break.                                                         *)
LEMMA ActiveNext ==
  ASSUME NEW L, LayerTypeOK(L), NEW n \in Nat, NEW r \in Nat, NEW c \in Nat
  PROVE  /\ OSActive(L, n + 1, r, c + 1) => OSActive(L, n, r, c)
         /\ OSActive(L, n + 1, r + 1, c) => OSActive(L, n, r, c)
         /\ OSActive(L, n + 1, r, c) /\ n >= r + c => OSActive(L, n, r, c)
         /\ OSActive(L, n, r, c) => n >= r + c
  <1>. DEFINE fv == OSFiltersFold(L)
              fh == OSPixelsFold(L)
              px == px_per_conv(L)
              A == fv * fh * px
              B == (fv - 1) * fh * px
              C == fv * (fh - 1) * px
              D == (fv - 1) * (fh - 1) * px
              lw == last_width(L)
              lh == last_height(L)
  <1>1. A \in Int /\ B \in Int /\ C \in Int /\ D \in Int /\ lw \in Int /\ lh \in Int
    BY LayerSizes
  <1>2. ASSUME NEW m \in Nat, NEW i \in Nat, NEW j \in Nat
        PROVE  OSActive(L, m, i, j) <=>
                 /\ m >= i + j
                 /\ \/ i < lh /\ j < lw /\ m < i + j + A
                    \/ i < lh /\ m < i + j + B
                    \/ j < lw /\ m < i + j + C
                    \/ m < i + j + D
    BY DEF OSActive
  <1>. HIDE DEF A, B, C, D, lw, lh
  <1>3. OSActive(L, n + 1, r, c + 1) => OSActive(L, n, r, c)
    BY <1>1, <1>2, SMT
  <1>4. OSActive(L, n + 1, r + 1, c) => OSActive(L, n, r, c)
    BY <1>1, <1>2, SMT
  <1>5. OSActive(L, n + 1, r, c) /\ n >= r + c => OSActive(L, n, r, c)
    BY <1>1, <1>2, SMT
  <1>6. OSActive(L, n, r, c) => n >= r + c
    BY <1>2
  <1>. QED BY <1>3, <1>4, <1>5, <1>6

-----------------------------------------------------------------------------
(***************************************************************************)
(* What holds between the steps of an output stationary array.             *)
(***************************************************************************)
Rows == 0 .. rows - 1
Cols == 0 .. cols - 1

Shape ==
  /\ stage \in {"compute", "done"}
  /\ round \in {"read", "write"}
  /\ t \in Nat
  /\ pending \subseteq Used
  /\ DOMAIN ibuffer2s = Array /\ DOMAIN wbuffer2s = Array
  /\ DOMAIN ifmap_flight = Array /\ DOMAIN filter_flight = Array
  /\ bankReads \in [Banks -> Nat]

Active(r, c) == OSActive(layer, t, r, c)

(* A launch that has run returns the operands of its step, or nothing. *)
Flown ==
  \A r \in Rows, c \in Cols :
    HasRead(<<r, c>>) =>
      IF Active(r, c)
      THEN /\ ifmap_flight[<<r, c>>] = <<Row(r), t - r - c>>
           /\ filter_flight[<<r, c>>] = <<Col(c), t - r - c>>
      ELSE ifmap_flight[<<r, c>>] = non /\ filter_flight[<<r, c>>] = non

(* A register holds what its PE is to read, and gets it from the neighbour. *)
IfmapsArrive ==
  \A r \in Rows, c \in Cols : c + 1 \in Cols =>
    /\ round = "read" /\ <<r, c + 1>> \in pending /\ Active(r, c + 1) =>
         ibuffer2s[<<r, c + 1>>] = <<Row(r), t - r - (c + 1)>>
    /\ round = "write" /\ <<r, c>> \notin pending /\ Active(r, c) =>
         ibuffer2s[<<r, c + 1>>] = <<Row(r), t - r - c>>

FiltersArrive ==
  \A r \in Rows, c \in Cols : r + 1 \in Rows =>
    /\ round = "read" /\ <<r + 1, c>> \in pending /\ Active(r + 1, c) =>
         wbuffer2s[<<r + 1, c>>] = <<Col(c), t - (r + 1) - c>>
    /\ round = "write" /\ <<r, c>> \notin pending /\ Active(r, c) =>
         wbuffer2s[<<r + 1, c>>] = <<Col(c), t - r - c>>

(* The banks have given one value per step since their PE began. *)
Taken(p) == IF HasRead(p) THEN 1 ELSE 0

RowsCounted ==
  \A r \in Rows :
    /\ Active(r, 0) => bankReads[Row(r)] = t - r + Taken(<<r, 0>>)
    /\ t < r => bankReads[Row(r)] = 0

ColsCounted ==
  \A c \in Cols :
    /\ Active(0, c) => bankReads[Col(c)] = t - c + Taken(<<0, c>>)
    /\ t < c => bankReads[Col(c)] = 0

OSInv == /\ Shape /\ Flown /\ IfmapsArrive /\ FiltersArrive
         /\ RowsCounted /\ ColsCounted

Inv == layer \in Layers /\ (layer.dataflow = "OS" => OSInv)

(* The part of the array in use lies within it, and the banks are its own.  *)
LEMMA Frame ==
  ASSUME layer \in Layers, layer.dataflow = "OS"
  PROVE  /\ LayerTypeOK(layer)
         /\ rows \in Nat \ {0} /\ cols \in Nat \ {0}
         /\ Rows \subseteq Nat /\ Cols \subseteq Nat
         /\ Used = Rows \X Cols
         /\ \A r \in Rows, c \in Cols : <<r, c>> \in Array
         /\ \A r \in Rows : Row(r) \in Banks
         /\ \A c \in Cols : Col(c) \in Banks
         /\ \A r \in Rows, c \in Cols : Row(r) # Col(c)
         /\ \A r, s \in Rows : Row(r) = Row(s) => r = s
         /\ \A c, d \in Cols : Col(c) = Col(d) => c = d
  <1>1. LayerTypeOK(layer)
    BY LayersAssumption
  <1>2. rows = OSRows(layer) /\ cols = OSCols(layer)
    BY DEF rows, cols
  <1>3. /\ rows \in 1 .. layer.array_height /\ cols \in 1 .. layer.array_width
        /\ layer.array_height \in Nat /\ layer.array_width \in Nat
    BY <1>1, <1>2, LayerSizes
  <1>. HIDE DEF rows, cols
  <1>. QED BY <1>1, <1>3 DEF Rows, Cols, Used, Places, Array, Row, Col, Banks

LEMMA FrameKept ==
  ASSUME UNCHANGED <<layer, v, h>>
  PROVE  /\ rows' = rows /\ cols' = cols /\ Rows' = Rows /\ Cols' = Cols
         /\ Used' = Used /\ Array' = Array /\ Banks' = Banks
         /\ \A r : Row(r)' = Row(r)
         /\ \A c : Col(c)' = Col(c)
  <1>1. rows' = rows /\ cols' = cols
    BY DEF rows, cols
  <1>. QED BY <1>1 DEF Rows, Cols, Used, Array, Banks, Row, Col

LEMMA InitInv == Init => Inv
  <1>. SUFFICES ASSUME Init PROVE Inv
    OBVIOUS
  <1>1. layer \in Layers
    BY DEF Init
  <1>. SUFFICES ASSUME layer.dataflow = "OS" PROVE OSInv
    BY <1>1 DEF Inv
  <1>2. t = 0 /\ pending = Used /\ round = "read" /\ stage = "compute"
    BY DEF Init
  <1>3. \A r \in Rows, c \in Cols : Active(r, c) => 0 >= r + c
    BY <1>1, <1>2, Frame, ActiveNext DEF Active
  <1>4. \A r \in Rows, c \in Cols : ~HasRead(<<r, c>>)
    BY <1>1, <1>2, Frame DEF HasRead
  <1>5. Shape
    BY <1>2 DEF Shape, Init, Empty
  <1>6. Flown
    BY <1>4 DEF Flown
  <1>7. IfmapsArrive /\ FiltersArrive
    BY <1>1, <1>2, <1>3, Frame DEF IfmapsArrive, FiltersArrive
  <1>8. RowsCounted /\ ColsCounted
    <2>1. \A b \in Banks : bankReads[b] = 0
      BY DEF Init
    <2>2. 0 \in Rows /\ 0 \in Cols
      BY <1>1, Frame DEF Rows, Cols
    <2>. QED BY <1>1, <1>2, <1>3, <1>4, <2>1, <2>2, Frame DEF RowsCounted, ColsCounted, Taken
  <1>. QED BY <1>5, <1>6, <1>7, <1>8 DEF OSInv

(* What the launches of a read round have in common: PE <<i, j>> has read.  *)
LEMMA ReadsInv ==
  ASSUME layer.dataflow = "OS", Inv, NEW i \in Rows, NEW j \in Cols,
         round = "read", Runs(i, j), UNCHANGED registers,
         NEW x, NEW y,
         ifmap_flight' = [ifmap_flight EXCEPT ![<<i, j>>] = x],
         filter_flight' = [filter_flight EXCEPT ![<<i, j>>] = y],
         IF Active(i, j) THEN x = <<Row(i), t - i - j>> /\ y = <<Col(j), t - i - j>>
                         ELSE x = non /\ y = non,
         bankReads' \in [Banks -> Nat],
         \A b \in Banks :
           bankReads'[b] = IF Active(i, j) /\ ((j = 0 /\ b = Row(i)) \/ (i = 0 /\ b = Col(j)))
                           THEN bankReads[b] + 1 ELSE bankReads[b]
  PROVE  Inv'
  <1>1. layer \in Layers /\ OSInv
    BY DEF Inv
  <1>2. /\ layer' = layer /\ t' = t /\ round' = "read" /\ stage' = stage
        /\ v' = v /\ h' = h
        /\ <<i, j>> \in pending /\ pending' = pending \ {<<i, j>>}
        /\ ibuffer2s' = ibuffer2s /\ wbuffer2s' = wbuffer2s
    BY DEF Runs, place, registers
  <1>3. /\ Rows' = Rows /\ Cols' = Cols /\ Used' = Used /\ Array' = Array /\ Banks' = Banks
        /\ \A r : Row(r)' = Row(r)
        /\ \A c : Col(c)' = Col(c)
    BY <1>1, <1>2, FrameKept
  <1>4. \A r, c : Active(r, c)' = Active(r, c)
    BY <1>2 DEF Active
  <1>5. \A p : HasRead(p)' <=> HasRead(p) \/ p = <<i, j>>
    BY <1>2 DEF HasRead
  <1>6. ~HasRead(<<i, j>>)
    BY <1>2 DEF HasRead
  <1>7. <<i, j>> \in Array
    BY <1>1, Frame
  <1>8. Shape'
    BY <1>1, <1>2, <1>3 DEF OSInv, Shape
  <1>9. Flown'
    <2>. SUFFICES ASSUME NEW r \in Rows, NEW c \in Cols, HasRead(<<r, c>>)'
                  PROVE  IF Active(r, c)
                         THEN /\ ifmap_flight'[<<r, c>>] = <<Row(r), t - r - c>>
                              /\ filter_flight'[<<r, c>>] = <<Col(c), t - r - c>>
                         ELSE ifmap_flight'[<<r, c>>] = non /\ filter_flight'[<<r, c>>] = non
      BY <1>2, <1>3, <1>4 DEF Flown
    <2>1. CASE r = i /\ c = j
      BY <1>1, <1>7, <2>1 DEF OSInv, Shape
    <2>2. CASE ~(r = i /\ c = j)
      <3>1. HasRead(<<r, c>>) /\ <<r, c>> \in Array /\ <<r, c>> # <<i, j>>
        BY <1>1, <1>5, <2>2, Frame
      <3>2. ifmap_flight'[<<r, c>>] = ifmap_flight[<<r, c>>]
        BY <1>1, <3>1 DEF OSInv, Shape
      <3>3. filter_flight'[<<r, c>>] = filter_flight[<<r, c>>]
        BY <1>1, <3>1 DEF OSInv, Shape
      <3>. QED BY <1>1, <3>1, <3>2, <3>3 DEF OSInv, Flown
    <2>. QED BY <2>1, <2>2
  <1>10. IfmapsArrive'
    BY <1>1, <1>2, <1>3, <1>4 DEF OSInv, IfmapsArrive
  <1>11. FiltersArrive'
    BY <1>1, <1>2, <1>3, <1>4 DEF OSInv, FiltersArrive
  <1>12. RowsCounted'
    <2>. SUFFICES ASSUME NEW r \in Rows
                  PROVE  /\ Active(r, 0) => bankReads'[Row(r)] = t - r + Taken(<<r, 0>>)'
                         /\ t < r => bankReads'[Row(r)] = 0
      BY <1>2, <1>3, <1>4 DEF RowsCounted
    <2>1. /\ Row(r) \in Banks /\ Row(r) # Col(j) /\ (Row(r) = Row(i) => r = i)
          /\ r \in Nat /\ t \in Nat /\ bankReads[Row(r)] \in Nat
      BY <1>1, Frame DEF OSInv, Shape
    <2>2. CASE r = i /\ j = 0
      <3>1. Taken(<<r, 0>>) = 0 /\ Taken(<<r, 0>>)' = 1
        BY <1>5, <1>6, <2>2 DEF Taken
      <3>2. Active(r, 0) => bankReads'[Row(r)] = bankReads[Row(r)] + 1
        BY <2>1, <2>2
      <3>3. ~Active(r, 0) => bankReads'[Row(r)] = bankReads[Row(r)]
        BY <2>1, <2>2
      <3>4. Active(r, 0) => t >= r
        BY <1>1, <2>1, Frame, ActiveNext DEF Active
      <3>. QED BY <1>1, <2>1, <3>1, <3>2, <3>3, <3>4 DEF OSInv, RowsCounted
    <2>3. CASE ~(r = i /\ j = 0)
      <3>1. bankReads'[Row(r)] = bankReads[Row(r)]
        BY <2>1, <2>3
      <3>2. HasRead(<<r, 0>>)' <=> HasRead(<<r, 0>>)
        BY <1>5, <2>3
      <3>. QED BY <1>1, <3>1, <3>2 DEF OSInv, RowsCounted, Taken
    <2>. QED BY <2>2, <2>3
  <1>13. ColsCounted'
    <2>. SUFFICES ASSUME NEW c \in Cols
                  PROVE  /\ Active(0, c) => bankReads'[Col(c)] = t - c + Taken(<<0, c>>)'
                         /\ t < c => bankReads'[Col(c)] = 0
      BY <1>2, <1>3, <1>4 DEF ColsCounted
    <2>1. /\ Col(c) \in Banks /\ Row(i) # Col(c) /\ (Col(c) = Col(j) => c = j)
          /\ c \in Nat /\ t \in Nat /\ bankReads[Col(c)] \in Nat
      BY <1>1, Frame DEF OSInv, Shape
    <2>2. CASE c = j /\ i = 0
      <3>1. Taken(<<0, c>>) = 0 /\ Taken(<<0, c>>)' = 1
        BY <1>5, <1>6, <2>2 DEF Taken
      <3>2. Active(0, c) => bankReads'[Col(c)] = bankReads[Col(c)] + 1
        BY <2>1, <2>2
      <3>3. ~Active(0, c) => bankReads'[Col(c)] = bankReads[Col(c)]
        BY <2>1, <2>2
      <3>4. Active(0, c) => t >= c
        BY <1>1, <2>1, Frame, ActiveNext DEF Active
      <3>. QED BY <1>1, <2>1, <3>1, <3>2, <3>3, <3>4 DEF OSInv, ColsCounted
    <2>3. CASE ~(c = j /\ i = 0)
      <3>1. bankReads'[Col(c)] = bankReads[Col(c)]
        BY <2>1, <2>3
      <3>2. HasRead(<<0, c>>)' <=> HasRead(<<0, c>>)
        BY <1>5, <2>3
      <3>. QED BY <1>1, <3>1, <3>2 DEF OSInv, ColsCounted, Taken
    <2>. QED BY <2>2, <2>3
  <1>. QED BY <1>1, <1>2, <1>8, <1>9, <1>10, <1>11, <1>12, <1>13 DEF Inv, OSInv

LEMMA OSReadsInv == ASSUME Inv, NEW i \in Rows, NEW j \in Cols, OSReads(i, j)
                    PROVE  Inv'
  <1>1. layer.dataflow = "OS" /\ round = "read" /\ Runs(i, j) /\ Active(i, j)
    BY DEF OSReads, In, Active
  <1>2. layer \in Layers /\ OSInv
    BY <1>1 DEF Inv
  <1>. DEFINE x == IF j = 0 THEN fetched(Row(i)) ELSE ibuffer2s[<<i, j>>]
              y == IF i = 0 THEN fetched(Col(j)) ELSE wbuffer2s[<<i, j>>]
  <1>3. <<i, j>> \in pending /\ ~HasRead(<<i, j>>)
    BY <1>1 DEF Runs, HasRead
  <1>4. i \in Nat /\ j \in Nat /\ t \in Nat
    BY <1>1, <1>2, Frame DEF OSInv, Shape
  <1>5. x = <<Row(i), t - i - j>>
    <2>1. CASE j = 0
      <3>1. bankReads[Row(i)] = t - i
        BY <1>1, <1>2, <1>3, <1>4, <2>1 DEF OSInv, RowsCounted, Taken
      <3>. QED BY <1>4, <2>1, <3>1 DEF fetched
    <2>2. CASE j # 0
      <3>1. j - 1 \in Cols /\ j = (j - 1) + 1
        BY <1>1, <1>2, <1>4, <2>2, Frame DEF Cols
      <3>. QED BY <1>1, <1>2, <1>3, <1>4, <2>2, <3>1 DEF OSInv, IfmapsArrive
    <2>. QED BY <2>1, <2>2
  <1>6. y = <<Col(j), t - i - j>>
    <2>1. CASE i = 0
      <3>1. bankReads[Col(j)] = t - j
        BY <1>1, <1>2, <1>3, <1>4, <2>1 DEF OSInv, ColsCounted, Taken
      <3>. QED BY <1>4, <2>1, <3>1 DEF fetched
    <2>2. CASE i # 0
      <3>1. i - 1 \in Rows /\ i = (i - 1) + 1
        BY <1>1, <1>2, <1>4, <2>2, Frame DEF Rows
      <3>. QED BY <1>1, <1>2, <1>3, <1>4, <2>2, <3>1 DEF OSInv, FiltersArrive
    <2>. QED BY <2>1, <2>2
  <1>7. /\ ifmap_flight' = [ifmap_flight EXCEPT ![<<i, j>>] = x]
        /\ filter_flight' = [filter_flight EXCEPT ![<<i, j>>] = y]
        /\ UNCHANGED registers
    BY DEF OSReads
  <1>8. /\ bankReads' \in [Banks -> Nat]
        /\ \A b \in Banks :
             bankReads'[b] = IF (j = 0 /\ b = Row(i)) \/ (i = 0 /\ b = Col(j))
                             THEN bankReads[b] + 1 ELSE bankReads[b]
    BY <1>2 DEF OSReads, OSInv, Shape
  <1>. HIDE DEF x, y
  <1>. QED BY <1>1, <1>5, <1>6, <1>7, <1>8, ReadsInv

LEMMA OSIdlesInv == ASSUME Inv, NEW i \in Rows, NEW j \in Cols, OSIdles(i, j)
                    PROVE  Inv'
  <1>1. layer.dataflow = "OS" /\ round = "read" /\ Runs(i, j) /\ ~Active(i, j)
    BY DEF OSIdles, In, Active
  <1>2. bankReads \in [Banks -> Nat]
    BY <1>1 DEF Inv, OSInv, Shape
  <1>3. /\ ifmap_flight' = [ifmap_flight EXCEPT ![<<i, j>>] = non]
        /\ filter_flight' = [filter_flight EXCEPT ![<<i, j>>] = non]
        /\ UNCHANGED registers /\ bankReads' = bankReads
    BY DEF OSIdles
  <1>. QED BY <1>1, <1>2, <1>3, ReadsInv

(* In a write round PE <<i, j>> passes on what it has read. *)
LEMMA OSWritesInv == ASSUME Inv, NEW i \in Rows, NEW j \in Cols, OSWrites(i, j)
                     PROVE  Inv'
  <1>1. layer.dataflow = "OS" /\ round = "write" /\ layer \in Layers /\ OSInv
    BY DEF OSWrites, In, Inv
  <1>2. /\ layer' = layer /\ t' = t /\ round' = "write" /\ stage' = stage
        /\ v' = v /\ h' = h
        /\ <<i, j>> \in pending /\ pending' = pending \ {<<i, j>>}
        /\ ifmap_flight' = ifmap_flight /\ filter_flight' = filter_flight
        /\ bankReads' = bankReads
    BY <1>1 DEF OSWrites, Runs, place, flights
  <1>3. /\ Rows' = Rows /\ Cols' = Cols /\ Used' = Used /\ Array' = Array /\ Banks' = Banks
        /\ \A r : Row(r)' = Row(r)
        /\ \A c : Col(c)' = Col(c)
    BY <1>1, <1>2, FrameKept
  <1>4. \A r, c : Active(r, c)' = Active(r, c)
    BY <1>2 DEF Active
  <1>5. \A p : HasRead(p) /\ HasRead(p)'
    BY <1>1, <1>2 DEF HasRead
  <1>6. i \in Nat /\ j \in Nat /\ Rows \subseteq Nat /\ Cols \subseteq Nat /\ rows \in Nat /\ cols \in Nat
    BY <1>1, Frame
  <1>7. Active(i, j) => /\ ifmap_flight[<<i, j>>] = <<Row(i), t - i - j>>
                        /\ filter_flight[<<i, j>>] = <<Col(j), t - i - j>>
                        /\ ifmap_flight[<<i, j>>] # non /\ filter_flight[<<i, j>>] # non
    <2>. SUFFICES ASSUME Active(i, j)
                  PROVE  /\ ifmap_flight[<<i, j>>] = <<Row(i), t - i - j>>
                         /\ filter_flight[<<i, j>>] = <<Col(j), t - i - j>>
                         /\ ifmap_flight[<<i, j>>] # non /\ filter_flight[<<i, j>>] # non
      OBVIOUS
    <2>1. /\ ifmap_flight[<<i, j>>] = <<Row(i), t - i - j>>
          /\ filter_flight[<<i, j>>] = <<Col(j), t - i - j>>
      BY <1>1, <1>5 DEF OSInv, Flown
    <2>2. t - i - j \in Nat
      BY <1>1, <1>6, Frame, ActiveNext DEF Active, OSInv, Shape
    <2>3. Row(i) \in Nat /\ Col(j) \in Nat
      BY <1>6 DEF Row, Col
    <2>. QED BY <2>1, <2>2, <2>3, NonAssumption
  <1>8. Shape'
    <2>1. DOMAIN ibuffer2s' = Array /\ DOMAIN wbuffer2s' = Array
      BY <1>1 DEF OSWrites, OSInv, Shape
    <2>. QED BY <1>1, <1>2, <1>3, <2>1 DEF OSInv, Shape
  <1>9. Flown'
    BY <1>1, <1>2, <1>3, <1>4, <1>5 DEF OSInv, Flown
  <1>10. IfmapsArrive'
    <2>. SUFFICES ASSUME NEW r \in Rows, NEW c \in Cols, c + 1 \in Cols,
                         <<r, c>> \notin pending', Active(r, c)
                  PROVE  ibuffer2s'[<<r, c + 1>>] = <<Row(r), t - r - c>>
      BY <1>2, <1>3, <1>4 DEF IfmapsArrive
    <2>1. <<r, c + 1>> \in Array /\ r \in Nat /\ c \in Nat
      BY <1>1, <1>6, Frame
    <2>2. CASE r = i /\ c = j
      <3>1. c < cols - 1
        BY <1>6, <2>1 DEF Cols
      <3>2. ibuffer2s' = [ibuffer2s EXCEPT ![<<i, j + 1>>] = ifmap_flight[<<i, j>>]]
        BY <1>7, <2>2, <3>1 DEF OSWrites
      <3>. QED BY <1>1, <1>7, <2>1, <2>2, <3>2 DEF OSInv, Shape
    <2>3. CASE ~(r = i /\ c = j)
      <3>1. <<r, c>> \notin pending
        BY <1>2, <2>3
      <3>2. ibuffer2s[<<r, c + 1>>] = <<Row(r), t - r - c>>
        BY <1>1, <3>1 DEF OSInv, IfmapsArrive
      <3>3. <<r, c + 1>> # <<i, j + 1>>
        BY <1>6, <2>1, <2>3
      <3>4. ibuffer2s'[<<r, c + 1>>] = ibuffer2s[<<r, c + 1>>]
        BY <1>1, <2>1, <3>3 DEF OSWrites, OSInv, Shape
      <3>. QED BY <3>2, <3>4
    <2>. QED BY <2>2, <2>3
  <1>11. FiltersArrive'
    <2>. SUFFICES ASSUME NEW r \in Rows, NEW c \in Cols, r + 1 \in Rows,
                         <<r, c>> \notin pending', Active(r, c)
                  PROVE  wbuffer2s'[<<r + 1, c>>] = <<Col(c), t - r - c>>
      BY <1>2, <1>3, <1>4 DEF FiltersArrive
    <2>1. <<r + 1, c>> \in Array /\ r \in Nat /\ c \in Nat
      BY <1>1, <1>6, Frame
    <2>2. CASE r = i /\ c = j
      <3>1. r < rows - 1
        BY <1>6, <2>1 DEF Rows
      <3>2. wbuffer2s' = [wbuffer2s EXCEPT ![<<i + 1, j>>] = filter_flight[<<i, j>>]]
        BY <1>7, <2>2, <3>1 DEF OSWrites
      <3>. QED BY <1>1, <1>7, <2>1, <2>2, <3>2 DEF OSInv, Shape
    <2>3. CASE ~(r = i /\ c = j)
      <3>1. <<r, c>> \notin pending
        BY <1>2, <2>3
      <3>2. wbuffer2s[<<r + 1, c>>] = <<Col(c), t - r - c>>
        BY <1>1, <3>1 DEF OSInv, FiltersArrive
      <3>3. <<r + 1, c>> # <<i + 1, j>>
        BY <1>6, <2>1, <2>3
      <3>4. wbuffer2s'[<<r + 1, c>>] = wbuffer2s[<<r + 1, c>>]
        BY <1>1, <2>1, <3>3 DEF OSWrites, OSInv, Shape
      <3>. QED BY <3>2, <3>4
    <2>. QED BY <2>2, <2>3
  <1>12. RowsCounted' /\ ColsCounted'
    BY <1>1, <1>2, <1>3, <1>4, <1>5 DEF OSInv, RowsCounted, ColsCounted, Taken
  <1>. QED BY <1>1, <1>2, <1>8, <1>9, <1>10, <1>11, <1>12 DEF Inv, OSInv

(* The await: every PE has read, or every PE has written. *)
LEMMA OSAwaitsInv == ASSUME Inv, OSAwaits
                     PROVE  Inv'
  <1>1. layer.dataflow = "OS" /\ layer \in Layers /\ OSInv /\ pending = {}
    BY DEF OSAwaits, Inv, LaunchesDone
  <1>2. /\ layer' = layer /\ v' = v /\ h' = h /\ registers' = registers
        /\ ibuffer2s' = ibuffer2s /\ wbuffer2s' = wbuffer2s
        /\ ifmap_flight' = ifmap_flight /\ filter_flight' = filter_flight
        /\ bankReads' = bankReads
    BY DEF OSAwaits, registers, flights
  <1>3. /\ Rows' = Rows /\ Cols' = Cols /\ Used' = Used /\ Array' = Array /\ Banks' = Banks
        /\ \A r : Row(r)' = Row(r)
        /\ \A c : Col(c)' = Col(c)
    BY <1>1, <1>2, FrameKept
  <1>4. t \in Nat /\ Rows \subseteq Nat /\ Cols \subseteq Nat /\ rows \in Nat /\ cols \in Nat
    BY <1>1, Frame DEF OSInv, Shape
  <1>5. \A p : HasRead(p)
    BY <1>1 DEF HasRead
  <1>6. CASE round = "read" /\ round' = "write" /\ pending' = Used /\ UNCHANGED <<t, stage>>
    <2>1. \A r, c : Active(r, c)' = Active(r, c)
      BY <1>2, <1>6 DEF Active
    <2>2. \A p : HasRead(p)'
      BY <1>6 DEF HasRead
    <2>3. Shape' /\ Flown'
      BY <1>1, <1>2, <1>3, <1>5, <1>6, <2>1 DEF OSInv, Shape, Flown
    <2>4. \A r \in Rows, c \in Cols : <<r, c>> \in Used
      BY <1>1, Frame
    <2>5. IfmapsArrive' /\ FiltersArrive'
      BY <1>2, <1>3, <1>6, <2>4 DEF IfmapsArrive, FiltersArrive
    <2>6. RowsCounted' /\ ColsCounted'
      BY <1>1, <1>2, <1>3, <1>5, <1>6, <2>1, <2>2 DEF OSInv, RowsCounted, ColsCounted, Taken
    <2>. QED BY <1>1, <1>2, <2>3, <2>5, <2>6 DEF Inv, OSInv
  <1>7. CASE /\ round = "write" /\ round' = "read" /\ pending' = Used /\ t' = t + 1
             /\ UNCHANGED stage
    <2>1. \A r \in Nat, c \in Nat :
            /\ Active(r, c + 1)' => Active(r, c)
            /\ Active(r + 1, c)' => Active(r, c)
            /\ Active(r, c)' /\ t >= r + c => Active(r, c)
            /\ Active(r, c)' => t + 1 >= r + c
      BY <1>1, <1>2, <1>4, <1>7, Frame, ActiveNext DEF Active
    <2>2. \A r \in Rows, c \in Cols : ~HasRead(<<r, c>>)'
      BY <1>1, <1>3, <1>7, Frame DEF HasRead
    <2>3. Shape' /\ Flown'
      <3>1. Shape'
        BY <1>1, <1>2, <1>3, <1>4, <1>7 DEF OSInv, Shape
      <3>2. Flown'
        BY <1>3, <2>2 DEF Flown
      <3>. QED BY <3>1, <3>2
    <2>4. IfmapsArrive'
      <3>. SUFFICES ASSUME NEW r \in Rows, NEW c \in Cols, c + 1 \in Cols, Active(r, c + 1)'
                    PROVE  ibuffer2s[<<r, c + 1>>] = <<Row(r), (t + 1) - r - (c + 1)>>
        BY <1>2, <1>3, <1>7 DEF IfmapsArrive
      <3>1. r \in Nat /\ c \in Nat
        BY <1>4
      <3>2. Active(r, c)
        BY <2>1, <3>1
      <3>3. ibuffer2s[<<r, c + 1>>] = <<Row(r), t - r - c>>
        BY <1>1, <1>7, <3>2 DEF OSInv, IfmapsArrive
      <3>4. (t + 1) - r - (c + 1) = t - r - c
        BY <1>4, <3>1
      <3>. QED BY <3>3, <3>4
    <2>5. FiltersArrive'
      <3>. SUFFICES ASSUME NEW r \in Rows, NEW c \in Cols, r + 1 \in Rows, Active(r + 1, c)'
                    PROVE  wbuffer2s[<<r + 1, c>>] = <<Col(c), (t + 1) - (r + 1) - c>>
        BY <1>2, <1>3, <1>7 DEF FiltersArrive
      <3>1. r \in Nat /\ c \in Nat
        BY <1>4
      <3>2. Active(r, c)
        BY <2>1, <3>1
      <3>3. wbuffer2s[<<r + 1, c>>] = <<Col(c), t - r - c>>
        BY <1>1, <1>7, <3>2 DEF OSInv, FiltersArrive
      <3>4. (t + 1) - (r + 1) - c = t - r - c
        BY <1>4, <3>1
      <3>. QED BY <3>3, <3>4
    <2>6. 0 \in Rows /\ 0 \in Cols
      BY <1>1, Frame DEF Rows, Cols
    <2>7. RowsCounted'
      <3>. SUFFICES ASSUME NEW r \in Rows
                    PROVE  /\ Active(r, 0)' => bankReads[Row(r)] = (t + 1) - r + 0
                           /\ t + 1 < r => bankReads[Row(r)] = 0
        BY <1>2, <1>3, <1>7, <2>2, <2>6 DEF RowsCounted, Taken
      <3>1. /\ Active(r, 0) => bankReads[Row(r)] = t - r + 1
            /\ t < r => bankReads[Row(r)] = 0
        BY <1>1, <1>5 DEF OSInv, RowsCounted, Taken
      <3>2. r \in Nat /\ (Active(r, 0)' => t + 1 >= r) /\ (Active(r, 0)' /\ t >= r => Active(r, 0))
        BY <1>4, <2>1
      <3>. QED BY <1>4, <3>1, <3>2
    <2>8. ColsCounted'
      <3>. SUFFICES ASSUME NEW c \in Cols
                    PROVE  /\ Active(0, c)' => bankReads[Col(c)] = (t + 1) - c + 0
                           /\ t + 1 < c => bankReads[Col(c)] = 0
        BY <1>2, <1>3, <1>7, <2>2, <2>6 DEF ColsCounted, Taken
      <3>1. /\ Active(0, c) => bankReads[Col(c)] = t - c + 1
            /\ t < c => bankReads[Col(c)] = 0
        BY <1>1, <1>5 DEF OSInv, ColsCounted, Taken
      <3>2. c \in Nat /\ (Active(0, c)' => t + 1 >= c) /\ (Active(0, c)' /\ t >= c => Active(0, c))
        BY <1>4, <2>1
      <3>. QED BY <1>4, <3>1, <3>2
    <2>. QED BY <1>1, <1>2, <2>3, <2>4, <2>5, <2>7, <2>8 DEF Inv, OSInv
  <1>8. CASE round = "write" /\ stage' = "done" /\ UNCHANGED <<t, round, pending>>
    <2>1. \A r, c : Active(r, c)' = Active(r, c)
      BY <1>2, <1>8 DEF Active
    <2>2. \A p : HasRead(p)' = HasRead(p)
      BY <1>8 DEF HasRead
    <2>. QED
      BY <1>1, <1>2, <1>3, <1>8, <2>1, <2>2
         DEF Inv, OSInv, Shape, Flown, IfmapsArrive, FiltersArrive, RowsCounted, ColsCounted, Taken
  <1>. QED BY <1>6, <1>7, <1>8 DEF OSAwaits

(* Nothing else moves in an output stationary array. *)
LEMMA StationaryInv == ASSUME Inv, StationaryNext
                       PROVE  Inv'
  <1>1. layer' = layer /\ layer.dataflow # "OS"
    BY DEF StationaryNext, ISLoads, WSLoads, ISReads, WSReads, ISWrites, WSWrites, ISCopies,
           WSCopies, ISLoadCopies, WSLoadCopies, Awaits, Copies, ReadsPE, WritesPE, Runs,
           In, place
  <1>. QED BY <1>1 DEF Inv

LEMMA NextInv == ASSUME Inv, [Next]_vars
                 PROVE  Inv'
  <1>1. CASE OSNext
    <2>1. CASE OSAwaits
      BY <2>1, OSAwaitsInv
    <2>2. ASSUME NEW p \in pending,
                 OSReads(p[1], p[2]) \/ OSIdles(p[1], p[2]) \/ OSWrites(p[1], p[2])
          PROVE  Inv'
      <3>1. layer.dataflow = "OS"
        BY <2>2 DEF OSReads, OSIdles, OSWrites, In
      <3>2. p[1] \in Rows /\ p[2] \in Cols
        BY <3>1, Frame DEF Inv, OSInv, Shape
      <3>. QED BY <2>2, <3>2, OSReadsInv, OSIdlesInv, OSWritesInv
    <2>. QED BY <1>1, <2>1, <2>2 DEF OSNext
  <1>2. CASE StationaryNext
    BY <1>2, StationaryInv
  <1>3. CASE UNCHANGED vars
    <2>1. /\ layer' = layer /\ v' = v /\ h' = h /\ stage' = stage /\ round' = round
          /\ t' = t /\ pending' = pending /\ bankReads' = bankReads
          /\ ibuffer2s' = ibuffer2s /\ wbuffer2s' = wbuffer2s
          /\ ifmap_flight' = ifmap_flight /\ filter_flight' = filter_flight
      BY <1>3 DEF vars, place, registers, flights
    <2>2. \A p : HasRead(p)' = HasRead(p)
      BY <2>1 DEF HasRead
    <2>3. \A r, c : Active(r, c)' = Active(r, c)
      BY <2>1 DEF Active
    <2>. SUFFICES ASSUME layer \in Layers, layer.dataflow = "OS", OSInv PROVE OSInv'
      BY <2>1 DEF Inv
    <2>4. /\ Rows' = Rows /\ Cols' = Cols /\ Used' = Used /\ Array' = Array /\ Banks' = Banks
          /\ \A r : Row(r)' = Row(r)
          /\ \A c : Col(c)' = Col(c)
      BY <2>1, FrameKept
    <2>. QED
      BY <2>1, <2>2, <2>3, <2>4
         DEF OSInv, Shape, Flown, IfmapsArrive, FiltersArrive, RowsCounted, ColsCounted, Taken
  <1>. QED BY <1>1, <1>2, <1>3 DEF Next

LEMMA InvAligned == Inv => Aligned
  <1>. SUFFICES ASSUME Inv, layer.dataflow = "OS", NEW r \in Rows, NEW c \in Cols,
                       HasRead(<<r, c>>), ifmap_flight[<<r, c>>] # non
                PROVE  /\ ifmap_flight[<<r, c>>] = <<Row(r), t - r - c>>
                       /\ filter_flight[<<r, c>>] = <<Col(c), t - r - c>>
    BY DEF Aligned, Rows, Cols
  <1>. QED BY DEF Inv, OSInv, Flown

(***************************************************************************)
(* For every layer and array, and every order in which the launches of a   *)
(* round run, an output stationary PE never multiplies an ifmap value and  *)
(* a filter value that do not belong together.                             *)
(***************************************************************************)
THEOREM OperandsAligned == Spec => []Aligned
  <1>1. Init => Inv
    BY InitInv
  <1>2. Inv /\ [Next]_vars => Inv'
    BY NextInv
  <1>3. Inv => Aligned
    BY InvAligned
  <1>. QED BY <1>1, <1>2, <1>3, PTL DEF Spec

-----------------------------------------------------------------------------
(* A non-empty set of naturals has a least element.                         *)
LEMMA LeastOfNaturals ==
  ASSUME NEW S \in SUBSET Nat, S # {}
  PROVE  \E x \in S : \A y \in S : x <= y
  <1>. DEFINE less == {ss \in Nat \X Nat : ss[1] < ss[2]}
  <1>1. IsWellFoundedOn(less, Nat)
    BY NatLessThanWellFounded DEF OpToRel
  <1>2. PICK x \in S : \A y \in S : ~(<<y, x>> \in less)
    BY <1>1, WFMin
  <1>3. ASSUME NEW y \in S PROVE x <= y
    <2>1. x \in Nat /\ y \in Nat /\ <<y, x>> \in Nat \X Nat
      OBVIOUS
    <2>. QED BY <1>2, <2>1
  <1>. QED BY <1>3

(* The walk from the last PE: after k steps it is at the k-th from the end. *)
LEMMA WalkBack ==
  ASSUME NEW L, LayerTypeOK(L), NEW r \in 0 .. L.array_height - 1,
         NEW c \in 0 .. L.array_width - 1
  PROVE  /\ r * L.array_width + c \in 0 .. PECount(L) - 1
         /\ peAt(L, r, c) = PECount(L) - 1 - (r * L.array_width + c)
  <1>. DEFINE N == PECount(L)
              next(g) == [k \in 0 .. N - 1 |->
                            IF k = 0 THEN N - 1 ELSE pe_array(L)[g[k - 1]].pes]
              walk == CHOOSE g : g = next(g)
              back == [k \in 0 .. N - 1 |-> N - 1 - k]
              number == r * L.array_width + c
  <1>0. L.array_height \in Nat \ {0} /\ L.array_width \in Nat \ {0}
    BY LayerSizes
  <1>1. number \in 0 .. N - 1 /\ N \in Nat
    <2>. DEFINE w == L.array_width
                x == L.array_height
    <2>1. w \in Nat \ {0} /\ x \in Nat \ {0} /\ r \in 0 .. x - 1 /\ c \in 0 .. w - 1
      BY <1>0
    <2>. HIDE DEF w, x
    <2>2. (r + 1) * w <= x * w /\ (r + 1) * w = r * w + w /\ r * w \in Nat /\ x * w \in Nat
      BY <2>1, SMT
    <2>3. r * w + c \in 0 .. x * w - 1
      BY <2>1, <2>2, SMT
    <2>. QED BY <2>2, <2>3 DEF w, x, PECount
  <1>2. peAt(L, r, c) = walk[number]
    BY DEF peAt
  <1>. HIDE DEF N, number
  <1>3. \A n \in 0 .. N - 1 : pe_array(L)[n].pes = n - 1
    BY DEF pe_array, N
  <1>4. walk = next(walk)
    <2>1. \A k \in 0 .. N - 1 : (IF k = 0 THEN N - 1 ELSE pe_array(L)[back[k - 1]].pes) = N - 1 - k
      <3>. SUFFICES ASSUME NEW k \in 0 .. N - 1
                    PROVE  (IF k = 0 THEN N - 1 ELSE pe_array(L)[back[k - 1]].pes) = N - 1 - k
        OBVIOUS
      <3>1. CASE k = 0
        BY <1>1, <3>1
      <3>2. CASE k # 0
        <4>1. k - 1 \in 0 .. N - 1 /\ back[k - 1] = N - k /\ N - k \in 0 .. N - 1
          BY <1>1, <3>2
        <4>2. pe_array(L)[back[k - 1]].pes = N - k - 1
          BY <1>3, <4>1
        <4>. QED BY <1>1, <3>2, <4>2
      <3>. QED BY <3>1, <3>2
    <2>2. next(back) = back
      BY <2>1
    <2>. HIDE DEF next, back
    <2>. QED BY <2>2
  <1>. HIDE DEF walk
  <1>5. \A k \in 0 .. N - 1 :
          walk[k] = IF k = 0 THEN N - 1 ELSE pe_array(L)[walk[k - 1]].pes
    BY <1>4
  <1>6. \A k \in 0 .. N - 1 : walk[k] = N - 1 - k
    <2>. DEFINE wrong == {k \in 0 .. N - 1 : walk[k] # N - 1 - k}
    <2>. SUFFICES ASSUME wrong # {} PROVE FALSE
      OBVIOUS
    <2>1. PICK k \in wrong : \A y \in wrong : k <= y
      <3>1. wrong \in SUBSET Nat
        OBVIOUS
      <3>. HIDE DEF wrong
      <3>. QED BY <3>1, LeastOfNaturals
    <2>2. k \in 0 .. N - 1 /\ walk[k] # N - 1 - k
      BY <2>1
    <2>3. k # 0
      BY <1>1, <1>5, <2>2
    <2>4. k - 1 \in 0 .. N - 1 /\ ~(k <= k - 1)
      BY <1>1, <2>2, <2>3
    <2>5. walk[k - 1] = N - 1 - (k - 1)
      BY <2>1, <2>4
    <2>6. N - 1 - (k - 1) \in 0 .. N - 1 /\ N - 1 - (k - 1) - 1 = N - 1 - k
      BY <1>1, <2>2, <2>3
    <2>. QED BY <1>3, <1>5, <2>2, <2>3, <2>5, <2>6
  <1>. QED BY <1>1, <1>2, <1>6 DEF N, number

(* A place is determined by its number in the chain. *)
LEMMA PlaceOfNumber ==
  ASSUME NEW w \in Nat \ {0}, NEW r \in Nat, NEW s \in Nat,
         NEW c \in 0 .. w - 1, NEW d \in 0 .. w - 1, r * w + c = s * w + d
  PROVE  r = s /\ c = d
  <1>1. ASSUME NEW x \in Nat, NEW y \in Nat, x < y PROVE x * w + w <= y * w
    <2>1. (x + 1) * w <= y * w /\ (x + 1) * w = x * w + w
      BY <1>1, SMT
    <2>. QED BY <2>1
  <1>2. r * w \in Nat /\ s * w \in Nat
    BY SMT
  <1>3. ~(r < s)
    <2>. SUFFICES ASSUME r < s PROVE FALSE
      OBVIOUS
    <2>1. r * w + w <= s * w
      BY <1>1
    <2>. DEFINE a == r * w
                b == s * w
    <2>2. a \in Nat /\ b \in Nat /\ a + w <= b /\ a + c = b + d
      BY <1>2, <2>1
    <2>. HIDE DEF a, b
    <2>. QED BY <2>2
  <1>4. ~(s < r)
    <2>. SUFFICES ASSUME s < r PROVE FALSE
      OBVIOUS
    <2>1. s * w + w <= r * w
      BY <1>1
    <2>. DEFINE a == r * w
                b == s * w
    <2>2. a \in Nat /\ b \in Nat /\ b + w <= a /\ a + c = b + d
      BY <1>2, <2>1
    <2>. HIDE DEF a, b
    <2>. QED BY <2>2
  <1>5. r = s
    BY <1>3, <1>4
  <1>. DEFINE a == r * w
  <1>6. a \in Nat /\ a + c = a + d
    BY <1>2, <1>5
  <1>. HIDE DEF a
  <1>. QED BY <1>5, <1>6

(***************************************************************************)
(* In an array of any size, walking the chain of components back from the  *)
(* last one gives each place a PE of its own.                              *)
(***************************************************************************)
THEOREM OwnPEs == Spec => []OnePEPerPlace
  <1>1. layer \in Layers => OnePEPerPlace
    <2>. SUFFICES ASSUME layer \in Layers, NEW p \in Array, NEW q \in Array
                  PROVE  LET pe(x) == pe_array(layer)[peAt(layer, x[1], x[2])]
                         IN  /\ pe(p).mem = pe(p).proc
                             /\ pe(p).proc = pe(q).proc => p = q
      BY DEF OnePEPerPlace
    <2>. DEFINE w == layer.array_width
                N == PECount(layer)
                n(x) == x[1] * w + x[2]
    <2>1. LayerTypeOK(layer) /\ w \in Nat \ {0} /\ layer.array_height \in Nat \ {0}
      BY LayersAssumption, LayerSizes
    <2>2. ASSUME NEW x \in Array
          PROVE  /\ x[1] \in 0 .. layer.array_height - 1 /\ x[2] \in 0 .. w - 1 /\ x = <<x[1], x[2]>>
                 /\ n(x) \in 0 .. N - 1
                 /\ peAt(layer, x[1], x[2]) = N - 1 - n(x)
      <3>1. x[1] \in 0 .. layer.array_height - 1 /\ x[2] \in 0 .. w - 1 /\ x = <<x[1], x[2]>>
        BY DEF Array, Places
      <3>. QED BY <2>1, <3>1, WalkBack
    <2>3. N \in Nat
      <3>1. ASSUME NEW a \in Nat, NEW b \in Nat PROVE a * b \in Nat
        BY SMT
      <3>. QED BY <2>1, <3>1 DEF PECount
    <2>. HIDE DEF N, n
    <2>4. \A m \in 0 .. N - 1 : pe_array(layer)[m].mem = m /\ pe_array(layer)[m].proc = m
      BY DEF pe_array, N
    <2>5. ASSUME NEW x \in Array
          PROVE  /\ pe_array(layer)[peAt(layer, x[1], x[2])].mem = N - 1 - n(x)
                 /\ pe_array(layer)[peAt(layer, x[1], x[2])].proc = N - 1 - n(x)
      <3>1. N - 1 - n(x) \in 0 .. N - 1
        BY <2>2, <2>3
      <3>. QED BY <2>2, <2>4, <3>1
    <2>6. ASSUME N - 1 - n(p) = N - 1 - n(q) PROVE p = q
      <3>1. n(p) = n(q)
        BY <2>2, <2>3, <2>6
      <3>2. p[1] \in Nat /\ q[1] \in Nat
        BY <2>1, <2>2
      <3>3. p[1] = q[1] /\ p[2] = q[2]
        BY <2>1, <2>2, <3>1, <3>2, PlaceOfNumber DEF n
      <3>. QED BY <2>2, <3>3
    <2>. QED BY <2>5, <2>6
  <1>2. Inv => OnePEPerPlace
    BY <1>1 DEF Inv
  <1>3. Inv /\ [Next]_vars => Inv'
    BY NextInv
  <1>. QED BY <1>2, <1>3, InitInv, PTL DEF Spec

-----------------------------------------------------------------------------
(* d % p counts up to p - 1 and starts again.                               *)
LEMMA OneFurther ==
  ASSUME NEW p \in Nat \ {0}, NEW d \in Nat \ {0}
  PROVE  /\ d % p = 0 => (d - 1) % p = p - 1
         /\ d % p # 0 => ((d - 1) % p) + 1 = d % p
  <1>. DEFINE q == d \div p
              k == (d - 1) \div p
              a == d % p
              b == (d - 1) % p
  <1>1. q \in Int /\ k \in Int /\ a \in 0 .. p - 1 /\ b \in 0 .. p - 1
    BY SMT
  <1>2. d = q * p + a /\ d - 1 = k * p + b
    BY SMT
  <1>. HIDE DEF q, k, a, b
  <1>3. q * p \in Int /\ k * p \in Int /\ q * p - k * p = 1 + b - a
    BY <1>1, <1>2, SMT
  <1>4. ~(q < k)
    <2>. SUFFICES ASSUME q < k PROVE FALSE
      OBVIOUS
    <2>1. (q + 1) * p <= k * p /\ (q + 1) * p = q * p + p
      BY <1>1, SMT
    <2>. QED BY <1>1, <1>3, <2>1
  <1>5. ~(q > k + 1)
    <2>. SUFFICES ASSUME q > k + 1 PROVE FALSE
      OBVIOUS
    <2>1. (k + 2) * p <= q * p /\ (k + 2) * p = k * p + p + p
      BY <1>1, SMT
    <2>. QED BY <1>1, <1>3, <2>1
  <1>6. CASE q = k
    <2>1. a = b + 1
      BY <1>1, <1>3, <1>6
    <2>. QED BY <1>1, <2>1 DEF a, b
  <1>7. CASE q = k + 1
    <2>1. q * p = k * p + p
      BY <1>1, <1>7, SMT
    <2>2. a = 0 /\ b = p - 1
      BY <1>1, <1>3, <2>1
    <2>. QED BY <1>1, <2>2 DEF a, b
  <1>. QED BY <1>1, <1>4, <1>5, <1>6, <1>7

(* An array makes some cycles.                                              *)
LEMMA CyclesType == ASSUME NEW L, LayerTypeOK(L)
                    PROVE  total_cycles(L) \in Int /\ px_per_conv(L) \in Nat \ {0}
  <1>1. ASSUME NEW a \in Int, NEW b \in Int PROVE a * b \in Int
    BY SMT
  <1>. DEFINE x == OSFiltersFold(L) * OSPixelsFold(L) * px_per_conv(L)
  <1>2. x \in Int
    BY <1>1, LayerSizes
  <1>. HIDE DEF x
  <1>3. x + last_width(L) + last_height(L) \in Int
    BY <1>2, LayerSizes
  <1>. QED BY <1>3, LayerSizes DEF total_cycles, x

(* For how many steps the ofmap in a PE that has run n times has been there: *)
(* one was put out in the first run, and in every px_per_conv-th from there. *)
Kept(n) == IF n = 0 THEN 0 ELSE (n - 1) % px_per_conv(layer)

(* The ofmap that a PE reads in step s when it has run n times before.      *)
Begun(s, n) == IF n = 0 THEN 0 ELSE s - Kept(n)

(* The PE at row r and column c: what it keeps, and what its launch has     *)
(* returned, as long as it still puts results out.                          *)
SumOf(r, c) ==
  /\ HasRead(<<r, c>>) /\ ~Active(r, c) => ofmap_flight[<<r, c>>] = non
  /\ t + r + c <= total_cycles(layer) =>
       /\ t < r + c => obuffer2s[<<r, c>>] = 0
       /\ Active(r, c) =>
            /\ ~HasRead(<<r, c>>) => obuffer2s[<<r, c>>] = Begun(t, t - r - c)
            /\ HasRead(<<r, c>>) => ofmap_flight[<<r, c>>] = Begun(t, t - r - c)
            /\ round = "write" /\ <<r, c>> \notin pending =>
                 obuffer2s[<<r, c>>] = Begun(t + 1, t + 1 - r - c)

SumsKept ==
  /\ obuffer2s \in [Array -> Nat]
  /\ ofmap_flight \in [Array -> Nat \cup {non}]
  /\ \A r \in Rows, c \in Cols : SumOf(r, c)

SumInv == layer.dataflow = "OS" => SumsKept

LEMMA KeptType ==
  ASSUME layer \in Layers, NEW n \in Nat
  PROVE  /\ Kept(n) \in Nat
         /\ n # 0 /\ n % px_per_conv(layer) = 0 => Kept(n) + 1 = px_per_conv(layer)
         /\ Kept(n + 1) = IF n % px_per_conv(layer) = 0 THEN 0 ELSE Kept(n) + 1
  <1>. DEFINE px == px_per_conv(layer)
  <1>1. px \in Nat \ {0}
    BY LayersAssumption, CyclesType
  <1>. HIDE DEF px
  <1>2. 0 % px = 0 /\ \A k \in Nat : k % px \in 0 .. px - 1
    BY <1>1, SMT
  <1>3. CASE n = 0
    <2>1. Kept(n) = 0
      BY <1>3 DEF Kept
    <2>2. Kept(n + 1) = 0 % px
      <3>1. n + 1 # 0 /\ (n + 1) - 1 = 0
        BY <1>3
      <3>. QED BY <3>1 DEF Kept, px
    <2>. QED BY <1>2, <1>3, <2>1, <2>2 DEF px
  <1>4. CASE n # 0
    <2>1. n \in Nat \ {0} /\ n - 1 \in Nat /\ n + 1 # 0 /\ (n + 1) - 1 = n
      BY <1>4
    <2>2. Kept(n) = (n - 1) % px /\ Kept(n + 1) = n % px
      BY <1>4, <2>1 DEF Kept, px
    <2>3. (n - 1) % px \in 0 .. px - 1
      BY <1>2, <2>1
    <2>4. /\ n % px = 0 => (n - 1) % px = px - 1
          /\ n % px # 0 => ((n - 1) % px) + 1 = n % px
      BY <1>1, <2>1, OneFurther
    <2>5. Kept(n) \in Nat
      BY <1>1, <2>2, <2>3
    <2>6. n % px = 0 => Kept(n) + 1 = px
      BY <1>1, <2>2, <2>4
    <2>7. Kept(n + 1) = IF n % px = 0 THEN 0 ELSE Kept(n) + 1
      BY <2>2, <2>4
    <2>. QED BY <2>5, <2>6, <2>7 DEF px
  <1>. QED BY <1>3, <1>4

LEMMA BegunType ==
  ASSUME layer \in Layers, NEW s \in Nat, NEW n \in Nat, n <= s
  PROVE  /\ Begun(s, n) \in Nat
         /\ n # 0 /\ n % px_per_conv(layer) = 0 => Begun(s, n) = s + 1 - px_per_conv(layer)
         /\ Begun(s + 1, n + 1) = IF n % px_per_conv(layer) = 0 THEN s + 1 ELSE Begun(s, n)
  <1>. DEFINE px == px_per_conv(layer)
  <1>1. px \in Nat \ {0}
    BY LayersAssumption, CyclesType
  <1>2. /\ Kept(n) \in Nat
        /\ n # 0 /\ n % px = 0 => Kept(n) + 1 = px
        /\ Kept(n + 1) = IF n % px = 0 THEN 0 ELSE Kept(n) + 1
    BY KeptType
  <1>3. n # 0 => Kept(n) <= n - 1
    <2>1. \A k \in Nat : px \in Nat \ {0} => k % px <= k
      <3>. HIDE DEF px
      <3>. QED BY SMT
    <2>. QED BY <1>1, <2>1 DEF Kept
  <1>4. n = 0 => n % px = 0
    <2>. HIDE DEF px
    <2>. QED BY <1>1, SMT
  <1>5. Begun(s + 1, n + 1) = (s + 1) - Kept(n + 1)
    BY DEF Begun
  <1>6. /\ n = 0 => Begun(s, n) = 0
        /\ n # 0 => Begun(s, n) = s - Kept(n)
    BY DEF Begun
  <1>. HIDE DEF px
  <1>7. Begun(s, n) \in Nat /\ (n # 0 /\ n % px = 0 => Begun(s, n) = s + 1 - px)
    BY <1>1, <1>2, <1>3, <1>6
  <1>8. Begun(s + 1, n + 1) = IF n % px = 0 THEN s + 1 ELSE Begun(s, n)
    <2>1. CASE n % px = 0
      BY <1>2, <1>5, <2>1
    <2>2. CASE n % px # 0
      <3>1. n # 0 /\ Kept(n + 1) = Kept(n) + 1
        BY <1>2, <1>4, <2>2
      <3>. QED BY <1>2, <1>5, <1>6, <2>2, <3>1
    <2>. QED BY <2>1, <2>2
  <1>. QED BY <1>7, <1>8 DEF px

(* A PE that has no part in a step.                                         *)
LEMMA SumOfKept ==
  ASSUME NEW r, NEW c, layer' = layer, t' = t, round' = round, SumOf(r, c),
         <<r, c>> \in pending' <=> <<r, c>> \in pending,
         obuffer2s'[<<r, c>>] = obuffer2s[<<r, c>>],
         ofmap_flight'[<<r, c>>] = ofmap_flight[<<r, c>>]
  PROVE  SumOf(r, c)'
  <1>1. HasRead(<<r, c>>)' <=> HasRead(<<r, c>>)
    BY DEF HasRead
  <1>2. Active(r, c)' <=> Active(r, c)
    BY DEF Active
  <1>3. \A s, n : Begun(s, n)' = Begun(s, n)
    BY DEF Begun, Kept
  <1>. QED BY <1>1, <1>2, <1>3 DEF SumOf

(* What a launch of the PE at row i and column j leaves to show.            *)
LEMMA SumStep ==
  ASSUME Inv, SumInv, layer.dataflow = "OS", NEW i \in Rows, NEW j \in Cols, Runs(i, j),
         obuffer2s' \in [Array -> Nat], ofmap_flight' \in [Array -> Nat \cup {non}],
         \A p : p # <<i, j>> => /\ obuffer2s'[p] = obuffer2s[p]
                               /\ ofmap_flight'[p] = ofmap_flight[p],
         SumOf(i, j)'
  PROVE  SumInv'
  <1>1. layer \in Layers /\ SumsKept
    BY DEF Inv, SumInv
  <1>2. /\ layer' = layer /\ v' = v /\ h' = h /\ t' = t /\ round' = round
        /\ pending' = pending \ {<<i, j>>}
    BY DEF Runs, place
  <1>3. Rows' = Rows /\ Cols' = Cols /\ Array' = Array
    BY <1>2, FrameKept
  <1>4. ASSUME NEW r \in Rows, NEW c \in Cols PROVE SumOf(r, c)'
    <2>1. CASE r = i /\ c = j
      BY <2>1
    <2>2. CASE ~(r = i /\ c = j)
      <3>1. <<r, c>> # <<i, j>>
        BY <2>2
      <3>2. SumOf(r, c)
        BY <1>1 DEF SumsKept
      <3>. QED BY <1>2, <3>1, <3>2, SumOfKept
    <2>. QED BY <2>1, <2>2
  <1>5. SumsKept'
    BY <1>3, <1>4 DEF SumsKept
  <1>. QED BY <1>5 DEF SumInv

LEMMA OSReadsSums == ASSUME Inv, SumInv, NEW i \in Rows, NEW j \in Cols, OSReads(i, j)
                     PROVE  SumInv'
  <1>1. /\ layer.dataflow = "OS" /\ round = "read" /\ Runs(i, j) /\ Active(i, j)
        /\ obuffer2s' = obuffer2s
        /\ ofmap_flight' = [ofmap_flight EXCEPT ![<<i, j>>] = obuffer2s[<<i, j>>]]
    BY DEF OSReads, In, Active, registers
  <1>2. layer \in Layers /\ OSInv /\ SumsKept
    BY <1>1 DEF Inv, SumInv
  <1>3. /\ layer' = layer /\ t' = t /\ round' = round
        /\ <<i, j>> \in pending /\ pending' = pending \ {<<i, j>>}
    BY <1>1 DEF Runs, place
  <1>4. <<i, j>> \in Array /\ i \in Nat /\ j \in Nat /\ t \in Nat
    BY <1>1, <1>2, Frame DEF OSInv, Shape
  <1>5. obuffer2s[<<i, j>>] \in Nat
    BY <1>2, <1>4 DEF SumsKept
  <1>6. /\ ofmap_flight' \in [Array -> Nat \cup {non}]
        /\ ofmap_flight'[<<i, j>>] = obuffer2s[<<i, j>>]
        /\ \A p : p # <<i, j>> => ofmap_flight'[p] = ofmap_flight[p]
    <2>. DEFINE x == obuffer2s[<<i, j>>]
    <2>1. x \in Nat
      BY <1>5
    <2>. HIDE DEF x
    <2>2. ofmap_flight' = [ofmap_flight EXCEPT ![<<i, j>>] = x]
      BY <1>1 DEF x
    <2>3. /\ ofmap_flight' \in [Array -> Nat \cup {non}]
          /\ ofmap_flight'[<<i, j>>] = x
      BY <1>2, <1>4, <2>1, <2>2 DEF SumsKept
    <2>4. \A p : p # <<i, j>> => ofmap_flight'[p] = ofmap_flight[p]
      BY <1>2, <2>2 DEF SumsKept
    <2>. QED BY <2>3, <2>4 DEF x
  <1>7. SumOf(i, j)'
    <2>1. HasRead(<<i, j>>)' /\ Active(i, j)' /\ ~HasRead(<<i, j>>) /\ t >= i + j
      BY <1>1, <1>2, <1>3, <1>4, Frame, ActiveNext DEF HasRead, Active
    <2>2. t + i + j <= total_cycles(layer) => obuffer2s[<<i, j>>] = Begun(t, t - i - j)
      BY <1>1, <1>2, <2>1 DEF SumsKept, SumOf
    <2>3. \A s, n : Begun(s, n)' = Begun(s, n)
      BY <1>3 DEF Begun, Kept
    <2>4. ~(t < i + j) /\ round' # "write"
      BY <1>1, <1>3, <1>4, <2>1
    <2>. QED BY <1>3, <1>6, <2>1, <2>2, <2>3, <2>4 DEF SumOf
  <1>. QED BY <1>1, <1>2, <1>6, <1>7, SumStep DEF SumsKept

LEMMA OSIdlesSums == ASSUME Inv, SumInv, NEW i \in Rows, NEW j \in Cols, OSIdles(i, j)
                     PROVE  SumInv'
  <1>1. /\ layer.dataflow = "OS" /\ round = "read" /\ Runs(i, j) /\ ~Active(i, j)
        /\ obuffer2s' = obuffer2s
        /\ ofmap_flight' = [ofmap_flight EXCEPT ![<<i, j>>] = non]
    BY DEF OSIdles, In, Active, registers
  <1>2. layer \in Layers /\ OSInv /\ SumsKept
    BY <1>1 DEF Inv, SumInv
  <1>3. /\ layer' = layer /\ t' = t /\ round' = round
        /\ <<i, j>> \in pending /\ pending' = pending \ {<<i, j>>}
    BY <1>1 DEF Runs, place
  <1>4. <<i, j>> \in Array
    BY <1>1, <1>2, Frame
  <1>5. /\ ofmap_flight' \in [Array -> Nat \cup {non}]
        /\ ofmap_flight'[<<i, j>>] = non
        /\ \A p : p # <<i, j>> => ofmap_flight'[p] = ofmap_flight[p]
    <2>1. /\ ofmap_flight' \in [Array -> Nat \cup {non}]
          /\ ofmap_flight'[<<i, j>>] = non
      BY <1>1, <1>2, <1>4 DEF SumsKept
    <2>2. \A p : p # <<i, j>> => ofmap_flight'[p] = ofmap_flight[p]
      BY <1>1, <1>2 DEF SumsKept
    <2>. QED BY <2>1, <2>2
  <1>6. SumOf(i, j)'
    <2>1. ~Active(i, j)'
      BY <1>1, <1>3 DEF Active
    <2>2. t + i + j <= total_cycles(layer) /\ t < i + j => obuffer2s[<<i, j>>] = 0
      BY <1>2 DEF SumsKept, SumOf
    <2>. QED BY <1>1, <1>3, <1>5, <2>1, <2>2 DEF SumOf
  <1>. QED BY <1>1, <1>2, <1>5, <1>6, SumStep DEF SumsKept

LEMMA OSWritesSums == ASSUME Inv, SumInv, NEW i \in Rows, NEW j \in Cols, OSWrites(i, j)
                      PROVE  SumInv'
  <1>1. /\ layer.dataflow = "OS" /\ round = "write" /\ Runs(i, j)
        /\ OSStores(i, j) /\ ofmap_flight' = ofmap_flight
    BY DEF OSWrites, In, flights
  <1>2. layer \in Layers /\ OSInv /\ SumsKept
    BY <1>1 DEF Inv, SumInv
  <1>3. /\ layer' = layer /\ t' = t /\ round' = round
        /\ <<i, j>> \in pending /\ pending' = pending \ {<<i, j>>}
    BY <1>1 DEF Runs, place
  <1>4. <<i, j>> \in Array /\ i \in Nat /\ j \in Nat /\ t \in Nat
    BY <1>1, <1>2, Frame DEF OSInv, Shape
  <1>. DEFINE o == ofmap_flight[<<i, j>>]
              T == total_cycles(layer)
              px == px_per_conv(layer)
  <1>5. o \in Nat \cup {non} /\ T \in Int
    BY <1>2, <1>4, LayersAssumption, CyclesType DEF SumsKept
  <1>6. /\ o = non \/ ~(t >= j + i /\ t + j + i <= T) => obuffer2s' = obuffer2s
        /\ ~(o = non \/ ~(t >= j + i /\ t + j + i <= T)) =>
             obuffer2s' = [obuffer2s EXCEPT ![<<i, j>>] =
                             IF (t - j - i) % px = 0 THEN t + 1 ELSE o]
    BY <1>1 DEF OSStores
  <1>. HIDE DEF o, T, px
  <1>7. /\ obuffer2s' \in [Array -> Nat]
        /\ \A p : p # <<i, j>> => obuffer2s'[p] = obuffer2s[p]
    <2>1. CASE o = non \/ ~(t >= j + i /\ t + j + i <= T)
      BY <1>2, <1>6, <2>1 DEF SumsKept
    <2>2. CASE ~(o = non \/ ~(t >= j + i /\ t + j + i <= T))
      <3>. DEFINE x == IF (t - j - i) % px = 0 THEN t + 1 ELSE o
      <3>1. x \in Nat
        BY <1>4, <1>5, <2>2
      <3>2. obuffer2s' = [obuffer2s EXCEPT ![<<i, j>>] = x]
        BY <1>6, <2>2
      <3>. HIDE DEF x
      <3>3. obuffer2s' \in [Array -> Nat]
        BY <1>2, <3>1, <3>2 DEF SumsKept
      <3>4. \A p : p # <<i, j>> => obuffer2s'[p] = obuffer2s[p]
        BY <1>2, <3>2 DEF SumsKept
      <3>. QED BY <3>3, <3>4
    <2>. QED BY <2>1, <2>2
  <1>8. SumOf(i, j)'
    <2>1. HasRead(<<i, j>>)' /\ HasRead(<<i, j>>)
      BY <1>1, <1>3 DEF HasRead
    <2>2. Active(i, j)' <=> Active(i, j)
      BY <1>3 DEF Active
    <2>3. \A s, n : Begun(s, n)' = Begun(s, n)
      BY <1>3 DEF Begun, Kept
    <2>4. SumOf(i, j)
      BY <1>2 DEF SumsKept
    <2>5. CASE ~Active(i, j)
      <3>1. o = non
        BY <2>1, <2>4, <2>5 DEF SumOf, o
      <3>2. obuffer2s' = obuffer2s
        BY <1>6, <3>1
      <3>3. t + i + j <= total_cycles(layer) /\ t < i + j => obuffer2s[<<i, j>>] = 0
        BY <2>4 DEF SumOf
      <3>. QED BY <1>1, <1>3, <2>1, <2>2, <2>5, <3>1, <3>2, <3>3 DEF SumOf, o
    <2>6. CASE Active(i, j) /\ ~(t + i + j <= T)
      BY <1>3, <2>1, <2>2, <2>6 DEF SumOf, T
    <2>7. CASE Active(i, j) /\ t + i + j <= T
      <3>1. t >= i + j
        BY <1>2, <1>4, <2>7, LayersAssumption, ActiveNext DEF Active
      <3>. DEFINE d == t - i - j
      <3>2. d \in Nat /\ d <= t /\ t - j - i = d /\ t + 1 - i - j = d + 1
        BY <1>4, <3>1
      <3>3. o = Begun(t, d)
        BY <2>1, <2>4, <2>7 DEF SumOf, o, T
      <3>. HIDE DEF d
      <3>4. /\ Begun(t, d) \in Nat
            /\ Begun(t + 1, d + 1) = IF d % px = 0 THEN t + 1 ELSE Begun(t, d)
        BY <1>2, <1>4, <3>2, BegunType DEF px
      <3>5. o # non
        BY <3>3, <3>4, NonAssumption
      <3>6. t >= j + i /\ t + j + i <= T
        BY <1>4, <1>5, <2>7, <3>1
      <3>7. obuffer2s'[<<i, j>>] = Begun(t + 1, t + 1 - i - j)
        <4>. DEFINE x == IF d % px = 0 THEN t + 1 ELSE o
        <4>1. obuffer2s' = [obuffer2s EXCEPT ![<<i, j>>] = x]
          BY <1>6, <3>2, <3>5, <3>6
        <4>2. x = Begun(t + 1, t + 1 - i - j)
          BY <3>2, <3>3, <3>4
        <4>. HIDE DEF x
        <4>. QED BY <1>2, <1>4, <4>1, <4>2 DEF SumsKept
      <3>8. ~(t < i + j)
        BY <1>4, <3>1
      <3>9. ofmap_flight'[<<i, j>>] = Begun(t, t - i - j)
        BY <1>1, <3>3 DEF o, d
      <3>. QED BY <1>3, <2>1, <2>2, <2>3, <2>7, <3>7, <3>8, <3>9 DEF SumOf
    <2>. QED BY <2>5, <2>6, <2>7
  <1>. QED BY <1>1, <1>2, <1>7, <1>8, SumStep DEF SumsKept

LEMMA OSAwaitsSums == ASSUME Inv, SumInv, OSAwaits
                      PROVE  SumInv'
  <1>1. /\ layer.dataflow = "OS" /\ pending = {}
        /\ layer' = layer /\ v' = v /\ h' = h
        /\ obuffer2s' = obuffer2s /\ ofmap_flight' = ofmap_flight
    BY DEF OSAwaits, LaunchesDone, registers, flights
  <1>2. layer \in Layers /\ OSInv /\ SumsKept
    BY <1>1 DEF Inv, SumInv
  <1>3. Rows' = Rows /\ Cols' = Cols /\ Array' = Array
    BY <1>1, FrameKept
  <1>4. \A p : HasRead(p)
    BY <1>1 DEF HasRead
  <1>5. \A s, n : Begun(s, n)' = Begun(s, n)
    BY <1>1 DEF Begun, Kept
  <1>. SUFFICES ASSUME NEW r \in Rows, NEW c \in Cols PROVE SumOf(r, c)'
    BY <1>1, <1>2, <1>3 DEF SumInv, SumsKept
  <1>6. /\ SumOf(r, c) /\ r \in Nat /\ c \in Nat /\ t \in Nat /\ <<r, c>> \in Used
        /\ total_cycles(layer) \in Int
    BY <1>1, <1>2, Frame, CyclesType DEF SumsKept, OSInv, Shape
  <1>7. CASE round = "read" /\ round' = "write" /\ pending' = Used /\ UNCHANGED <<t, stage>>
    <2>1. Active(r, c)' <=> Active(r, c)
      BY <1>1, <1>7 DEF Active
    <2>2. HasRead(<<r, c>>)' /\ HasRead(<<r, c>>) /\ <<r, c>> \in pending'
      BY <1>4, <1>6, <1>7 DEF HasRead
    <2>. QED BY <1>1, <1>5, <1>6, <1>7, <2>1, <2>2 DEF SumOf
  <1>8. CASE round = "write" /\ round' = "read" /\ pending' = Used /\ t' = t + 1
    <2>1. ~HasRead(<<r, c>>)' /\ HasRead(<<r, c>>) /\ <<r, c>> \notin pending
      BY <1>1, <1>4, <1>6, <1>8 DEF HasRead
    <2>2. Active(r, c)' => t + 1 >= r + c /\ (t >= r + c => Active(r, c))
      BY <1>1, <1>2, <1>6, <1>8, LayersAssumption, ActiveNext DEF Active
    <2>. SUFFICES ASSUME t' + r + c <= total_cycles(layer)
                  PROVE  /\ t' < r + c => obuffer2s[<<r, c>>] = 0
                         /\ Active(r, c)' => obuffer2s[<<r, c>>] = Begun(t', t' - r - c)
      BY <1>1, <1>5, <1>8, <2>1 DEF SumOf
    <2>3. t + r + c <= total_cycles(layer)
      BY <1>6, <1>8
    <2>4. /\ t < r + c => obuffer2s[<<r, c>>] = 0
          /\ Active(r, c) => obuffer2s[<<r, c>>] = Begun(t + 1, t + 1 - r - c)
      BY <1>6, <1>8, <2>1, <2>3 DEF SumOf
    <2>5. t' < r + c => t < r + c
      BY <1>6, <1>8
    <2>6. ASSUME Active(r, c)' PROVE obuffer2s[<<r, c>>] = Begun(t', t' - r - c)
      <3>1. CASE t >= r + c
        <4>1. Active(r, c)
          BY <2>2, <2>6, <3>1
        <4>2. t' = t + 1 /\ t' - r - c = t + 1 - r - c
          BY <1>6, <1>8
        <4>. QED BY <2>4, <4>1, <4>2
      <3>2. CASE ~(t >= r + c)
        <4>1. t' - r - c = 0 /\ t < r + c
          BY <1>6, <1>8, <2>2, <2>6, <3>2
        <4>. QED BY <2>4, <4>1 DEF Begun
      <3>. QED BY <3>1, <3>2
    <2>. QED BY <2>4, <2>5, <2>6
  <1>9. CASE round = "write" /\ stage' = "done" /\ UNCHANGED <<t, round, pending>>
    BY <1>1, <1>6, <1>9, SumOfKept
  <1>. QED BY <1>7, <1>8, <1>9 DEF OSAwaits

LEMMA NextSums == ASSUME Inv, SumInv, [Next]_vars
                  PROVE  SumInv'
  <1>1. CASE OSNext
    <2>1. CASE OSAwaits
      BY <2>1, OSAwaitsSums
    <2>2. ASSUME NEW p \in pending,
                 OSReads(p[1], p[2]) \/ OSIdles(p[1], p[2]) \/ OSWrites(p[1], p[2])
          PROVE  SumInv'
      <3>1. layer.dataflow = "OS"
        BY <2>2 DEF OSReads, OSIdles, OSWrites, In
      <3>2. p[1] \in Rows /\ p[2] \in Cols
        BY <3>1, Frame DEF Inv, OSInv, Shape
      <3>. QED BY <2>2, <3>2, OSReadsSums, OSIdlesSums, OSWritesSums
    <2>. QED BY <1>1, <2>1, <2>2 DEF OSNext
  <1>2. CASE StationaryNext
    <2>1. layer' = layer /\ layer.dataflow # "OS"
      BY <1>2 DEF StationaryNext, ISLoads, WSLoads, ISReads, WSReads, ISWrites, WSWrites, ISCopies,
             WSCopies, ISLoadCopies, WSLoadCopies, Awaits, Copies, ReadsPE, WritesPE, Runs,
             In, place
    <2>. QED BY <2>1 DEF SumInv
  <1>3. CASE UNCHANGED vars
    <2>1. /\ layer' = layer /\ v' = v /\ h' = h /\ round' = round /\ t' = t
          /\ pending' = pending /\ obuffer2s' = obuffer2s /\ ofmap_flight' = ofmap_flight
      BY <1>3 DEF vars, place, registers, flights
    <2>2. Rows' = Rows /\ Cols' = Cols /\ Array' = Array
      BY <2>1, FrameKept
    <2>. SUFFICES ASSUME layer.dataflow = "OS", SumsKept PROVE SumsKept'
      BY <2>1 DEF SumInv
    <2>3. ASSUME NEW r \in Rows, NEW c \in Cols PROVE SumOf(r, c)'
      <3>1. SumOf(r, c)
        BY DEF SumsKept
      <3>. QED BY <2>1, <3>1, SumOfKept
    <2>. QED BY <2>1, <2>2, <2>3 DEF SumsKept
  <1>. QED BY <1>1, <1>2, <1>3 DEF Next

LEMMA InitSums == Init => SumInv
  <1>. SUFFICES ASSUME Init, layer.dataflow = "OS" PROVE SumsKept
    BY DEF SumInv
  <1>1. layer \in Layers /\ t = 0 /\ pending = Used /\ round = "read"
    BY DEF Init
  <1>2. obuffer2s \in [Array -> Nat] /\ ofmap_flight \in [Array -> Nat \cup {non}]
    BY DEF Init, Empty
  <1>3. ASSUME NEW r \in Rows, NEW c \in Cols PROVE SumOf(r, c)
    <2>1. <<r, c>> \in Array /\ <<r, c>> \in Used /\ r \in Nat /\ c \in Nat /\ LayerTypeOK(layer)
      BY <1>1, Frame
    <2>2. ~HasRead(<<r, c>>)
      BY <1>1, <2>1 DEF HasRead
    <2>3. obuffer2s[<<r, c>>] = 0
      BY <2>1 DEF Init
    <2>4. Active(r, c) => t - r - c = 0
      BY <1>1, <2>1, ActiveNext DEF Active
    <2>. QED BY <1>1, <2>2, <2>3, <2>4 DEF SumOf, Begun
  <1>. QED BY <1>2, <1>3 DEF SumsKept

(***************************************************************************)
(* For every layer and array, an output stationary PE puts out what it     *)
(* holds in its first step, and from there on every value after exactly    *)
(* the px_per_conv steps of one window (SystolicArray.cpp:314), whatever   *)
(* the fold, the PE and the order of the launches.                         *)
(***************************************************************************)
THEOREM SumsStay == Spec => SumsPutOut
  <1>1. Inv /\ SumInv /\ [Next]_vars =>
          [layer.dataflow = "OS" /\ outputs' # outputs =>
             \A p \in pending \ pending' :
               ofmap_flight[p] = IF t = p[1] + p[2] THEN 0 ELSE t + 1 - px_per_conv(layer)]_vars
    <2>. SUFFICES ASSUME Inv, SumInv, [Next]_vars, layer.dataflow = "OS", outputs' # outputs,
                         NEW q \in pending \ pending'
                  PROVE  ofmap_flight[q] = IF t = q[1] + q[2] THEN 0 ELSE t + 1 - px_per_conv(layer)
      OBVIOUS
    <2>1. OSNext
      BY DEF Next, vars, StationaryNext, ISLoads, WSLoads, ISReads, WSReads, ISWrites, WSWrites,
             ISCopies, WSCopies, ISLoadCopies, WSLoadCopies, Awaits, Copies, ReadsPE, WritesPE, In
    <2>2. PICK p \in pending : OSWrites(p[1], p[2])
      BY <2>1 DEF OSNext, OSReads, OSIdles, OSAwaits
    <2>. DEFINE i == p[1]
                j == p[2]
    <2>3. layer \in Layers /\ OSInv /\ SumsKept
      BY DEF Inv, SumInv
    <2>4. /\ round = "write" /\ OSStores(i, j) /\ pending' = pending \ {<<i, j>>}
      BY <2>2 DEF OSWrites, In, Runs
    <2>5. i \in Rows /\ j \in Cols /\ p = <<i, j>>
      BY <2>3, Frame DEF OSInv, Shape
    <2>6. q = <<i, j>> /\ q[1] = i /\ q[2] = j
      BY <2>4, <2>5
    <2>. HIDE DEF i, j
    <2>7. i \in Nat /\ j \in Nat /\ t \in Nat /\ total_cycles(layer) \in Int /\ LayerTypeOK(layer)
      BY <2>3, <2>5, Frame, CyclesType DEF OSInv, Shape
    <2>8. /\ ofmap_flight[<<i, j>>] # non
          /\ t >= j + i /\ t + j + i <= total_cycles(layer)
          /\ (t - j - i) % px_per_conv(layer) = 0
      BY <2>4 DEF OSStores
    <2>9. HasRead(<<i, j>>) /\ SumOf(i, j)
      BY <2>3, <2>4, <2>5 DEF HasRead, SumsKept
    <2>10. Active(i, j)
      BY <2>8, <2>9 DEF SumOf
    <2>. DEFINE d == t - i - j
    <2>11. /\ t + i + j <= total_cycles(layer) /\ d \in Nat /\ d <= t /\ t - j - i = d
           /\ (d = 0 <=> t = i + j)
      BY <2>7, <2>8
    <2>12. ofmap_flight[<<i, j>>] = Begun(t, d)
      BY <2>9, <2>10, <2>11 DEF SumOf
    <2>. HIDE DEF d
    <2>13. CASE d = 0
      BY <2>6, <2>11, <2>12, <2>13 DEF Begun
    <2>14. CASE d # 0
      <3>1. Begun(t, d) = t + 1 - px_per_conv(layer)
        BY <2>3, <2>7, <2>8, <2>11, <2>14, BegunType
      <3>. QED BY <2>6, <2>11, <2>12, <2>14, <3>1
    <2>. QED BY <2>13, <2>14
  <1>2. Inv /\ SumInv /\ [Next]_vars => Inv' /\ SumInv'
    BY NextInv, NextSums
  <1>. QED BY <1>1, <1>2, InitInv, InitSums, PTL DEF Spec, SumsPutOut
-----------------------------------------------------------------------------
(***************************************************************************)
(* Input and weight stationary arrays of any size, for any layer whose     *)
(* folds fit the array: what leaves the array has been through all rows,   *)
(* in a weight stationary array the weights stay and the ifmap values      *)
(* arrive in step, in an input stationary array the ifmap values drift,    *)
(* and every array stays well-formed.                                      *)
(***************************************************************************)

FoldsFit == \A L \in Layers : FitsArray(L)

(* A fold uses at least one row and column, and no more than there are.     *)
LEMMA FoldSizes ==
  ASSUME FoldsFit, NEW L \in Layers, L.dataflow # "OS"
  PROVE  /\ moving(L) \in Nat \ {0}
         /\ num_v_fold(L) \in Nat \ {0} /\ num_h_fold(L) \in Nat \ {0}
         /\ L.array_height \in Nat \ {0} /\ L.array_width \in Nat \ {0}
         /\ \A i \in Nat : i < num_v_fold(L) => FoldCols(L, i) \in 1 .. L.array_width
         /\ \A j \in Nat : j < num_h_fold(L) => FoldRows(L, j) \in 1 .. L.array_height
  <1>1. LayerTypeOK(L) /\ FitsArray(L)
    BY LayersAssumption DEF FoldsFit
  <1>2. /\ L.array_height \in Nat \ {0} /\ L.array_width \in Nat \ {0}
        /\ px_per_conv(L) \in Nat \ {0} /\ e2(L) \in Nat \ {0}
        /\ L.num_filter \in Nat \ {0}
    BY <1>1, LayerSizes DEF LayerTypeOK, Sizes
  <1>3. columns(L) \in Nat \ {0} /\ moving(L) \in Nat \ {0}
    BY <1>2 DEF columns, moving
  <1>4. max_parallel_conv(L) \in Nat \ {0}
    <2>1. ASSUME NEW a \in Nat \ {0}, NEW b \in Nat \ {0}, ~(a < b) PROVE a \div b \in Nat \ {0}
      BY <2>1, SMT
    <2>. QED BY <1>2, <2>1 DEF max_parallel_conv
  <1>5. max_cols_per_v_fold(L) \in Nat \ {0}
    <2>1. ASSUME NEW x \in Nat \ {0}, NEW y \in Nat \ {0} PROVE x * y \in Nat \ {0}
      BY SMT
    <2>. QED BY <1>2, <1>4, <2>1 DEF max_cols_per_v_fold
  (* The folds before the last one leave something over. *)
  <1>6. ASSUME NEW a \in Nat \ {0}, NEW b \in Nat \ {0}, NEW i \in Nat, i < Ceil(a, b)
        PROVE  i * b \in Nat /\ a - i * b \in Nat \ {0} /\ a - i * b <= a
    <2>. DEFINE q == Ceil(a, b)
    <2>1. q \in Nat /\ q * b <= a + b - 1
      BY CeilType
    <2>. HIDE DEF q
    <2>2. (i + 1) * b <= q * b /\ (i + 1) * b = i * b + b /\ i * b \in Nat
      BY <1>6, <2>1, SMT DEF q
    <2>. QED BY <2>1, <2>2, SMT
  <1>7. num_v_fold(L) \in Nat \ {0} /\ num_h_fold(L) \in Nat \ {0}
    BY <1>2, <1>3, <1>5, CeilPositive DEF num_v_fold, num_h_fold
  <1>8. ASSUME NEW i \in Nat, i < num_v_fold(L) PROVE FoldCols(L, i) \in 1 .. L.array_width
    <2>. DEFINE m == max_cols_per_v_fold(L)
    <2>1. /\ columns(L) - i * m \in Nat \ {0} /\ columns(L) - i * m <= columns(L)
      BY <1>3, <1>5, <1>6, <1>8 DEF num_v_fold
    <2>2. FoldCols(L, 0) <= L.array_width
      BY <1>1, <1>3 DEF FitsArray
    <2>3. 0 * m = 0 /\ m \in Nat \ {0}
      BY <1>5, SMT
    <2>4. Least(columns(L), m) <= L.array_width
      <3>1. columns(L) - 0 * m = columns(L)
        BY <1>3, <2>3
      <3>. QED BY <2>2, <3>1 DEF FoldCols
    <2>. HIDE DEF m
    <2>5. Least(columns(L) - i * m, m) \in 1 .. L.array_width
      <3>. DEFINE x == columns(L) - i * m
      <3>1. x \in Nat \ {0} /\ x <= columns(L)
        BY <2>1
      <3>. HIDE DEF x
      <3>2. Least(x, m) \in 1 .. L.array_width
        BY <1>2, <1>3, <2>3, <2>4, <3>1 DEF Least
      <3>. QED BY <3>2 DEF x
    <2>. QED BY <2>5 DEF FoldCols, m
  <1>9. ASSUME NEW j \in Nat, j < num_h_fold(L) PROVE FoldRows(L, j) \in 1 .. L.array_height
    <2>. DEFINE x == px_per_conv(L) - j * L.array_height
    <2>1. x \in Nat \ {0}
      <3>1. CASE L.array_height < px_per_conv(L)
        BY <1>2, <1>6, <1>9, <3>1 DEF num_h_fold
      <3>2. CASE ~(L.array_height < px_per_conv(L))
        <4>1. j = 0
          BY <1>9, <3>2 DEF num_h_fold
        <4>2. 0 * L.array_height = 0
          BY <1>2, SMT
        <4>. QED BY <1>2, <4>1, <4>2
      <3>. QED BY <3>1, <3>2
    <2>. HIDE DEF x
    <2>2. Least(x, L.array_height) \in 1 .. L.array_height
      BY <1>2, <2>1 DEF Least
    <2>. QED BY <2>2 DEF FoldRows, x
  <1>. QED BY <1>2, <1>3, <1>7, <1>8, <1>9
-----------------------------------------------------------------------------
Computing == stage = "compute"
Loading   == stage = "load"
(* The steps in which column c reads the values of its row. *)
Window(c) == c .. c + moving(layer) - 1

Placed ==
  /\ stage \in {"load", "compute"}
  /\ round \in IF Loading THEN {"read", "write", "copy"} ELSE {"read", "write"}
  /\ v \in Nat /\ v < num_v_fold(layer)
  /\ h \in Nat /\ h < num_h_fold(layer)
  /\ t \in Nat /\ (Loading => t < rows)
  /\ pending \subseteq IF Loading THEN Places(rows - 1, cols) ELSE Used
  /\ round = "copy" => pending = {}
  /\ DOMAIN ibuffer2s = Array /\ DOMAIN wbuffer2s = Array /\ DOMAIN obuffer2s = Array
  /\ DOMAIN ifmap_flight = Array /\ DOMAIN filter_flight = Array /\ DOMAIN ofmap_flight = Array
  /\ bankReads \in [Banks -> Nat]

(* The steps in which row r of column c works on ofmaps that go down.       *)
InWave(r, c) == t > c + r + 1 /\ t <= c + moving(layer) + rows + 1

(* An ofmap goes down a row in each step, from the step on in which the     *)
(* column's windows open until they close.                                  *)
OfmapsArrive ==
  Computing =>
    \A r \in Rows, c \in Cols :
      /\ round = "read" /\ r # 0 /\ InWave(r, c) => obuffer2s[<<r, c>>] = t - r
      /\ HasRead(<<r, c>>) /\ InWave(r, c) => ofmap_flight[<<r, c>>] = t - r
      /\ r + 1 \in Rows /\ round = "write" /\ <<r, c>> \notin pending /\ InWindow(r, c) =>
           obuffer2s[<<r + 1, c>>] = t - r

(* Loading, weights move down as they were copied. *)
WeightsLoad ==
  Loading =>
    \A c \in Cols :
      /\ bankReads[Col(c)] = IF round = "copy" /\ <<"col", c>> \notin copies THEN t + 1 ELSE t
      /\ round = "copy" /\ <<"col", c>> \notin copies => wbuffer2s[<<0, c>>] = <<Col(c), t>>
      /\ \A r \in Rows : r < t =>
           /\ round = "read" => wbuffer2s[<<r, c>>] = <<Col(c), t - 1 - r>>
           /\ r + 1 \in Rows =>
                /\ round # "copy" /\ HasRead(<<r, c>>) =>
                     filter_flight[<<r, c>>] = <<Col(c), t - 1 - r>>
                /\ round # "read" /\ <<r, c>> \notin pending =>
                     wbuffer2s[<<r + 1, c>>] = <<Col(c), t - 1 - r>>

(* The first column has the ifmap value of this step, or of the next.       *)
Given(r, n) == bankReads[Row(r)] = n + 1 /\ ibuffer2s[<<r, 0>>] = <<Row(r), n>>

IfmapsLoad ==
  Loading =>
    \A r \in Rows :
      IF round = "copy" /\ t = rows - 1 /\ <<"row", r>> \notin copies
      THEN Given(r, 0) ELSE bankReads[Row(r)] = 0

IfmapsGiven ==
  Computing =>
    \A r \in Rows :
      /\ round = "read" /\ t < moving(layer) =>
           IF <<"row", r>> \in copies \/ t = moving(layer) - 1
           THEN Given(r, t) ELSE Given(r, t + 1) /\ <<r, 0>> \notin pending
      /\ round = "write" /\ t + 1 < moving(layer) => Given(r, t + 1)

IfmapsPass ==
  Computing =>
    \A r \in Rows, c \in Cols :
      /\ round = "read" /\ c # 0 /\ t \in Window(c) =>
           ibuffer2s[<<r, c>>] = <<Row(r), t - c>>
      /\ HasRead(<<r, c>>) /\ t \in Window(c) => ifmap_flight[<<r, c>>] = <<Row(r), t - c>>
      /\ round = "write" /\ c + 1 \in Cols /\ <<r, c>> \notin pending /\ t \in Window(c) =>
           ibuffer2s[<<r, c + 1>>] = <<Row(r), t - c>>

(* The copies of a round are those that were started in it. *)
CopiesLeft == copies \subseteq IF Loading THEN LoadCopies(t) ELSE RowCopies(t)

WSInv == CopiesLeft /\ WeightsLoad /\ WeightsStationary /\ IfmapsLoad /\ IfmapsGiven /\ IfmapsPass

SInv ==
  /\ layer \in Layers
  /\ layer.dataflow # "OS" /\ stage # "done" =>
       /\ Placed /\ OfmapsArrive
       /\ layer.dataflow = "WS" => WSInv
-----------------------------------------------------------------------------
(* The part of the array in use lies within it, and the banks are its own.  *)
LEMMA FoldFrame ==
  ASSUME FoldsFit, layer \in Layers, layer.dataflow # "OS",
         v \in Nat, v < num_v_fold(layer), h \in Nat, h < num_h_fold(layer)
  PROVE  /\ rows \in Nat \ {0} /\ cols \in Nat \ {0}
         /\ cols <= layer.array_width /\ layer.array_width \in Nat
         /\ moving(layer) \in Nat \ {0}
         /\ Rows \subseteq Nat /\ Cols \subseteq Nat
         /\ 0 \in Rows /\ 0 \in Cols
         /\ Used = Rows \X Cols
         /\ \A r, c : <<r, c>> \in Places(rows - 1, cols) <=> r \in Rows /\ r + 1 \in Rows /\ c \in Cols
         /\ \A r \in Rows, c \in Cols : <<r, c>> \in Array
         /\ \A r \in Rows : Row(r) \in Banks
         /\ \A c \in Cols : Col(c) \in Banks
         /\ \A r \in Rows, c \in Cols : Row(r) # Col(c)
         /\ \A r, s \in Rows : Row(r) = Row(s) => r = s
         /\ \A c, d \in Cols : Col(c) = Col(d) => c = d
  <1>1. rows = FoldRows(layer, h) /\ cols = FoldCols(layer, v)
    BY DEF rows, cols
  <1>2. /\ rows \in 1 .. layer.array_height /\ cols \in 1 .. layer.array_width
        /\ layer.array_height \in Nat /\ layer.array_width \in Nat
        /\ moving(layer) \in Nat \ {0}
    BY <1>1, FoldSizes
  <1>. HIDE DEF rows, cols
  <1>3. ASSUME NEW r, NEW c
        PROVE  <<r, c>> \in Places(rows - 1, cols) <=> r \in Rows /\ r + 1 \in Rows /\ c \in Cols
    BY <1>2 DEF Rows, Cols, Places
  <1>. QED BY <1>2, <1>3 DEF Rows, Cols, Used, Places, Array, Row, Col, Banks

(* Where an input or weight stationary array is at work, there is a frame.  *)
Live == FoldsFit /\ SInv /\ layer.dataflow # "OS" /\ stage # "done"

LEMMA LiveFrame ==
  ASSUME Live
  PROVE  /\ layer \in Layers /\ Placed /\ OfmapsArrive
         /\ rows \in Nat \ {0} /\ cols \in Nat \ {0} /\ t \in Nat
         /\ cols <= layer.array_width /\ layer.array_width \in Nat
         /\ moving(layer) \in Nat \ {0}
         /\ Rows \subseteq Nat /\ Cols \subseteq Nat
         /\ 0 \in Rows /\ 0 \in Cols
         /\ Used = Rows \X Cols
         /\ \A r, c : <<r, c>> \in Places(rows - 1, cols) <=> r \in Rows /\ r + 1 \in Rows /\ c \in Cols
         /\ \A r \in Rows, c \in Cols : <<r, c>> \in Array
         /\ \A r \in Rows : Row(r) \in Banks
         /\ \A c \in Cols : Col(c) \in Banks
         /\ \A r \in Rows, c \in Cols : Row(r) # Col(c)
         /\ \A r, s \in Rows : Row(r) = Row(s) => r = s
         /\ \A c, d \in Cols : Col(c) = Col(d) => c = d
  <1>1. layer \in Layers /\ Placed /\ OfmapsArrive /\ FoldsFit /\ layer.dataflow # "OS"
    BY DEF Live, SInv
  <1>2. /\ v \in Nat /\ v < num_v_fold(layer) /\ h \in Nat /\ h < num_h_fold(layer) /\ t \in Nat
    BY <1>1 DEF Placed
  <1>. QED BY <1>1, <1>2, FoldFrame

(* A fold begins, the first one or the next. *)
Fresh ==
  /\ FoldsFit
  /\ layer \in Layers /\ layer.dataflow # "OS"
  /\ v \in Nat /\ v < num_v_fold(layer) /\ h \in Nat /\ h < num_h_fold(layer)
  /\ stage = "load" /\ round = "copy" /\ t = 0
  /\ pending = {} /\ copies = LoadCopies(0)
  /\ DOMAIN ibuffer2s = Array /\ DOMAIN wbuffer2s = Array /\ DOMAIN obuffer2s = Array
  /\ DOMAIN ifmap_flight = Array /\ DOMAIN filter_flight = Array /\ DOMAIN ofmap_flight = Array
  /\ bankReads = [b \in Banks |-> 0]

LEMMA FreshInv == Fresh => SInv
  <1>. SUFFICES ASSUME Fresh PROVE SInv
    OBVIOUS
  <1>1. /\ rows \in Nat \ {0} /\ cols \in Nat \ {0}
        /\ Rows \subseteq Nat /\ Cols \subseteq Nat
        /\ \A r \in Rows : Row(r) \in Banks
        /\ \A c \in Cols : Col(c) \in Banks
    BY FoldFrame DEF Fresh
  <1>2. Loading /\ ~Computing /\ stage = "load"
    BY DEF Fresh, Loading, Computing
  <1>3. Placed
    BY <1>1, <1>2 DEF Fresh, Placed
  <1>4. OfmapsArrive
    BY <1>2 DEF Fresh, OfmapsArrive
  <1>5. CopiesLeft
    BY <1>2 DEF Fresh, CopiesLeft
  <1>6. layer.dataflow = "WS" => WeightsLoad
    <2>1. \A c \in Cols : <<"col", c>> \in copies
      BY DEF Fresh, LoadCopies, Cols
    <2>2. \A c \in Cols : bankReads[Col(c)] = 0
      BY <1>1 DEF Fresh
    <2>3. \A r \in Rows : ~(r < t)
      BY <1>1 DEF Fresh
    <2>4. t = 0
      BY DEF Fresh
    <2>. QED BY <2>1, <2>2, <2>3, <2>4 DEF WeightsLoad
  <1>7. layer.dataflow = "WS" => IfmapsLoad
    <2>1. layer.dataflow = "WS" /\ t = rows - 1 => \A r \in Rows : <<"row", r>> \in copies
      BY DEF Fresh, LoadCopies, Rows
    <2>2. \A r \in Rows : bankReads[Row(r)] = 0
      BY <1>1 DEF Fresh
    <2>. QED BY <2>1, <2>2 DEF IfmapsLoad
  <1>8. IfmapsGiven /\ IfmapsPass /\ WeightsStationary
    BY <1>2 DEF IfmapsGiven, IfmapsPass, WeightsStationary
  <1>. QED BY <1>3, <1>4, <1>5, <1>6, <1>7, <1>8 DEF SInv, WSInv, Fresh

LEMMA FreshInvNext == Fresh' => SInv'
  BY FreshInv, PTL

LEMMA InitFresh == ASSUME FoldsFit, Init, layer.dataflow # "OS"
                   PROVE  Fresh
  <1>1. layer \in Layers /\ v = 0 /\ h = 0
    BY DEF Init
  <1>2. num_v_fold(layer) \in Nat \ {0} /\ num_h_fold(layer) \in Nat \ {0}
        /\ layer.array_height \in Nat \ {0} /\ layer.array_width \in Nat \ {0}
    BY <1>1, FoldSizes
  <1>. QED BY <1>1, <1>2 DEF Init, Fresh, Empty, Array, Places

LEMMA InitSInv == FoldsFit /\ Init => SInv
  <1>. SUFFICES ASSUME FoldsFit, Init, layer.dataflow # "OS" PROVE SInv
    BY DEF Init, SInv
  <1>. QED BY InitFresh, FreshInv

LEMMA FoldKept ==
  ASSUME UNCHANGED <<layer, v, h>>
  PROVE  /\ layer' = layer /\ v' = v /\ h' = h
         /\ rows' = rows /\ cols' = cols /\ Rows' = Rows /\ Cols' = Cols
         /\ Used' = Used /\ Array' = Array /\ Banks' = Banks
         /\ \A r : Row(r)' = Row(r)
         /\ \A c : Col(c)' = Col(c)
         /\ \A c : Window(c)' = Window(c)
         /\ \A n : LoadCopies(n)' = LoadCopies(n) /\ RowCopies(n)' = RowCopies(n)
  <1>1. /\ rows' = rows /\ cols' = cols /\ Rows' = Rows /\ Cols' = Cols
        /\ Used' = Used /\ Array' = Array /\ Banks' = Banks
        /\ \A r : Row(r)' = Row(r)
        /\ \A c : Col(c)' = Col(c)
    BY FrameKept
  <1>. QED BY <1>1 DEF Window, LoadCopies, RowCopies

(* What all loads have in common: a PE passes the operand that stays.       *)
LEMMA LoadsKept ==
  ASSUME Live, NEW i, NEW j, Runs(i, j), Loading, round \in {"read", "write"},
         obuffer2s' = obuffer2s, ofmap_flight' = ofmap_flight, bankReads' = bankReads,
         DOMAIN ibuffer2s' = DOMAIN ibuffer2s, DOMAIN wbuffer2s' = DOMAIN wbuffer2s,
         DOMAIN ifmap_flight' = DOMAIN ifmap_flight,
         DOMAIN filter_flight' = DOMAIN filter_flight
  PROVE  /\ layer' = layer /\ v' = v /\ h' = h /\ stage' = stage /\ round' = round /\ t' = t
         /\ copies' = copies /\ pending' = pending \ {<<i, j>>}
         /\ i \in Rows /\ i + 1 \in Rows /\ j \in Cols
         /\ Placed' /\ OfmapsArrive'
  <1>1. /\ layer' = layer /\ v' = v /\ h' = h /\ stage' = stage /\ round' = round /\ t' = t
        /\ copies' = copies /\ pending' = pending \ {<<i, j>>} /\ <<i, j>> \in pending
    BY DEF Runs, place
  <1>2. Placed /\ OfmapsArrive
    BY LiveFrame
  <1>3. <<i, j>> \in Places(rows - 1, cols)
    BY <1>1, <1>2 DEF Placed
  <1>4. i \in Rows /\ i + 1 \in Rows /\ j \in Cols
    BY <1>3, LiveFrame
  <1>5. /\ rows' = rows /\ cols' = cols /\ Used' = Used /\ Array' = Array /\ Banks' = Banks
    BY <1>1, FoldKept
  <1>6. Placed'
    BY <1>1, <1>2, <1>5 DEF Placed, Loading
  <1>7. OfmapsArrive'
    BY <1>1, <1>2 DEF OfmapsArrive, Loading, Computing
  <1>. QED BY <1>1, <1>4, <1>6, <1>7

LEMMA ISLoadsInv == ASSUME Live, NEW i, NEW j, ISLoads(i, j)
                    PROVE  SInv'
  <1>1. layer.dataflow = "IS" /\ Loading /\ round \in {"read", "write"}
    BY DEF ISLoads, In, Loading
  <1>2. layer' = layer /\ Placed' /\ OfmapsArrive'
    BY <1>1, LoadsKept DEF ISLoads
  <1>. QED BY <1>1, <1>2, LiveFrame DEF SInv

LEMMA WSLoadsInv == ASSUME Live, NEW i, NEW j, WSLoads(i, j)
                    PROVE  SInv'
  <1>1. /\ layer.dataflow = "WS" /\ Loading /\ round \in {"read", "write"} /\ stage = "load"
        /\ ibuffer2s' = ibuffer2s /\ bankReads' = bankReads /\ <<i, j>> \in pending
    BY DEF WSLoads, In, Loading, Runs
  <1>2. /\ layer' = layer /\ v' = v /\ h' = h /\ stage' = stage /\ round' = round /\ t' = t
        /\ copies' = copies /\ pending' = pending \ {<<i, j>>}
        /\ i \in Rows /\ i + 1 \in Rows /\ j \in Cols
        /\ Placed' /\ OfmapsArrive'
    BY <1>1, LoadsKept DEF WSLoads
  <1>3. /\ Rows' = Rows /\ Cols' = Cols /\ rows' = rows
        /\ \A r : Row(r)' = Row(r)
        /\ \A c : Col(c)' = Col(c)
        /\ \A n : LoadCopies(n)' = LoadCopies(n)
    BY <1>2, FoldKept
  <1>4. WSInv /\ Placed
    BY <1>1, LiveFrame DEF Live, SInv
  <1>5. Loading' /\ ~Computing'
    BY <1>1, <1>2 DEF Loading, Computing
  <1>6. CopiesLeft' /\ IfmapsLoad'
    BY <1>1, <1>2, <1>3, <1>4, <1>5 DEF WSInv, CopiesLeft, IfmapsLoad, Given
  <1>7. WeightsLoad'
    <2>. SUFFICES ASSUME NEW r \in Rows, NEW c \in Cols, r < t
                  PROVE  /\ round = "read" => wbuffer2s'[<<r, c>>] = <<Col(c), t - 1 - r>>
                         /\ r + 1 \in Rows =>
                              /\ HasRead(<<r, c>>)' =>
                                   filter_flight'[<<r, c>>] = <<Col(c), t - 1 - r>>
                              /\ round # "read" /\ <<r, c>> \notin pending' =>
                                   wbuffer2s'[<<r + 1, c>>] = <<Col(c), t - 1 - r>>
      BY <1>1, <1>2, <1>3, <1>4, <1>5 DEF WSInv, WeightsLoad
    <2>1. /\ round = "read" => wbuffer2s[<<r, c>>] = <<Col(c), t - 1 - r>>
          /\ r + 1 \in Rows =>
               /\ HasRead(<<r, c>>) => filter_flight[<<r, c>>] = <<Col(c), t - 1 - r>>
               /\ round # "read" /\ <<r, c>> \notin pending =>
                    wbuffer2s[<<r + 1, c>>] = <<Col(c), t - 1 - r>>
      BY <1>1, <1>4 DEF WSInv, WeightsLoad
    <2>2. <<r, c>> \in Array /\ <<i, j>> \in Array /\ (r + 1 \in Rows => <<r + 1, c>> \in Array)
      BY <1>2, LiveFrame
    <2>3. r \in Nat /\ i \in Nat
      BY <1>2, LiveFrame
    <2>4. CASE round = "read"
      <3>1. /\ wbuffer2s' = wbuffer2s
            /\ filter_flight' = [filter_flight EXCEPT ![<<i, j>>] = wbuffer2s[<<i, j>>]]
        BY <2>4 DEF WSLoads, In
      <3>2. HasRead(<<r, c>>)' => HasRead(<<r, c>>) \/ (r = i /\ c = j)
        BY <1>2, <2>4 DEF HasRead
      <3>3. HasRead(<<r, c>>)' /\ r + 1 \in Rows =>
              filter_flight'[<<r, c>>] = <<Col(c), t - 1 - r>>
        BY <1>4, <2>1, <2>2, <2>4, <3>1, <3>2 DEF Placed
      <3>. QED BY <2>1, <2>4, <3>1, <3>3
    <2>5. CASE round = "write"
      <3>1. /\ filter_flight' = filter_flight
            /\ wbuffer2s' = [wbuffer2s EXCEPT ![<<i + 1, j>>] = filter_flight[<<i, j>>]]
        BY <2>5 DEF WSLoads, In
      <3>2. HasRead(<<r, c>>)
        BY <2>5 DEF HasRead
      <3>3. <<r, c>> \notin pending' /\ r + 1 \in Rows =>
              wbuffer2s'[<<r + 1, c>>] = <<Col(c), t - 1 - r>>
        <4>1. CASE r = i /\ c = j
          BY <1>4, <2>1, <2>2, <3>1, <3>2, <4>1 DEF Placed
        <4>2. CASE ~(r = i /\ c = j)
          <5>1. <<r + 1, c>> # <<i + 1, j>>
            BY <2>3, <4>2
          <5>2. r + 1 \in Rows => wbuffer2s'[<<r + 1, c>>] = wbuffer2s[<<r + 1, c>>]
            BY <1>4, <2>2, <3>1, <5>1 DEF Placed
          <5>. QED BY <1>2, <2>1, <2>5, <4>2, <5>2
        <4>. QED BY <4>1, <4>2
      <3>. QED BY <2>1, <2>5, <3>1, <3>2, <3>3
    <2>. QED BY <1>1, <2>4, <2>5
  <1>8. WeightsStationary' /\ IfmapsGiven' /\ IfmapsPass'
    BY <1>1, <1>2, <1>5 DEF WeightsStationary, IfmapsGiven, IfmapsPass
  <1>. QED BY <1>2, <1>4, <1>6, <1>7, <1>8, LiveFrame DEF SInv, WSInv

(* A copy puts a value into a register, and a PE has nothing to do with it. *)
LEMMA CopiesKept ==
  ASSUME Live, NEW kind, NEW n, NEW bank, Copies(kind, n, bank),
         DOMAIN ibuffer2s' = DOMAIN ibuffer2s, DOMAIN wbuffer2s' = DOMAIN wbuffer2s
  PROVE  /\ layer' = layer /\ v' = v /\ h' = h /\ stage' = stage /\ round' = round /\ t' = t
         /\ copies' = copies \ {<<kind, n>>} /\ <<kind, n>> \in copies
         /\ pending' = pending
         /\ ifmap_flight' = ifmap_flight /\ filter_flight' = filter_flight
         /\ bankReads \in [Banks -> Nat]
         /\ bankReads' = [bankReads EXCEPT ![bank] = @ + 1]
         /\ Placed' /\ OfmapsArrive'
  <1>1. /\ layer' = layer /\ v' = v /\ h' = h /\ stage' = stage /\ round' = round /\ t' = t
        /\ copies' = copies \ {<<kind, n>>} /\ <<kind, n>> \in copies
        /\ pending' = pending /\ obuffer2s' = obuffer2s
        /\ ifmap_flight' = ifmap_flight /\ filter_flight' = filter_flight
        /\ ofmap_flight' = ofmap_flight
        /\ bankReads' = [bankReads EXCEPT ![bank] = @ + 1]
    BY DEF Copies, place, flights
  <1>2. Placed /\ OfmapsArrive
    BY LiveFrame
  <1>3. /\ Rows' = Rows /\ Cols' = Cols /\ rows' = rows /\ cols' = cols
        /\ Used' = Used /\ Array' = Array /\ Banks' = Banks
    BY <1>1, FoldKept
  <1>4. bankReads \in [Banks -> Nat]
    BY <1>2 DEF Placed
  <1>5. bankReads' \in [Banks -> Nat]
    <2>1. bankReads' = [b \in Banks |-> IF b = bank THEN bankReads[b] + 1 ELSE bankReads[b]]
      BY <1>1, <1>4
    <2>. QED BY <1>4, <2>1
  <1>6. Placed'
    BY <1>1, <1>2, <1>3, <1>5 DEF Placed, Loading
  <1>7. OfmapsArrive'
    <2>1. \A r, c : InWave(r, c)' = InWave(r, c) /\ InWindow(r, c)' = InWindow(r, c)
      BY <1>1, <1>3 DEF InWave, InWindow
    <2>. QED BY <1>1, <1>2, <1>3, <2>1 DEF OfmapsArrive, Computing, HasRead
  <1>. QED BY <1>1, <1>4, <1>6, <1>7

LEMMA ISCopiesInv == ASSUME Live, ISLoadCopies \/ \E r \in Rows : ISCopies(r)
                     PROVE  SInv'
  <1>1. layer.dataflow = "IS"
    BY DEF ISLoadCopies, ISCopies, In
  <1>2. \E kind, n, bank : /\ Copies(kind, n, bank)
                           /\ DOMAIN ibuffer2s' = DOMAIN ibuffer2s
                           /\ DOMAIN wbuffer2s' = DOMAIN wbuffer2s
    BY DEF ISLoadCopies, ISCopies, CopyInto
  <1>3. layer' = layer /\ Placed' /\ OfmapsArrive'
    BY <1>2, CopiesKept
  <1>. QED BY <1>1, <1>3, LiveFrame DEF SInv

(* Loading: the next weight of a column.                                    *)
LEMMA WSCopiesWeight ==
  ASSUME Live, In("WS", "load", "copy"), NEW n, Copies("col", n, Col(n)),
         wbuffer2s' = CopyInto(wbuffer2s, 0, n, Col(n)), UNCHANGED ibuffer2s
  PROVE  SInv'
  <1>1. layer.dataflow = "WS" /\ Loading /\ stage = "load" /\ round = "copy"
    BY DEF In, Loading
  <1>2. WSInv /\ Placed
    BY <1>1, LiveFrame DEF Live, SInv
  <1>3. DOMAIN wbuffer2s' = DOMAIN wbuffer2s
    BY DEF CopyInto
  <1>4. /\ layer' = layer /\ v' = v /\ h' = h /\ stage' = stage /\ round' = round /\ t' = t
        /\ copies' = copies \ {<<"col", n>>} /\ <<"col", n>> \in copies
        /\ pending' = pending /\ filter_flight' = filter_flight
        /\ bankReads \in [Banks -> Nat]
        /\ bankReads' = [bankReads EXCEPT ![Col(n)] = @ + 1]
        /\ Placed' /\ OfmapsArrive'
    BY <1>3, CopiesKept
  <1>5. /\ Rows' = Rows /\ Cols' = Cols /\ rows' = rows
        /\ \A r : Row(r)' = Row(r)
        /\ \A c : Col(c)' = Col(c)
        /\ \A k : LoadCopies(k)' = LoadCopies(k)
    BY <1>4, FoldKept
  <1>6. Loading' /\ ~Computing'
    BY <1>1, <1>4 DEF Loading, Computing
  <1>7. n \in Cols
    <2>1. <<"col", n>> \in LoadCopies(t)
      BY <1>1, <1>2, <1>4 DEF WSInv, CopiesLeft
    <2>. QED BY <1>1, <2>1 DEF LoadCopies, Cols
  <1>8. CopiesLeft'
    BY <1>1, <1>2, <1>4, <1>5, <1>6 DEF WSInv, CopiesLeft
  <1>9. WeightsLoad'
    <2>. SUFFICES ASSUME NEW c \in Cols
         PROVE  /\ bankReads'[Col(c)] = IF <<"col", c>> \notin copies' THEN t + 1 ELSE t
                /\ <<"col", c>> \notin copies' => wbuffer2s'[<<0, c>>] = <<Col(c), t>>
                /\ \A r \in Rows : r < t /\ r + 1 \in Rows /\ <<r, c>> \notin pending =>
                     wbuffer2s'[<<r + 1, c>>] = <<Col(c), t - 1 - r>>
      BY <1>1, <1>4, <1>5, <1>6 DEF WeightsLoad
    <2>1. /\ bankReads[Col(c)] = IF <<"col", c>> \notin copies THEN t + 1 ELSE t
          /\ <<"col", c>> \notin copies => wbuffer2s[<<0, c>>] = <<Col(c), t>>
          /\ \A r \in Rows : r < t /\ r + 1 \in Rows /\ <<r, c>> \notin pending =>
               wbuffer2s[<<r + 1, c>>] = <<Col(c), t - 1 - r>>
      BY <1>1, <1>2 DEF WSInv, WeightsLoad
    <2>2. /\ Col(c) \in Banks /\ <<0, c>> \in Array /\ (Col(c) = Col(n) => c = n)
          /\ Rows \subseteq Nat /\ t \in Nat
      BY <1>7, LiveFrame
    <2>3. wbuffer2s' = [wbuffer2s EXCEPT ![<<0, n>>] = <<Col(n), bankReads[Col(n)]>>]
      BY DEF CopyInto, fetched
    <2>4. \A r \in Rows : r + 1 \in Rows => wbuffer2s'[<<r + 1, c>>] = wbuffer2s[<<r + 1, c>>]
      <3>. SUFFICES ASSUME NEW r \in Rows, r + 1 \in Rows
                    PROVE  wbuffer2s'[<<r + 1, c>>] = wbuffer2s[<<r + 1, c>>]
        OBVIOUS
      <3>1. <<r + 1, c>> # <<0, n>>
        BY <2>2
      <3>2. <<r + 1, c>> \in Array
        BY LiveFrame
      <3>. QED BY <1>2, <2>3, <3>1, <3>2 DEF Placed
    <2>5. CASE c = n
      <3>1. bankReads[Col(c)] = t /\ bankReads'[Col(c)] = t + 1
        BY <1>4, <2>1, <2>2, <2>5
      <3>2. wbuffer2s'[<<0, c>>] = <<Col(c), t>>
        BY <1>2, <2>2, <2>3, <2>5, <3>1 DEF Placed
      <3>. QED BY <1>4, <2>1, <2>4, <2>5, <3>1, <3>2
    <2>6. CASE c # n
      <3>1. bankReads'[Col(c)] = bankReads[Col(c)] /\ (<<"col", c>> \in copies' <=> <<"col", c>> \in copies)
        BY <1>4, <2>2, <2>6
      <3>2. wbuffer2s'[<<0, c>>] = wbuffer2s[<<0, c>>]
        <4>1. <<0, c>> # <<0, n>>
          BY <2>6
        <4>. QED BY <1>2, <2>2, <2>3, <4>1 DEF Placed
      <3>. QED BY <2>1, <2>4, <3>1, <3>2
    <2>. QED BY <2>5, <2>6
  <1>10. IfmapsLoad'
    <2>1. \A r \in Rows : /\ bankReads'[Row(r)] = bankReads[Row(r)]
                          /\ <<"row", r>> \in copies' <=> <<"row", r>> \in copies
      BY <1>4, <1>7, LiveFrame
    <2>. QED BY <1>1, <1>2, <1>4, <1>5, <1>6, <2>1 DEF WSInv, IfmapsLoad, Given
  <1>11. WeightsStationary' /\ IfmapsGiven' /\ IfmapsPass'
    BY <1>1, <1>4, <1>6 DEF WeightsStationary, IfmapsGiven, IfmapsPass
  <1>. QED BY <1>2, <1>4, <1>8, <1>9, <1>10, <1>11, LiveFrame DEF SInv, WSInv

(* Loading, last step: the first ifmap value of a row.                      *)
LEMMA WSCopiesFirstIfmap ==
  ASSUME Live, In("WS", "load", "copy"), NEW n, Copies("row", n, Row(n)),
         ibuffer2s' = CopyInto(ibuffer2s, n, 0, Row(n)), UNCHANGED wbuffer2s
  PROVE  SInv'
  <1>1. layer.dataflow = "WS" /\ Loading /\ stage = "load" /\ round = "copy"
    BY DEF In, Loading
  <1>2. WSInv /\ Placed
    BY <1>1, LiveFrame DEF Live, SInv
  <1>3. DOMAIN ibuffer2s' = DOMAIN ibuffer2s
    BY DEF CopyInto
  <1>4. /\ layer' = layer /\ v' = v /\ h' = h /\ stage' = stage /\ round' = round /\ t' = t
        /\ copies' = copies \ {<<"row", n>>} /\ <<"row", n>> \in copies
        /\ pending' = pending /\ filter_flight' = filter_flight
        /\ bankReads \in [Banks -> Nat]
        /\ bankReads' = [bankReads EXCEPT ![Row(n)] = @ + 1]
        /\ Placed' /\ OfmapsArrive'
    BY <1>3, CopiesKept
  <1>5. /\ Rows' = Rows /\ Cols' = Cols /\ rows' = rows
        /\ \A r : Row(r)' = Row(r)
        /\ \A c : Col(c)' = Col(c)
        /\ \A k : LoadCopies(k)' = LoadCopies(k)
    BY <1>4, FoldKept
  <1>6. Loading' /\ ~Computing'
    BY <1>1, <1>4 DEF Loading, Computing
  <1>7. n \in Rows /\ t = rows - 1
    <2>1. <<"row", n>> \in LoadCopies(t)
      BY <1>1, <1>2, <1>4 DEF WSInv, CopiesLeft
    <2>. QED BY <1>1, <2>1 DEF LoadCopies, Rows
  <1>8. CopiesLeft'
    BY <1>1, <1>2, <1>4, <1>5, <1>6 DEF WSInv, CopiesLeft
  <1>9. WeightsLoad'
    <2>1. \A c \in Cols : /\ bankReads'[Col(c)] = bankReads[Col(c)]
                          /\ <<"col", c>> \in copies' <=> <<"col", c>> \in copies
      BY <1>4, <1>7, LiveFrame
    <2>. QED BY <1>1, <1>2, <1>4, <1>5, <1>6, <2>1 DEF WSInv, WeightsLoad, HasRead
  <1>10. IfmapsLoad'
    <2>. SUFFICES ASSUME NEW r \in Rows
                  PROVE  IF <<"row", r>> \notin copies' THEN Given(r, 0)' ELSE bankReads'[Row(r)] = 0
      BY <1>1, <1>4, <1>5, <1>6, <1>7 DEF IfmapsLoad
    <2>1. IF <<"row", r>> \notin copies THEN Given(r, 0) ELSE bankReads[Row(r)] = 0
      BY <1>1, <1>2, <1>7 DEF WSInv, IfmapsLoad
    <2>2. Row(r) \in Banks /\ (Row(r) = Row(n) => r = n) /\ <<r, 0>> \in Array
      BY <1>7, LiveFrame
    <2>3. ibuffer2s' = [ibuffer2s EXCEPT ![<<n, 0>>] = <<Row(n), bankReads[Row(n)]>>]
      BY DEF CopyInto, fetched
    <2>4. CASE r = n
      <3>1. bankReads[Row(r)] = 0 /\ bankReads'[Row(r)] = 0 + 1
        BY <1>4, <2>1, <2>2, <2>4
      <3>2. ibuffer2s'[<<r, 0>>] = <<Row(r), 0>>
        BY <1>2, <2>2, <2>3, <2>4, <3>1 DEF Placed
      <3>. QED BY <1>4, <1>5, <2>4, <3>1, <3>2 DEF Given
    <2>5. CASE r # n
      <3>1. bankReads'[Row(r)] = bankReads[Row(r)] /\ (<<"row", r>> \in copies' <=> <<"row", r>> \in copies)
        BY <1>4, <2>2, <2>5
      <3>2. <<r, 0>> # <<n, 0>>
        BY <2>5
      <3>3. ibuffer2s'[<<r, 0>>] = ibuffer2s[<<r, 0>>]
        BY <1>2, <2>2, <2>3, <3>2 DEF Placed
      <3>. QED BY <1>5, <2>1, <3>1, <3>3 DEF Given
    <2>. QED BY <2>4, <2>5
  <1>11. WeightsStationary' /\ IfmapsGiven' /\ IfmapsPass'
    BY <1>1, <1>4, <1>6 DEF WeightsStationary, IfmapsGiven, IfmapsPass
  <1>. QED BY <1>2, <1>4, <1>8, <1>9, <1>10, <1>11, LiveFrame DEF SInv, WSInv

(* Computing: the next ifmap value of a row, after its first PE has read.   *)
LEMMA WSCopiesNextIfmap ==
  ASSUME Live, NEW n \in Rows, WSCopies(n)
  PROVE  SInv'
  <1>1. /\ layer.dataflow = "WS" /\ Computing /\ ~Loading /\ stage = "compute" /\ round = "read"
        /\ <<n, 0>> \notin pending /\ Copies("row", n, Row(n)) /\ wbuffer2s' = wbuffer2s
    BY DEF WSCopies, In, Loading, Computing
  <1>2. WSInv /\ Placed
    BY <1>1, LiveFrame DEF Live, SInv
  <1>3. DOMAIN ibuffer2s' = DOMAIN ibuffer2s
    BY DEF WSCopies, CopyInto
  <1>4. /\ layer' = layer /\ v' = v /\ h' = h /\ stage' = stage /\ round' = round /\ t' = t
        /\ copies' = copies \ {<<"row", n>>} /\ <<"row", n>> \in copies
        /\ pending' = pending /\ ifmap_flight' = ifmap_flight
        /\ bankReads \in [Banks -> Nat]
        /\ bankReads' = [bankReads EXCEPT ![Row(n)] = @ + 1]
        /\ Placed' /\ OfmapsArrive'
    BY <1>1, <1>3, CopiesKept
  <1>5. /\ Rows' = Rows /\ Cols' = Cols /\ rows' = rows /\ Used' = Used
        /\ \A r : Row(r)' = Row(r)
        /\ \A c : Col(c)' = Col(c)
        /\ \A c : Window(c)' = Window(c)
        /\ \A k : RowCopies(k)' = RowCopies(k)
        /\ layer' = layer
    BY <1>4, FoldKept
  <1>6. ~Loading' /\ Computing'
    BY <1>1, <1>4 DEF Loading, Computing
  <1>7. t < moving(layer) - 1
    <2>1. <<"row", n>> \in RowCopies(t)
      BY <1>1, <1>2, <1>4 DEF WSInv, CopiesLeft
    <2>. QED BY <2>1 DEF RowCopies
  <1>8. CopiesLeft'
    BY <1>1, <1>2, <1>4, <1>5, <1>6 DEF WSInv, CopiesLeft
  <1>9. t \in Nat /\ moving(layer) \in Nat
    BY LiveFrame
  <1>10. ibuffer2s' = [ibuffer2s EXCEPT ![<<n, 0>>] = <<Row(n), bankReads[Row(n)]>>]
    BY DEF WSCopies, CopyInto, fetched
  <1>11. IfmapsGiven'
    <2>. SUFFICES ASSUME NEW r \in Rows
                  PROVE  IF <<"row", r>> \in copies'
                         THEN bankReads'[Row(r)] = t + 1 /\ ibuffer2s'[<<r, 0>>] = <<Row(r), t>>
                         ELSE /\ bankReads'[Row(r)] = (t + 1) + 1
                              /\ ibuffer2s'[<<r, 0>>] = <<Row(r), t + 1>>
                              /\ <<r, 0>> \notin pending
      <3>1. /\ Computing' /\ round' = "read" /\ ~(t' = moving(layer)' - 1)
            /\ t' = t /\ pending' = pending /\ Rows' = Rows /\ \A r : Row(r)' = Row(r)
        BY <1>1, <1>4, <1>5, <1>6, <1>7, <1>9
      <3>. QED BY <3>1, Zenon DEF IfmapsGiven, Given
    <2>1. IF <<"row", r>> \in copies THEN Given(r, t)
          ELSE Given(r, t + 1) /\ <<r, 0>> \notin pending
      BY <1>1, <1>2, <1>7, <1>9 DEF WSInv, IfmapsGiven
    <2>2. Row(r) \in Banks /\ (Row(r) = Row(n) => r = n) /\ <<r, 0>> \in Array
      BY LiveFrame
    <2>3. CASE r = n
      <3>1. bankReads[Row(r)] = t + 1 /\ bankReads'[Row(r)] = (t + 1) + 1
        BY <1>4, <2>1, <2>2, <2>3 DEF Given
      <3>2. ibuffer2s'[<<r, 0>>] = <<Row(r), t + 1>>
        BY <1>2, <1>10, <2>2, <2>3, <3>1 DEF Placed
      <3>. QED BY <1>1, <1>4, <2>3, <3>1, <3>2
    <2>4. CASE r # n
      <3>1. bankReads'[Row(r)] = bankReads[Row(r)] /\ (<<"row", r>> \in copies' <=> <<"row", r>> \in copies)
        BY <1>4, <2>2, <2>4
      <3>2. <<r, 0>> # <<n, 0>>
        BY <2>4
      <3>3. ibuffer2s'[<<r, 0>>] = ibuffer2s[<<r, 0>>]
        BY <1>2, <1>10, <2>2, <3>2 DEF Placed
      <3>. QED BY <2>1, <3>1, <3>3 DEF Given
    <2>. QED BY <2>3, <2>4
  <1>12. IfmapsPass'
    <2>1. \A r \in Rows, c \in Cols : c # 0 => ibuffer2s'[<<r, c>>] = ibuffer2s[<<r, c>>]
      <3>. SUFFICES ASSUME NEW r \in Rows, NEW c \in Cols, c # 0
                    PROVE  ibuffer2s'[<<r, c>>] = ibuffer2s[<<r, c>>]
        OBVIOUS
      <3>1. <<r, c>> # <<n, 0>> /\ <<r, c>> \in Array
        BY LiveFrame
      <3>. QED BY <1>2, <1>10, <3>1 DEF Placed
    <2>2. IfmapsPass /\ \A p : HasRead(p)' = HasRead(p)
      BY <1>2, <1>4 DEF WSInv, HasRead
    <2>. SUFFICES ASSUME NEW r \in Rows, NEW c \in Cols, t \in Window(c)
                  PROVE  /\ c # 0 => ibuffer2s'[<<r, c>>] = <<Row(r), t - c>>
                         /\ HasRead(<<r, c>>) => ifmap_flight[<<r, c>>] = <<Row(r), t - c>>
      BY <1>1, <1>4, <1>5, <2>2 DEF IfmapsPass
    <2>. QED BY <1>1, <2>1, <2>2 DEF IfmapsPass
  <1>13. WeightsStationary' /\ WeightsLoad' /\ IfmapsLoad'
    BY <1>1, <1>2, <1>4, <1>5, <1>6 DEF WSInv, WeightsStationary, WeightsLoad, IfmapsLoad
  <1>. QED BY <1>2, <1>4, <1>8, <1>11, <1>12, <1>13, LiveFrame DEF SInv, WSInv

-----------------------------------------------------------------------------
(* Computing: a PE reads its registers. *)
LEMMA PEReadsInv ==
  ASSUME Live, NEW i, NEW j, ISReads(i, j) \/ WSReads(i, j)
  PROVE  SInv'
  <1>1. /\ stage = "compute" /\ round = "read" /\ Computing /\ ~Loading
        /\ Runs(i, j) /\ ReadsPE(i, j)
    BY DEF ISReads, WSReads, In, Computing, Loading, ReadsPE
  <1>2. Placed /\ OfmapsArrive
    BY LiveFrame
  <1>3. /\ layer' = layer /\ v' = v /\ h' = h /\ stage' = stage /\ round' = round /\ t' = t
        /\ copies' = copies /\ pending' = pending \ {<<i, j>>} /\ <<i, j>> \in pending
        /\ ibuffer2s' = ibuffer2s /\ wbuffer2s' = wbuffer2s /\ obuffer2s' = obuffer2s
        /\ filter_flight' = filter_flight /\ bankReads' = bankReads
        /\ ifmap_flight' = [ifmap_flight EXCEPT ![<<i, j>>] = ibuffer2s[<<i, j>>]]
        /\ ofmap_flight' = [ofmap_flight EXCEPT ![<<i, j>>] = ofmapRead(i, j)]
    BY <1>1 DEF ReadsPE, Runs, place, registers
  <1>4. i \in Rows /\ j \in Cols
    BY <1>1, <1>2, <1>3, LiveFrame DEF Placed
  <1>5. /\ rows' = rows /\ cols' = cols /\ Rows' = Rows /\ Cols' = Cols
        /\ Used' = Used /\ Array' = Array /\ Banks' = Banks
        /\ \A r : Row(r)' = Row(r)
        /\ \A c : Col(c)' = Col(c)
        /\ \A c : Window(c)' = Window(c)
        /\ \A n : RowCopies(n)' = RowCopies(n)
    BY <1>3, FoldKept
  <1>6. Computing' /\ ~Loading'
    BY <1>1, <1>3 DEF Computing, Loading
  <1>7. \A p : HasRead(p)' => HasRead(p) \/ p = <<i, j>>
    BY <1>3 DEF HasRead
  <1>8. Placed'
    BY <1>2, <1>3, <1>5 DEF Placed, Loading
  <1>9. OfmapsArrive'
    <2>. SUFFICES ASSUME NEW r \in Rows, NEW c \in Cols, InWave(r, c)
                  PROVE  /\ r # 0 => obuffer2s[<<r, c>>] = t - r
                         /\ HasRead(<<r, c>>)' => ofmap_flight'[<<r, c>>] = t - r
      BY <1>1, <1>3, <1>5 DEF OfmapsArrive, InWave
    <2>1. /\ r # 0 => obuffer2s[<<r, c>>] = t - r
          /\ HasRead(<<r, c>>) => ofmap_flight[<<r, c>>] = t - r
      BY <1>1, <1>2 DEF OfmapsArrive
    <2>2. <<r, c>> \in Array /\ t \in Nat
      BY LiveFrame
    <2>3. ofmapRead(r, c) = t - r
      BY <2>1, <2>2 DEF ofmapRead
    <2>4. CASE r = i /\ c = j
      BY <1>2, <1>3, <2>1, <2>2, <2>3, <2>4 DEF Placed
    <2>5. CASE ~(r = i /\ c = j)
      <3>1. <<r, c>> # <<i, j>>
        BY <2>5
      <3>. QED BY <1>2, <1>3, <1>7, <2>1, <2>2, <3>1 DEF Placed
    <2>. QED BY <2>4, <2>5
  <1>10. layer.dataflow = "WS" => WSInv'
    <2>. SUFFICES ASSUME layer.dataflow = "WS" PROVE WSInv'
      OBVIOUS
    <2>1. WSInv
      BY DEF Live, SInv
    <2>2. CopiesLeft' /\ WeightsLoad' /\ IfmapsLoad'
      BY <1>1, <1>3, <1>5, <1>6, <2>1 DEF WSInv, CopiesLeft, WeightsLoad, IfmapsLoad
    <2>3. WeightsStationary'
      BY <1>1, <1>3, <1>5, <2>1 DEF WSInv, WeightsStationary
    <2>4. IfmapsGiven'
      BY <1>1, <1>3, <1>5, <2>1 DEF WSInv, IfmapsGiven, Given
    <2>5. IfmapsPass'
      <3>. SUFFICES ASSUME NEW r \in Rows, NEW c \in Cols, t \in Window(c)
                    PROVE  /\ c # 0 => ibuffer2s[<<r, c>>] = <<Row(r), t - c>>
                           /\ HasRead(<<r, c>>)' => ifmap_flight'[<<r, c>>] = <<Row(r), t - c>>
        BY <1>1, <1>3, <1>5 DEF IfmapsPass
      <3>1. /\ c # 0 => ibuffer2s[<<r, c>>] = <<Row(r), t - c>>
            /\ HasRead(<<r, c>>) => ifmap_flight[<<r, c>>] = <<Row(r), t - c>>
        BY <1>1, <2>1 DEF WSInv, IfmapsPass
      <3>2. <<r, c>> \in Array /\ t \in Nat /\ c \in Nat /\ moving(layer) \in Nat
        BY LiveFrame
      <3>3. CASE r = i /\ c = j
        <4>1. ibuffer2s[<<r, c>>] = <<Row(r), t - c>>
          <5>1. CASE c = 0
            <6>1. t < moving(layer)
              BY <3>2, <5>1 DEF Window
            <6>2. Given(r, t)
              BY <1>1, <1>3, <2>1, <3>3, <5>1, <6>1 DEF WSInv, IfmapsGiven
            <6>. QED BY <3>2, <5>1, <6>2 DEF Given
          <5>. QED BY <3>1, <5>1
        <4>. QED BY <1>2, <1>3, <3>1, <3>2, <3>3, <4>1 DEF Placed
      <3>4. CASE ~(r = i /\ c = j)
        <4>1. <<r, c>> # <<i, j>>
          BY <3>4
        <4>. QED BY <1>2, <1>3, <1>7, <3>1, <3>2, <4>1 DEF Placed
      <3>. QED BY <3>3, <3>4
    <2>. QED BY <2>1, <2>2, <2>3, <2>4, <2>5 DEF WSInv
  <1>. QED BY <1>3, <1>8, <1>9, <1>10, LiveFrame DEF SInv

(* Computing: a PE passes the ifmap value to the right and the ofmap down. *)
LEMMA PEWritesInv ==
  ASSUME Live, NEW i, NEW j, ISWrites(i, j) \/ WSWrites(i, j)
  PROVE  SInv'
  <1>1. /\ stage = "compute" /\ round = "write" /\ Computing /\ ~Loading
        /\ Runs(i, j) /\ WritesPE(i, j)
    BY DEF ISWrites, WSWrites, In, Computing, Loading, WritesPE
  <1>2. Placed /\ OfmapsArrive
    BY LiveFrame
  <1>3. /\ layer' = layer /\ v' = v /\ h' = h /\ stage' = stage /\ round' = round /\ t' = t
        /\ copies' = copies /\ pending' = pending \ {<<i, j>>} /\ <<i, j>> \in pending
        /\ wbuffer2s' = wbuffer2s /\ bankReads' = bankReads
        /\ filter_flight' = filter_flight /\ ifmap_flight' = ifmap_flight
        /\ ofmap_flight' = ofmap_flight
        /\ ibuffer2s' = IF j < cols - 1
                        THEN [ibuffer2s EXCEPT ![<<i, j + 1>>] = ifmap_flight[<<i, j>>]]
                        ELSE ibuffer2s
        /\ obuffer2s' = IF i < rows - 1 /\ InWindow(i, j)
                        THEN [obuffer2s EXCEPT ![<<i + 1, j>>] = ofmap_flight[<<i, j>>]]
                        ELSE obuffer2s
    BY <1>1 DEF WritesPE, Runs, place, flights
  <1>4. /\ i \in Rows /\ j \in Cols /\ i \in Nat /\ j \in Nat
        /\ rows \in Nat \ {0} /\ cols \in Nat \ {0} /\ t \in Nat /\ moving(layer) \in Nat \ {0}
        /\ Rows \subseteq Nat /\ Cols \subseteq Nat
    BY <1>1, <1>2, <1>3, LiveFrame DEF Placed
  <1>5. /\ rows' = rows /\ cols' = cols /\ Rows' = Rows /\ Cols' = Cols
        /\ Used' = Used /\ Array' = Array /\ Banks' = Banks
        /\ \A r : Row(r)' = Row(r)
        /\ \A c : Col(c)' = Col(c)
        /\ \A c : Window(c)' = Window(c)
        /\ \A n : RowCopies(n)' = RowCopies(n)
    BY <1>3, FoldKept
  <1>6. Computing' /\ ~Loading'
    BY <1>1, <1>3 DEF Computing, Loading
  <1>7. \A p : HasRead(p) /\ HasRead(p)'
    BY <1>1, <1>3 DEF HasRead
  <1>8. Placed'
    <2>1. DOMAIN ibuffer2s' = Array /\ DOMAIN obuffer2s' = Array
      BY <1>2, <1>3 DEF Placed
    <2>. QED BY <1>2, <1>3, <1>5, <2>1 DEF Placed, Loading
  <1>9. OfmapsArrive'
    <2>1. \A r \in Rows, c \in Cols : InWave(r, c) => ofmap_flight[<<r, c>>] = t - r
      BY <1>1, <1>2, <1>7 DEF OfmapsArrive
    <2>2. ASSUME NEW r \in Rows, NEW c \in Cols, r + 1 \in Rows,
                 <<r, c>> \notin pending', InWindow(r, c)
          PROVE  obuffer2s'[<<r + 1, c>>] = t - r
      <3>1. r \in Nat /\ c \in Nat /\ <<r + 1, c>> \in Array /\ InWave(r, c)
        BY <1>4, <2>2, LiveFrame DEF InWindow, InWave
      <3>2. CASE r = i /\ c = j
        <4>1. i < rows - 1
          BY <1>4, <2>2, <3>2 DEF Rows
        <4>. QED BY <1>2, <1>3, <2>1, <2>2, <3>1, <3>2, <4>1 DEF Placed
      <3>3. CASE ~(r = i /\ c = j)
        <4>1. <<r, c>> \notin pending
          BY <1>3, <2>2, <3>3
        <4>2. obuffer2s[<<r + 1, c>>] = t - r
          BY <1>1, <1>2, <2>2, <4>1 DEF OfmapsArrive
        <4>3. <<r + 1, c>> # <<i + 1, j>>
          BY <1>4, <3>1, <3>3
        <4>. QED BY <1>2, <1>3, <3>1, <4>2, <4>3 DEF Placed
      <3>. QED BY <3>2, <3>3
    <2>3. round' # "read"
      BY <1>1, <1>3
    <2>4. \A r \in Rows, c \in Cols :
            InWave(r, c)' = InWave(r, c) /\ InWindow(r, c)' = InWindow(r, c)
      BY <1>3, <1>5 DEF InWave, InWindow
    <2>. QED BY <1>3, <1>5, <2>1, <2>2, <2>3, <2>4 DEF OfmapsArrive
  <1>10. layer.dataflow = "WS" => WSInv'
    <2>. SUFFICES ASSUME layer.dataflow = "WS" PROVE WSInv'
      OBVIOUS
    <2>1. WSInv
      BY DEF Live, SInv
    <2>2. CopiesLeft' /\ WeightsLoad' /\ IfmapsLoad'
      BY <1>1, <1>3, <1>5, <1>6, <2>1 DEF WSInv, CopiesLeft, WeightsLoad, IfmapsLoad
    <2>3. WeightsStationary'
      BY <1>1, <1>3, <1>5, <2>1 DEF WSInv, WeightsStationary
    <2>4. IfmapsGiven'
      <3>1. \A r \in Rows : ibuffer2s'[<<r, 0>>] = ibuffer2s[<<r, 0>>]
        <4>. SUFFICES ASSUME NEW r \in Rows PROVE ibuffer2s'[<<r, 0>>] = ibuffer2s[<<r, 0>>]
          OBVIOUS
        <4>1. <<r, 0>> # <<i, j + 1>> /\ <<r, 0>> \in Array
          BY <1>4, LiveFrame
        <4>. QED BY <1>2, <1>3, <4>1 DEF Placed
      <3>. QED BY <1>1, <1>3, <1>5, <2>1, <3>1 DEF WSInv, IfmapsGiven, Given
    <2>5. IfmapsPass'
      <3>. SUFFICES ASSUME NEW r \in Rows, NEW c \in Cols, t \in Window(c)
                    PROVE  /\ ifmap_flight[<<r, c>>] = <<Row(r), t - c>>
                           /\ c + 1 \in Cols /\ <<r, c>> \notin pending' =>
                                ibuffer2s'[<<r, c + 1>>] = <<Row(r), t - c>>
        <4>1. /\ round' # "read" /\ t' = t /\ ifmap_flight' = ifmap_flight
              /\ Rows' = Rows /\ Cols' = Cols
              /\ \A r : Row(r)' = Row(r)
              /\ \A c : Window(c)' = Window(c)
          BY <1>1, <1>3, <1>5
        <4>. QED BY <4>1, Zenon DEF IfmapsPass
      <3>1. /\ ifmap_flight[<<r, c>>] = <<Row(r), t - c>>
            /\ c + 1 \in Cols /\ <<r, c>> \notin pending =>
                 ibuffer2s[<<r, c + 1>>] = <<Row(r), t - c>>
        BY <1>1, <1>7, <2>1 DEF WSInv, IfmapsPass
      <3>2. c + 1 \in Cols => <<r, c + 1>> \in Array /\ c < cols - 1
        BY <1>4, LiveFrame DEF Cols
      <3>3. CASE r = i /\ c = j
        BY <1>2, <1>3, <3>1, <3>2, <3>3 DEF Placed
      <3>4. CASE ~(r = i /\ c = j)
        <4>1. <<r, c + 1>> # <<i, j + 1>> /\ (<<r, c>> \in pending' <=> <<r, c>> \in pending)
          BY <1>3, <1>4, <3>4
        <4>2. c + 1 \in Cols => ibuffer2s'[<<r, c + 1>>] = ibuffer2s[<<r, c + 1>>]
          BY <1>2, <1>3, <3>2, <4>1 DEF Placed
        <4>. QED BY <3>1, <4>1, <4>2
      <3>. QED BY <3>3, <3>4
    <2>. QED BY <2>1, <2>2, <2>3, <2>4, <2>5 DEF WSInv
  <1>. QED BY <1>3, <1>8, <1>9, <1>10, LiveFrame DEF SInv

-----------------------------------------------------------------------------
(* The controlling processor goes on: nothing is left to run or to copy.    *)
LEMMA AwaitsKept ==
  ASSUME Live, Awaits
  PROVE  /\ layer' = layer /\ pending = {} /\ copies = {}
         /\ ibuffer2s' = ibuffer2s /\ wbuffer2s' = wbuffer2s /\ obuffer2s' = obuffer2s
         /\ ifmap_flight' = ifmap_flight /\ filter_flight' = filter_flight
         /\ ofmap_flight' = ofmap_flight
         /\ \A p : HasRead(p)
  BY DEF Awaits, LaunchesDone, registers, flights, HasRead

LEMMA AwaitsLoadingInv ==
  ASSUME Live, Awaits, AwaitsLoading
  PROVE  SInv'
  <1>1. /\ layer' = layer /\ pending = {} /\ copies = {}
        /\ ibuffer2s' = ibuffer2s /\ wbuffer2s' = wbuffer2s /\ obuffer2s' = obuffer2s
        /\ ifmap_flight' = ifmap_flight /\ filter_flight' = filter_flight
        /\ ofmap_flight' = ofmap_flight
        /\ \A p : HasRead(p)
    BY AwaitsKept
  <1>2. /\ stage = "load" /\ Loading /\ ~Computing
        /\ v' = v /\ h' = h /\ bankReads' = bankReads
    BY DEF AwaitsLoading, Loading, Computing
  <1>3. /\ Placed /\ OfmapsArrive /\ t \in Nat /\ t < rows /\ rows \in Nat \ {0} /\ cols \in Nat \ {0}
        /\ Rows \subseteq Nat /\ Cols \subseteq Nat /\ moving(layer) \in Nat \ {0}
    BY <1>2, LiveFrame DEF Placed
  <1>4. layer.dataflow = "WS" => WSInv
    BY <1>2 DEF Live, SInv
  <1>5. /\ rows' = rows /\ cols' = cols /\ Rows' = Rows /\ Cols' = Cols
        /\ Used' = Used /\ Array' = Array /\ Banks' = Banks
        /\ \A r : Row(r)' = Row(r)
        /\ \A c : Col(c)' = Col(c)
        /\ \A c : Window(c)' = Window(c)
        /\ \A n : LoadCopies(n)' = LoadCopies(n) /\ RowCopies(n)' = RowCopies(n)
    BY <1>1, <1>2, FoldKept
  <1>6. ASSUME stage' = "load"
        PROVE  OfmapsArrive' /\ Loading' /\ ~Computing'
               /\ WeightsStationary' /\ IfmapsGiven' /\ IfmapsPass'
    BY <1>1, <1>3, <1>6 DEF OfmapsArrive, Computing, Loading, WeightsStationary, IfmapsGiven, IfmapsPass
  <1>7. CASE round = "read" /\ StartRound("write", Places(rows - 1, cols), {}) /\ UNCHANGED <<stage, t>>
    <2>1. /\ round' = "write" /\ pending' = Places(rows - 1, cols) /\ copies' = {}
          /\ stage' = "load" /\ t' = t
      BY <1>2, <1>7 DEF StartRound
    <2>2. Placed'
      BY <1>1, <1>2, <1>3, <1>5, <1>6, <2>1 DEF Placed
    <2>. SUFFICES ASSUME layer.dataflow = "WS" PROVE CopiesLeft' /\ WeightsLoad' /\ IfmapsLoad'
      BY <1>1, <1>6, <2>1, <2>2, LiveFrame DEF SInv, WSInv
    <2>3. CopiesLeft'
      BY <2>1 DEF CopiesLeft
    <2>4. WeightsLoad'
      <3>. SUFFICES ASSUME NEW c \in Cols
                    PROVE  /\ bankReads[Col(c)] = t
                           /\ \A r \in Rows : r < t /\ r + 1 \in Rows =>
                                /\ filter_flight[<<r, c>>] = <<Col(c), t - 1 - r>>
                                /\ <<r, c>> \in pending'
        BY <1>1, <1>2, <1>5, <2>1 DEF WeightsLoad
      <3>. QED BY <1>1, <1>2, <1>4, <1>7, <2>1, LiveFrame DEF WSInv, WeightsLoad
    <2>5. IfmapsLoad'
      BY <1>1, <1>2, <1>4, <1>5, <1>7, <2>1 DEF WSInv, IfmapsLoad
    <2>. QED BY <2>3, <2>4, <2>5
  <1>8. CASE round = "write" /\ StartRound("copy", {}, LoadCopies(t)) /\ UNCHANGED <<stage, t>>
    <2>1. /\ round' = "copy" /\ pending' = {} /\ copies' = LoadCopies(t)
          /\ stage' = "load" /\ t' = t
      BY <1>2, <1>8 DEF StartRound
    <2>2. Placed'
      BY <1>1, <1>2, <1>3, <1>5, <1>6, <2>1 DEF Placed
    <2>. SUFFICES ASSUME layer.dataflow = "WS" PROVE CopiesLeft' /\ WeightsLoad' /\ IfmapsLoad'
      BY <1>1, <1>6, <2>1, <2>2, LiveFrame DEF SInv, WSInv
    <2>3. CopiesLeft'
      BY <1>5, <1>6, <2>1 DEF CopiesLeft
    <2>4. WeightsLoad'
      <3>1. \A c \in Cols : <<"col", c>> \in copies'
        BY <2>1 DEF LoadCopies, Cols
      <3>. SUFFICES ASSUME NEW c \in Cols
                    PROVE  /\ bankReads[Col(c)] = t
                           /\ \A r \in Rows : r < t /\ r + 1 \in Rows =>
                                wbuffer2s[<<r + 1, c>>] = <<Col(c), t - 1 - r>>
        BY <1>1, <1>2, <1>5, <2>1, <3>1 DEF WeightsLoad
      <3>. QED BY <1>1, <1>2, <1>4, <1>8 DEF WSInv, WeightsLoad
    <2>5. IfmapsLoad'
      <3>1. t = rows - 1 => \A r \in Rows : <<"row", r>> \in copies'
        BY <2>1 DEF LoadCopies, Rows
      <3>2. \A r \in Rows : bankReads[Row(r)] = 0
        BY <1>2, <1>4, <1>8 DEF WSInv, IfmapsLoad
      <3>. QED BY <1>2, <1>5, <2>1, <3>1, <3>2 DEF IfmapsLoad
    <2>. QED BY <2>3, <2>4, <2>5
  <1>9. CASE /\ round = "copy" /\ t < rows - 1 /\ StartRound("read", Places(rows - 1, cols), {})
             /\ t' = t + 1 /\ UNCHANGED stage
    <2>1. /\ round' = "read" /\ pending' = Places(rows - 1, cols) /\ copies' = {}
          /\ stage' = "load" /\ t' = t + 1
      BY <1>2, <1>9 DEF StartRound
    <2>2. Placed'
      BY <1>1, <1>2, <1>3, <1>5, <1>6, <1>9, <2>1 DEF Placed
    <2>. SUFFICES ASSUME layer.dataflow = "WS" PROVE CopiesLeft' /\ WeightsLoad' /\ IfmapsLoad'
      BY <1>1, <1>6, <2>1, <2>2, LiveFrame DEF SInv, WSInv
    <2>3. CopiesLeft'
      BY <2>1 DEF CopiesLeft
    <2>4. WeightsLoad'
      <3>. SUFFICES ASSUME NEW c \in Cols
                    PROVE  /\ bankReads[Col(c)] = t + 1
                           /\ \A r \in Rows : r < t + 1 =>
                                /\ wbuffer2s[<<r, c>>] = <<Col(c), t - r>>
                                /\ r + 1 \in Rows => <<r, c>> \in pending'
        <4>1. \A r \in Rows : t' - 1 - r = t - r
          BY <1>3, <2>1
        <4>2. \A p : p \in pending' => ~HasRead(p)'
          BY <2>1 DEF HasRead
        <4>. QED BY <1>1, <1>2, <1>5, <2>1, <4>1, <4>2 DEF WeightsLoad
      <3>1. /\ bankReads[Col(c)] = t + 1 /\ wbuffer2s[<<0, c>>] = <<Col(c), t>>
            /\ \A r \in Rows : r < t /\ r + 1 \in Rows => wbuffer2s[<<r + 1, c>>] = <<Col(c), t - 1 - r>>
        BY <1>1, <1>2, <1>4, <1>9 DEF WSInv, WeightsLoad
      <3>2. ASSUME NEW r \in Rows, r < t + 1 PROVE wbuffer2s[<<r, c>>] = <<Col(c), t - r>>
        <4>1. CASE r = 0
          BY <1>3, <3>1, <4>1
        <4>2. CASE r # 0
          <5>1. r - 1 \in Rows /\ r - 1 < t /\ (r - 1) + 1 = r /\ t - 1 - (r - 1) = t - r
            BY <1>3, <3>2, <4>2 DEF Rows
          <5>. QED BY <3>1, <5>1
        <4>. QED BY <4>1, <4>2
      <3>3. \A r \in Rows : r + 1 \in Rows => <<r, c>> \in pending'
        BY <2>1, LiveFrame
      <3>. QED BY <3>1, <3>2, <3>3
    <2>5. IfmapsLoad'
      <3>0. IfmapsLoad /\ Loading /\ t # rows - 1
        BY <1>2, <1>3, <1>4, <1>9 DEF WSInv
      <3>1. \A r \in Rows : bankReads[Row(r)] = 0
        BY <3>0, Zenon DEF IfmapsLoad
      <3>. QED BY <1>2, <1>5, <2>1, <3>1 DEF IfmapsLoad
    <2>. QED BY <2>3, <2>4, <2>5
  <1>10. CASE /\ round = "copy" /\ t = rows - 1 /\ stage' = "compute" /\ t' = 0
              /\ StartRound("read", Used, RowCopies(0))
    <2>1. /\ round' = "read" /\ pending' = Used /\ copies' = RowCopies(0)
          /\ stage' = "compute" /\ t' = 0 /\ Computing' /\ ~Loading'
      BY <1>10 DEF StartRound, Computing, Loading
    <2>2. Placed'
      BY <1>1, <1>2, <1>3, <1>5, <2>1 DEF Placed
    <2>3. OfmapsArrive'
      <3>1. \A r \in Rows, c \in Cols : ~InWave(r, c)'
        BY <1>3, <2>1 DEF InWave
      <3>. QED BY <1>1, <1>3, <1>5, <2>1, <3>1 DEF OfmapsArrive
    <2>. SUFFICES ASSUME layer.dataflow = "WS" PROVE WSInv'
      BY <1>1, <2>2, <2>3, LiveFrame DEF SInv
    <2>4. CopiesLeft'
      BY <1>5, <2>1 DEF CopiesLeft
    <2>5. WeightsLoad' /\ IfmapsLoad'
      BY <2>1 DEF WeightsLoad, IfmapsLoad
    <2>6. WeightsStationary'
      <3>. SUFFICES ASSUME NEW r \in Rows, NEW c \in Cols
                    PROVE  wbuffer2s[<<r, c>>] = <<Col(c), rows - 1 - r>>
        BY <1>1, <1>5, LiveFrame DEF WeightsStationary
      <3>1. /\ wbuffer2s[<<0, c>>] = <<Col(c), t>>
            /\ \A q \in Rows : q < t /\ q + 1 \in Rows => wbuffer2s[<<q + 1, c>>] = <<Col(c), t - 1 - q>>
        BY <1>1, <1>2, <1>4, <1>10 DEF WSInv, WeightsLoad
      <3>2. CASE r = 0
        BY <1>3, <1>10, <3>1, <3>2
      <3>3. CASE r # 0
        <4>1. r - 1 \in Rows /\ r - 1 < t /\ (r - 1) + 1 = r /\ t - 1 - (r - 1) = rows - 1 - r
          BY <1>3, <1>10, <3>3 DEF Rows
        <4>. QED BY <3>1, <4>1
      <3>. QED BY <3>2, <3>3
    <2>7. \A r \in Rows : Given(r, 0)
      BY <1>1, <1>2, <1>4, <1>10 DEF WSInv, IfmapsLoad
    <2>8. IfmapsGiven'
      <3>. SUFFICES ASSUME NEW r \in Rows, 0 < moving(layer)
                    PROVE  <<"row", r>> \in copies' \/ 0 = moving(layer) - 1
        BY <1>1, <1>2, <1>5, <2>1, <2>7 DEF IfmapsGiven, Given
      <3>. QED BY <1>3, <2>1 DEF RowCopies, Rows
    <2>9. IfmapsPass'
      <3>1. \A c \in Cols : c # 0 => ~(t' \in Window(c))
        BY <1>3, <2>1 DEF Window
      <3>2. \A r \in Rows, c \in Cols : ~HasRead(<<r, c>>)'
        BY <2>1, LiveFrame DEF HasRead
      <3>. QED BY <1>5, <2>1, <3>1, <3>2 DEF IfmapsPass
    <2>. QED BY <2>4, <2>5, <2>6, <2>8, <2>9 DEF WSInv
  <1>. QED BY <1>7, <1>8, <1>9, <1>10 DEF AwaitsLoading

LEMMA AwaitsRowsInv ==
  ASSUME Live, Awaits, AwaitsRows
  PROVE  SInv'
  <1>1. /\ layer' = layer /\ pending = {} /\ copies = {}
        /\ ibuffer2s' = ibuffer2s /\ wbuffer2s' = wbuffer2s /\ obuffer2s' = obuffer2s
        /\ ifmap_flight' = ifmap_flight /\ filter_flight' = filter_flight
        /\ ofmap_flight' = ofmap_flight
        /\ \A p : HasRead(p)
    BY AwaitsKept
  <1>2. /\ stage = "compute" /\ Computing /\ ~Loading
        /\ v' = v /\ h' = h /\ bankReads' = bankReads
        /\ stage' = "compute" /\ Computing' /\ ~Loading'
    BY DEF AwaitsRows, Loading, Computing
  <1>3. /\ Placed /\ OfmapsArrive /\ t \in Nat /\ rows \in Nat \ {0} /\ cols \in Nat \ {0}
        /\ Rows \subseteq Nat /\ Cols \subseteq Nat /\ moving(layer) \in Nat \ {0}
        /\ 0 \in Cols
        /\ \A r \in Rows, c \in Cols : <<r, c>> \in Used
    BY LiveFrame
  <1>4. layer.dataflow = "WS" => WSInv
    BY <1>2 DEF Live, SInv
  <1>5. /\ rows' = rows /\ cols' = cols /\ Rows' = Rows /\ Cols' = Cols
        /\ Used' = Used /\ Array' = Array /\ Banks' = Banks
        /\ \A r : Row(r)' = Row(r)
        /\ \A c : Col(c)' = Col(c)
        /\ \A c : Window(c)' = Window(c)
        /\ \A n : LoadCopies(n)' = LoadCopies(n) /\ RowCopies(n)' = RowCopies(n)
    BY <1>1, <1>2, FoldKept
  <1>6. WeightsLoad' /\ IfmapsLoad'
    BY <1>2 DEF WeightsLoad, IfmapsLoad
  <1>7. layer.dataflow = "WS" => WeightsStationary'
    BY <1>1, <1>2, <1>4, <1>5 DEF WSInv, WeightsStationary
  <1>9. CASE round = "read" /\ StartRound("write", Used, {}) /\ UNCHANGED t
    <2>1. round' = "write" /\ pending' = Used /\ copies' = {} /\ t' = t
      BY <1>9 DEF StartRound
    <2>2. Placed'
      BY <1>1, <1>2, <1>3, <1>5, <2>1 DEF Placed
    <2>3. OfmapsArrive'
      <3>1. ASSUME NEW r \in Rows, NEW c \in Cols
            PROVE  /\ InWave(r, c)' = InWave(r, c)
                   /\ InWave(r, c) => ofmap_flight[<<r, c>>] = t - r
                   /\ <<r, c>> \in pending'
        BY <1>1, <1>2, <1>3, <1>5, <2>1 DEF OfmapsArrive, InWave
      <3>. QED BY <1>1, <1>2, <1>5, <2>1, <3>1 DEF OfmapsArrive
    <2>. SUFFICES ASSUME layer.dataflow = "WS" PROVE CopiesLeft' /\ IfmapsGiven' /\ IfmapsPass'
      BY <1>1, <1>6, <1>7, <2>2, <2>3, LiveFrame DEF SInv, WSInv
    <2>4. CopiesLeft'
      BY <2>1 DEF CopiesLeft
    <2>5. IfmapsGiven'
      <3>. SUFFICES ASSUME NEW r \in Rows, t + 1 < moving(layer)
                    PROVE  Given(r, t + 1)
        BY <1>1, <1>2, <1>5, <2>1 DEF IfmapsGiven, Given
      <3>1. t < moving(layer) /\ t # moving(layer) - 1
        BY <1>3
      <3>. QED BY <1>1, <1>2, <1>4, <1>9, <3>1 DEF WSInv, IfmapsGiven
    <2>6. IfmapsPass'
      <3>. SUFFICES ASSUME NEW r \in Rows, NEW c \in Cols, t \in Window(c)
                    PROVE  ifmap_flight[<<r, c>>] = <<Row(r), t - c>>
        <4>1. /\ round' = "write" /\ t' = t /\ ifmap_flight' = ifmap_flight
              /\ Rows' = Rows /\ Cols' = Cols
              /\ \A r : Row(r)' = Row(r)
              /\ \A c : Window(c)' = Window(c)
              /\ \A r \in Rows, c \in Cols : <<r, c>> \in pending'
          BY <1>1, <1>3, <1>5, <2>1
        <4>. QED BY <4>1 DEF IfmapsPass
      <3>. QED BY <1>1, <1>2, <1>4 DEF WSInv, IfmapsPass
    <2>. QED BY <2>4, <2>5, <2>6
  <1>10. CASE /\ round = "write" /\ t + 1 < moving(layer) + rows + cols
              /\ t' = t + 1 /\ StartRound("read", Used, RowCopies(t + 1))
    <2>1. round' = "read" /\ pending' = Used /\ copies' = RowCopies(t + 1) /\ t' = t + 1
      BY <1>10 DEF StartRound
    <2>2. Placed'
      BY <1>1, <1>2, <1>3, <1>5, <2>1 DEF Placed
    <2>3. \A r \in Rows, c \in Cols : ~HasRead(<<r, c>>)'
      BY <1>3, <2>1 DEF HasRead
    <2>4. OfmapsArrive'
      <3>1. ASSUME NEW r \in Rows, NEW c \in Cols, r # 0, InWave(r, c)'
            PROVE  obuffer2s[<<r, c>>] = (t + 1) - r
        <4>1. /\ r - 1 \in Rows /\ (r - 1) + 1 = r /\ r \in Nat /\ c \in Nat
              /\ t - (r - 1) = (t + 1) - r
          BY <1>3, <3>1 DEF Rows
        <4>2. InWindow(r - 1, c)
          BY <1>1, <1>3, <1>5, <2>1, <3>1, <4>1 DEF InWave, InWindow
        <4>. QED BY <1>1, <1>2, <1>3, <1>10, <4>1, <4>2 DEF OfmapsArrive
      <3>. QED BY <1>1, <1>5, <2>1, <2>3, <3>1 DEF OfmapsArrive
    <2>. SUFFICES ASSUME layer.dataflow = "WS" PROVE CopiesLeft' /\ IfmapsGiven' /\ IfmapsPass'
      BY <1>1, <1>6, <1>7, <2>2, <2>4, LiveFrame DEF SInv, WSInv
    <2>5. CopiesLeft'
      BY <1>2, <1>5, <2>1 DEF CopiesLeft
    <2>6. IfmapsGiven'
      <3>1. ASSUME NEW r \in Rows, t + 1 < moving(layer) PROVE Given(r, t + 1)
        BY <1>2, <1>4, <1>10, <3>1 DEF WSInv, IfmapsGiven
      <3>2. ASSUME NEW r \in Rows, t + 1 < moving(layer)
            PROVE  <<"row", r>> \in copies' \/ t + 1 = moving(layer) - 1
        BY <1>3, <2>1, <3>2 DEF RowCopies, Rows
      <3>. QED BY <1>1, <1>2, <1>5, <2>1, <3>1, <3>2 DEF IfmapsGiven, Given
    <2>7. IfmapsPass'
      <3>. SUFFICES ASSUME NEW r \in Rows, NEW c \in Cols, c # 0, t + 1 \in Window(c)
                    PROVE  ibuffer2s[<<r, c>>] = <<Row(r), (t + 1) - c>>
        BY <1>1, <1>5, <2>1, <2>3 DEF IfmapsPass
      <3>1. /\ c - 1 \in Cols /\ (c - 1) + 1 = c /\ t \in Window(c - 1)
            /\ t - (c - 1) = (t + 1) - c
        BY <1>3 DEF Cols, Window
      <3>. QED BY <1>1, <1>2, <1>4, <1>10, <3>1 DEF WSInv, IfmapsPass
    <2>. QED BY <2>5, <2>6, <2>7
  <1>. QED BY <1>9, <1>10 DEF AwaitsRows

LEMMA AwaitsFoldFresh ==
  ASSUME Live, Awaits, AwaitsFold, v' < num_v_fold(layer)
  PROVE  Fresh'
  <1>1. /\ layer' = layer /\ pending = {} /\ copies = {}
        /\ ibuffer2s' = ibuffer2s /\ wbuffer2s' = wbuffer2s /\ obuffer2s' = obuffer2s
        /\ ifmap_flight' = ifmap_flight /\ filter_flight' = filter_flight
        /\ ofmap_flight' = ofmap_flight
    BY AwaitsKept
  <1>2. Placed /\ OfmapsArrive /\ layer \in Layers /\ FoldsFit /\ layer.dataflow # "OS"
    BY LiveFrame DEF Live
  <1>3. /\ stage' = "load" /\ round' = "copy" /\ pending' = {} /\ copies' = LoadCopies(0)'
        /\ t' = 0 /\ bankReads' = [b \in Banks |-> 0]
    BY DEF AwaitsFold, StartRound
  <1>4. v' \in Nat /\ h' \in Nat /\ h' < num_h_fold(layer)
    <2>1. num_h_fold(layer) \in Nat \ {0}
      BY <1>2, FoldSizes
    <2>. QED BY <1>2, <2>1 DEF AwaitsFold, Placed
  <1>5. Array' = Array /\ Banks' = Banks
    BY <1>1 DEF Array, Banks
  <1>. QED BY <1>1, <1>2, <1>3, <1>4, <1>5 DEF Fresh, Placed, FoldsFit

LEMMA AwaitsFoldInv ==
  ASSUME Live, Awaits, AwaitsFold
  PROVE  SInv'
  <1>1. layer' = layer
    BY AwaitsKept
  <1>2. layer \in Layers
    BY LiveFrame
  <1>3. CASE v' < num_v_fold(layer)
    BY <1>3, AwaitsFoldFresh, FreshInvNext
  <1>4. CASE ~(v' < num_v_fold(layer))
    BY <1>1, <1>2, <1>4 DEF AwaitsFold, SInv
  <1>. QED BY <1>3, <1>4

(* Where nothing is at work, nothing happens. *)
LEMMA OutputStationarySteps == ASSUME SInv, OSNext
                               PROVE  SInv'
  <1>1. layer' = layer /\ layer.dataflow = "OS"
    BY DEF OSNext, OSReads, OSIdles, OSWrites, OSAwaits, Runs, In, place
  <1>. QED BY <1>1 DEF SInv

LEMMA StationarySteps == ASSUME FoldsFit, SInv, StationaryNext
                         PROVE  SInv'
  <1>1. layer.dataflow # "OS" /\ stage # "done"
    BY DEF StationaryNext, ISLoads, WSLoads, ISReads, WSReads, ISWrites, WSWrites, ISCopies,
           WSCopies, ISLoadCopies, WSLoadCopies, Awaits, AwaitsLoading, AwaitsRows, AwaitsFold, In
  <1>2. Live
    BY <1>1 DEF Live
  <1>3. ASSUME NEW p \in pending, ISLoads(p[1], p[2]) \/ WSLoads(p[1], p[2])
        PROVE  SInv'
    BY <1>2, <1>3, ISLoadsInv, WSLoadsInv
  <1>4. ASSUME NEW p \in pending, ISReads(p[1], p[2]) \/ WSReads(p[1], p[2])
        PROVE  SInv'
    BY <1>2, <1>4, PEReadsInv
  <1>5. ASSUME NEW p \in pending, ISWrites(p[1], p[2]) \/ WSWrites(p[1], p[2])
        PROVE  SInv'
    BY <1>2, <1>5, PEWritesInv
  <1>6. ASSUME NEW r \in 0 .. rows - 1, ISCopies(r) \/ WSCopies(r)
        PROVE  SInv'
    BY <1>2, <1>6, ISCopiesInv, WSCopiesNextIfmap DEF Rows
  <1>7. CASE ISLoadCopies
    BY <1>2, <1>7, ISCopiesInv
  <1>8. CASE WSLoadCopies
    <2>1. In("WS", "load", "copy")
      BY <1>8 DEF WSLoadCopies
    <2>2. PICK n \in 0 .. rows + cols :
            \/ /\ Copies("col", n, Col(n))
               /\ wbuffer2s' = CopyInto(wbuffer2s, 0, n, Col(n)) /\ UNCHANGED ibuffer2s
            \/ /\ Copies("row", n, Row(n))
               /\ ibuffer2s' = CopyInto(ibuffer2s, n, 0, Row(n)) /\ UNCHANGED wbuffer2s
      BY <1>8 DEF WSLoadCopies
    <2>. QED BY <1>2, <2>1, <2>2, WSCopiesWeight, WSCopiesFirstIfmap
  <1>9. CASE Awaits
    BY <1>2, <1>9, AwaitsLoadingInv, AwaitsRowsInv, AwaitsFoldInv DEF Awaits
  <1>. QED BY <1>3, <1>4, <1>5, <1>6, <1>7, <1>8, <1>9 DEF StationaryNext

LEMMA NextSInv == ASSUME FoldsFit, SInv, [Next]_vars
                  PROVE  SInv'
  <1>1. CASE UNCHANGED vars
    <2>1. /\ layer' = layer /\ v' = v /\ h' = h /\ stage' = stage /\ round' = round /\ t' = t
          /\ pending' = pending /\ copies' = copies /\ bankReads' = bankReads
          /\ ibuffer2s' = ibuffer2s /\ wbuffer2s' = wbuffer2s /\ obuffer2s' = obuffer2s
          /\ ifmap_flight' = ifmap_flight /\ filter_flight' = filter_flight
          /\ ofmap_flight' = ofmap_flight
      BY <1>1 DEF vars, place, registers, flights
    <2>2. /\ rows' = rows /\ cols' = cols /\ Rows' = Rows /\ Cols' = Cols
          /\ Used' = Used /\ Array' = Array /\ Banks' = Banks
          /\ \A r : Row(r)' = Row(r)
          /\ \A c : Col(c)' = Col(c)
          /\ \A c : Window(c)' = Window(c)
          /\ \A n : LoadCopies(n)' = LoadCopies(n) /\ RowCopies(n)' = RowCopies(n)
      BY <2>1, FoldKept
    <2>3. /\ \A p : HasRead(p)' = HasRead(p)
          /\ Loading' = Loading /\ Computing' = Computing
          /\ \A r, n : Given(r, n)' = Given(r, n)
      BY <2>1, <2>2 DEF HasRead, Loading, Computing, Given
    <2>. SUFFICES ASSUME layer.dataflow # "OS", stage # "done" PROVE SInv'
      BY <2>1 DEF SInv
    <2>4. Placed' /\ OfmapsArrive'
      <3>1. \A r, c : InWave(r, c)' = InWave(r, c) /\ InWindow(r, c)' = InWindow(r, c)
        BY <2>1, <2>2 DEF InWave, InWindow
      <3>. QED BY <2>1, <2>2, <2>3, <3>1 DEF SInv, Placed, OfmapsArrive
    <2>5. WSInv => WSInv'
      <3>1. /\ CopiesLeft => CopiesLeft'
            /\ WeightsStationary => WeightsStationary'
        BY <2>1, <2>2, <2>3 DEF CopiesLeft, WeightsStationary
      <3>2. WeightsLoad => WeightsLoad'
        BY <2>1, <2>2, <2>3 DEF WeightsLoad
      <3>3. IfmapsLoad => IfmapsLoad'
        BY <2>1, <2>2, <2>3 DEF IfmapsLoad, Given
      <3>4. IfmapsGiven => IfmapsGiven'
        BY <2>1, <2>2, <2>3 DEF IfmapsGiven, Given
      <3>5. IfmapsPass => IfmapsPass'
        BY <2>1, <2>2, <2>3 DEF IfmapsPass
      <3>. QED BY <3>1, <3>2, <3>3, <3>4, <3>5 DEF WSInv
    <2>. QED BY <2>1, <2>4, <2>5 DEF SInv
  <1>2. CASE OSNext
    BY <1>2, OutputStationarySteps
  <1>3. CASE StationaryNext
    BY <1>3, StationarySteps
  <1>. QED BY <1>1, <1>2, <1>3 DEF Next

LEMMA SInvAlways == ASSUME FoldsFit PROVE Spec => []SInv
  <1>1. Init => SInv
    BY InitSInv
  <1>2. SInv /\ [Next]_vars => SInv'
    BY NextSInv
  <1>. QED BY <1>1, <1>2, PTL DEF Spec

-----------------------------------------------------------------------------
(***************************************************************************)
(* For every layer whose folds fit the array, and every order of launches  *)
(* and copies, a weight stationary array computes a fold with the weights  *)
(* it has loaded.                                                          *)
(***************************************************************************)
THEOREM WeightsStay == ASSUME FoldsFit PROVE Spec => []WeightsStationary
  <1>1. SInv => WeightsStationary
    <2>. SUFFICES ASSUME SInv, layer.dataflow = "WS", stage = "compute" PROVE WeightsStationary
      BY DEF WeightsStationary
    <2>. QED BY DEF SInv, WSInv
  <1>. QED BY <1>1, SInvAlways, PTL

(***************************************************************************)
(* The ifmap values of a weight stationary array move in lockstep, though  *)
(* the copies into the first column run beside the launches.               *)
(***************************************************************************)
THEOREM IfmapsInStep == ASSUME FoldsFit PROVE Spec => []Lockstep
  <1>1. SInv => Lockstep
    <2>. SUFFICES ASSUME SInv, In("WS", "compute", "write"), NEW p \in Used,
                         t \in p[2] .. p[2] + moving(layer) - 1
                  PROVE  ifmap_flight[p] = <<Row(p[1]), t - p[2]>>
      BY DEF Lockstep
    <2>1. layer.dataflow = "WS" /\ stage = "compute" /\ round = "write" /\ WSInv /\ Computing
      BY DEF In, SInv, Computing
    <2>2. p[1] \in Rows /\ p[2] \in Cols /\ p = <<p[1], p[2]>>
      BY DEF Used, Places, Rows, Cols
    <2>3. HasRead(p) /\ t \in Window(p[2])
      BY <2>1 DEF HasRead, Window
    <2>. QED BY <2>1, <2>2, <2>3 DEF WSInv, IfmapsPass
  <1>. QED BY <1>1, SInvAlways, PTL

(***************************************************************************)
(* What leaves a column of an input or weight stationary array began in    *)
(* its first row as many steps before as there are rows below, whatever    *)
(* the folds before left in the registers.                                 *)
(***************************************************************************)
THEOREM OfmapsInTurn == ASSUME FoldsFit PROVE Spec => ColumnsInTurn
  <1>1. SInv /\ [Next]_vars =>
          [layer.dataflow # "OS" /\ outputs' # outputs =>
             \A p \in pending \ pending' : ofmap_flight[p] = t - (rows - 1)]_vars
    <2>. SUFFICES ASSUME SInv, [Next]_vars, layer.dataflow # "OS", outputs' # outputs,
                         NEW q \in pending \ pending'
                  PROVE  ofmap_flight[q] = t - (rows - 1)
      OBVIOUS
    <2>1. StationaryNext
      BY DEF Next, vars, OSNext, OSReads, OSIdles, OSWrites, OSAwaits, In
    <2>2. PICK p \in pending : ISWrites(p[1], p[2]) \/ WSWrites(p[1], p[2])
      BY <2>1 DEF StationaryNext, ISLoads, WSLoads, ISReads, WSReads, ReadsPE, ISCopies, WSCopies,
                  ISLoadCopies, WSLoadCopies, Copies, Awaits
    <2>3. /\ stage = "compute" /\ round = "write" /\ WritesPE(p[1], p[2])
      BY <2>2 DEF ISWrites, WSWrites, In
    <2>4. Live
      BY <2>3 DEF Live
    <2>5. /\ p[1] = rows - 1 /\ InWindow(p[1], p[2])
          /\ pending' = pending \ {<<p[1], p[2]>>}
      BY <2>3 DEF WritesPE, Runs
    <2>6. q = <<p[1], p[2]>>
      BY <2>5
    <2>7. p[1] \in Rows /\ p[2] \in Cols /\ rows \in Nat
      BY <2>3, <2>4, LiveFrame DEF Placed, Loading
    <2>8. InWave(p[1], p[2]) /\ HasRead(q) /\ OfmapsArrive /\ Computing
      BY <2>3, <2>4, <2>5, <2>7, LiveFrame DEF InWindow, InWave, HasRead, Computing
    <2>9. ofmap_flight[q] = t - p[1]
      BY <2>6, <2>7, <2>8 DEF OfmapsArrive
    <2>. QED BY <2>5, <2>9
  <1>. QED BY <1>1, SInvAlways, PTL DEF Spec, ColumnsInTurn

-----------------------------------------------------------------------------
(* The copies of a round are those that were started in it, in an input     *)
(* stationary array, too.                                                   *)
CopiesInv == layer.dataflow # "OS" /\ stage # "done" => CopiesLeft

LEMMA NextCopies ==
  ASSUME FoldsFit, SInv, CopiesInv, [Next]_vars
  PROVE  CopiesInv'
  <1>. SUFFICES ASSUME layer'.dataflow # "OS", stage' # "done" PROVE CopiesLeft'
    BY DEF CopiesInv
  <1>1. CASE Awaits
    <2>1. layer' = layer /\ stage # "done"
      BY <1>1 DEF Awaits, AwaitsLoading, AwaitsRows, AwaitsFold, In
    <2>2. Live
      BY <2>1 DEF Live
    <2>3. CASE AwaitsLoading \/ AwaitsRows
      <3>1. v' = v /\ h' = h
        BY <2>3 DEF AwaitsLoading, AwaitsRows
      <3>2. \A n : LoadCopies(n)' = LoadCopies(n) /\ RowCopies(n)' = RowCopies(n)
        BY <2>1, <3>1, FoldKept
      <3>3. \/ copies' = {}
            \/ stage' = "load" /\ copies' = LoadCopies(t')
            \/ stage' = "compute" /\ copies' = RowCopies(t')
        BY <2>3 DEF AwaitsLoading, AwaitsRows, StartRound
      <3>. QED BY <3>2, <3>3 DEF CopiesLeft, Loading
    <2>4. CASE AwaitsFold
      <3>1. v' < num_v_fold(layer) /\ t' = 0
        BY <2>4 DEF AwaitsFold
      <3>2. Fresh'
        BY <1>1, <2>2, <2>4, <3>1, AwaitsFoldFresh
      <3>. QED BY <3>1, <3>2 DEF Fresh, CopiesLeft, Loading
    <2>. QED BY <1>1, <2>3, <2>4 DEF Awaits
  <1>2. CASE ~Awaits
    <2>1. /\ layer' = layer /\ v' = v /\ h' = h /\ t' = t /\ stage' = stage
          /\ copies' \subseteq copies
      <3>1. CASE OSNext
        BY <3>1 DEF OSNext, OSReads, OSIdles, OSWrites, OSAwaits, Runs, In, place
      <3>2. CASE StationaryNext
        BY <1>2, <3>2 DEF StationaryNext, ISLoads, WSLoads, ISReads, WSReads, ISWrites, WSWrites,
             ISCopies, WSCopies, ISLoadCopies, WSLoadCopies, Copies, ReadsPE, WritesPE, Runs, place
      <3>3. CASE UNCHANGED vars
        BY <3>3 DEF vars, place
      <3>. QED BY <3>1, <3>2, <3>3 DEF Next
    <2>2. \A n : LoadCopies(n)' = LoadCopies(n) /\ RowCopies(n)' = RowCopies(n)
      BY <2>1, FoldKept
    <2>. QED BY <2>1, <2>2 DEF CopiesInv, CopiesLeft, Loading
  <1>. QED BY <1>1, <1>2

LEMMA InitCopies == FoldsFit /\ Init => CopiesInv
  <1>. SUFFICES ASSUME FoldsFit, Init, layer.dataflow # "OS" PROVE CopiesLeft
    BY DEF CopiesInv
  <1>. QED BY InitFresh DEF Fresh, CopiesLeft, Loading

-----------------------------------------------------------------------------
(***************************************************************************)
(* Types.  Registers and launches hold tags of the banks there are, copies *)
(* are of columns and rows there are, and only a PE that has read passes   *)
(* an ofmap on.                                                            *)
(***************************************************************************)
TagsTyped ==
  /\ ibuffer2s \in [Array -> Tags \cup {non}]
  /\ wbuffer2s \in [Array -> Tags \cup {non}]
  /\ ifmap_flight \in [Array -> Tags \cup {non}]
  /\ filter_flight \in [Array -> Tags \cup {non}]

SumsTyped ==
  /\ obuffer2s \in [Array -> Nat]
  /\ ofmap_flight \in [Array -> Nat \cup {non}]
  /\ layer.dataflow # "OS" /\ Computing =>
       \A p \in Used : HasRead(p) => ofmap_flight[p] \in Nat

PlaceTyped ==
  /\ v \in Nat /\ h \in Nat /\ t \in Nat
  /\ stage \in {"load", "compute", "done"}
  /\ round \in {"read", "write", "copy"}
  /\ stage = "done" => pending = {}
  /\ copies \subseteq {"col", "row"} \X Nat
  /\ bankReads \in [Banks -> Nat]
  /\ outputs \in [0 .. layer.array_width - 1 -> Nat]

Typed == TagsTyped /\ SumsTyped /\ PlaceTyped

(* What is known of a state and kept by every step.                         *)
Known == FoldsFit /\ Inv /\ SInv /\ CopiesInv

LEMMA UpdateType == ASSUME NEW A, NEW S, NEW f \in [A -> S], NEW x, NEW e \in S
                    PROVE  [f EXCEPT ![x] = e] \in [A -> S]
  OBVIOUS

LEMMA CountType == ASSUME NEW A, NEW f \in [A -> Nat], NEW x
                   PROVE  [f EXCEPT ![x] = @ + 1] \in [A -> Nat]
  <1>. DEFINE e == f[x] + 1
  <1>1. [f EXCEPT ![x] = @ + 1] = [f EXCEPT ![x] = e]
    OBVIOUS
  <1>2. CASE x \in A
    <2>1. e \in Nat
      BY <1>2
    <2>. HIDE DEF e
    <2>. QED BY <1>1, <2>1, UpdateType
  <1>3. CASE x \notin A
    <2>. HIDE DEF e
    <2>1. [f EXCEPT ![x] = e] = f
      BY <1>3
    <2>. QED BY <1>1, <2>1
  <1>. QED BY <1>2, <1>3

LEMMA FetchedType == ASSUME bankReads \in [Banks -> Nat], NEW b \in Banks
                     PROVE  fetched(b) \in Tags
  BY DEF fetched, Tags

LEMMA CopyTypes == ASSUME rows \in Nat, cols \in Nat, NEW n \in Nat
                   PROVE  /\ LoadCopies(n) \subseteq {"col", "row"} \X Nat
                          /\ RowCopies(n) \subseteq {"col", "row"} \X Nat
  <1>1. 0 .. cols - 1 \subseteq Nat /\ 0 .. rows - 1 \subseteq Nat
    OBVIOUS
  <1>. HIDE DEF rows, cols
  <1>. QED BY <1>1 DEF LoadCopies, RowCopies

FoldSized   == rows \in Nat /\ cols \in Nat
CopiesTyped == LoadCopies(0) \subseteq {"col", "row"} \X Nat

LEMMA SizedTyped == FoldSized => CopiesTyped
  BY CopyTypes DEF FoldSized, CopiesTyped

LEMMA CopyTypesNext == FoldSized' => CopiesTyped'
  BY SizedTyped, PTL

(* A copy is of a column or a row of the fold.                              *)
LEMMA CopyPlace ==
  ASSUME Known, Live, NEW kind, NEW n, <<kind, n>> \in copies
  PROVE  /\ kind = "col" => n \in Cols
         /\ kind = "row" => n \in Rows
  <1>2. CopiesLeft
    BY DEF Known, CopiesInv, Live
  <1>3. CASE Loading
    <2>1. <<kind, n>> \in LoadCopies(t) /\ t \in Nat /\ t < rows /\ rows \in Nat
      BY <1>2, <1>3, LiveFrame DEF CopiesLeft, Placed
    <2>. QED BY <2>1 DEF LoadCopies, Rows, Cols
  <1>4. CASE ~Loading
    <2>1. <<kind, n>> \in RowCopies(t)
      BY <1>2, <1>4 DEF CopiesLeft
    <2>. QED BY <2>1 DEF RowCopies, Rows
  <1>. QED BY <1>3, <1>4

-----------------------------------------------------------------------------
(* Tags *)
LEMMA OSTags ==
  ASSUME Known, Typed, OSNext
  PROVE  TagsTyped'
  <1>1. /\ layer.dataflow = "OS" /\ layer \in Layers /\ OSInv /\ layer' = layer
    BY DEF OSNext, OSReads, OSIdles, OSWrites, OSAwaits, Runs, In, place, Known, Inv
  <1>2. Array' = Array /\ Tags' = Tags
    BY <1>1 DEF Array, Tags, Banks
  <1>3. TagsTyped /\ bankReads \in [Banks -> Nat]
    BY DEF Typed, PlaceTyped
  <1>. SUFFICES /\ ibuffer2s' \in [Array -> Tags \cup {non}]
                /\ wbuffer2s' \in [Array -> Tags \cup {non}]
                /\ ifmap_flight' \in [Array -> Tags \cup {non}]
                /\ filter_flight' \in [Array -> Tags \cup {non}]
    BY <1>2 DEF TagsTyped
  <1>4. CASE OSAwaits
    BY <1>3, <1>4 DEF OSAwaits, registers, flights, TagsTyped
  <1>5. ASSUME NEW i \in Rows, NEW j \in Cols, OSReads(i, j) \/ OSIdles(i, j) \/ OSWrites(i, j)
        PROVE  /\ ibuffer2s' \in [Array -> Tags \cup {non}]
               /\ wbuffer2s' \in [Array -> Tags \cup {non}]
               /\ ifmap_flight' \in [Array -> Tags \cup {non}]
               /\ filter_flight' \in [Array -> Tags \cup {non}]
    <2>1. <<i, j>> \in Array /\ Row(i) \in Banks /\ Col(j) \in Banks
      BY <1>1, Frame
    <2>2. /\ fetched(Row(i)) \in Tags /\ fetched(Col(j)) \in Tags
          /\ ibuffer2s[<<i, j>>] \in Tags \cup {non} /\ wbuffer2s[<<i, j>>] \in Tags \cup {non}
          /\ ifmap_flight[<<i, j>>] \in Tags \cup {non} /\ filter_flight[<<i, j>>] \in Tags \cup {non}
      BY <1>3, <2>1, FetchedType DEF TagsTyped
    <2>. DEFINE x == IF j = 0 THEN fetched(Row(i)) ELSE ibuffer2s[<<i, j>>]
                y == IF i = 0 THEN fetched(Col(j)) ELSE wbuffer2s[<<i, j>>]
                T == Tags \cup {non}
    <2>3. x \in T /\ y \in T /\ non \in T
      BY <2>2
    <2>4. CASE OSReads(i, j)
      <3>1. /\ ifmap_flight' = [ifmap_flight EXCEPT ![<<i, j>>] = x]
            /\ filter_flight' = [filter_flight EXCEPT ![<<i, j>>] = y]
            /\ UNCHANGED registers
        BY <2>4 DEF OSReads
      <3>. HIDE DEF x, y
      <3>. QED BY <1>3, <2>3, <3>1, UpdateType DEF TagsTyped, registers
    <2>5. CASE OSIdles(i, j)
      <3>1. /\ ifmap_flight' = [ifmap_flight EXCEPT ![<<i, j>>] = non]
            /\ filter_flight' = [filter_flight EXCEPT ![<<i, j>>] = non]
            /\ UNCHANGED registers
        BY <2>5 DEF OSIdles
      <3>. QED BY <1>3, <2>3, <3>1, UpdateType DEF TagsTyped, registers
    <2>6. CASE OSWrites(i, j)
      <3>. DEFINE f == ifmap_flight[<<i, j>>]
                  g == filter_flight[<<i, j>>]
      <3>1. f \in T /\ g \in T
        BY <2>2
      <3>2. /\ ibuffer2s' = ibuffer2s \/ ibuffer2s' = [ibuffer2s EXCEPT ![<<i, j + 1>>] = f]
            /\ wbuffer2s' = wbuffer2s \/ wbuffer2s' = [wbuffer2s EXCEPT ![<<i + 1, j>>] = g]
            /\ ifmap_flight' = ifmap_flight /\ filter_flight' = filter_flight
        BY <2>6 DEF OSWrites, flights
      <3>. HIDE DEF f, g
      <3>3. [ibuffer2s EXCEPT ![<<i, j + 1>>] = f] \in [Array -> T]
        BY <1>3, <3>1, UpdateType DEF TagsTyped
      <3>4. [wbuffer2s EXCEPT ![<<i + 1, j>>] = g] \in [Array -> T]
        BY <1>3, <3>1, UpdateType DEF TagsTyped
      <3>. QED BY <1>3, <3>2, <3>3, <3>4 DEF TagsTyped
    <2>. QED BY <1>5, <2>4, <2>5, <2>6
  <1>6. ASSUME NEW p \in pending PROVE p[1] \in Rows /\ p[2] \in Cols
    BY <1>1, Frame DEF OSInv, Shape
  <1>. QED BY <1>4, <1>5, <1>6 DEF OSNext

LEMMA StationaryTags ==
  ASSUME Known, Typed, StationaryNext, Live
  PROVE  TagsTyped'
  <1>1. layer' = layer
    BY DEF StationaryNext, ISLoads, WSLoads, ISReads, WSReads, ISWrites, WSWrites, ISCopies,
           WSCopies, ISLoadCopies, WSLoadCopies, Awaits, Copies, ReadsPE, WritesPE, Runs, place
  <1>2. Array' = Array /\ Tags' = Tags
    BY <1>1 DEF Array, Tags, Banks
  <1>3. TagsTyped /\ bankReads \in [Banks -> Nat]
    BY DEF Typed, PlaceTyped
  <1>. DEFINE T == Tags \cup {non}
              Kept4 == /\ ibuffer2s' \in [Array -> T] /\ wbuffer2s' \in [Array -> T]
                       /\ ifmap_flight' \in [Array -> T] /\ filter_flight' \in [Array -> T]
  <1>. SUFFICES Kept4
    BY <1>2 DEF TagsTyped
  <1>4. CASE Awaits
    BY <1>3, <1>4 DEF Awaits, registers, flights, TagsTyped
  (* A PE puts one of its values into another place. *)
  <1>5. ASSUME NEW i \in Rows, NEW j \in Cols
        PROVE  /\ ibuffer2s[<<i, j>>] \in T /\ wbuffer2s[<<i, j>>] \in T
               /\ ifmap_flight[<<i, j>>] \in T /\ filter_flight[<<i, j>>] \in T
    <2>1. <<i, j>> \in Array
      BY LiveFrame
    <2>. QED BY <1>3, <2>1 DEF TagsTyped
  <1>6. ASSUME NEW x, NEW e \in T
        PROVE  /\ [ibuffer2s EXCEPT ![x] = e] \in [Array -> T]
               /\ [wbuffer2s EXCEPT ![x] = e] \in [Array -> T]
               /\ [ifmap_flight EXCEPT ![x] = e] \in [Array -> T]
               /\ [filter_flight EXCEPT ![x] = e] \in [Array -> T]
    BY <1>3, UpdateType DEF TagsTyped
  <1>. HIDE DEF T
  <1>0. /\ ibuffer2s \in [Array -> T] /\ wbuffer2s \in [Array -> T]
        /\ ifmap_flight \in [Array -> T] /\ filter_flight \in [Array -> T]
    BY <1>3 DEF TagsTyped, T
  <1>7. ASSUME NEW p \in pending PROVE p[1] \in Rows /\ p[2] \in Cols
    <2>1. CASE Loading
      <3>1. p \in Places(rows - 1, cols)
        BY <2>1, LiveFrame DEF Placed
      <3>2. p = <<p[1], p[2]>>
        BY <3>1 DEF Places
      <3>. QED BY <3>1, <3>2, LiveFrame
    <2>2. CASE ~Loading
      BY <2>2, LiveFrame DEF Placed
    <2>. QED BY <2>1, <2>2
  <1>8. ASSUME NEW i \in Rows, NEW j \in Cols, ISLoads(i, j) \/ WSLoads(i, j)
        PROVE  Kept4
    <2>1. CASE ISLoads(i, j)
      <3>1. /\ wbuffer2s' = wbuffer2s /\ filter_flight' = filter_flight
            /\ \/ /\ ifmap_flight' = [ifmap_flight EXCEPT ![<<i, j>>] = ibuffer2s[<<i, j>>]]
                  /\ ibuffer2s' = ibuffer2s
               \/ /\ ibuffer2s' = [ibuffer2s EXCEPT ![<<i + 1, j>>] = ifmap_flight[<<i, j>>]]
                  /\ ifmap_flight' = ifmap_flight
        BY <2>1 DEF ISLoads
      <3>. QED BY <1>0, <1>5, <1>6, <3>1
    <2>2. CASE WSLoads(i, j)
      <3>1. /\ ibuffer2s' = ibuffer2s /\ ifmap_flight' = ifmap_flight
            /\ \/ /\ filter_flight' = [filter_flight EXCEPT ![<<i, j>>] = wbuffer2s[<<i, j>>]]
                  /\ wbuffer2s' = wbuffer2s
               \/ /\ wbuffer2s' = [wbuffer2s EXCEPT ![<<i + 1, j>>] = filter_flight[<<i, j>>]]
                  /\ filter_flight' = filter_flight
        BY <2>2 DEF WSLoads
      <3>. QED BY <1>0, <1>5, <1>6, <3>1
    <2>. QED BY <1>8, <2>1, <2>2
  <1>9. ASSUME NEW i \in Rows, NEW j \in Cols, ReadsPE(i, j) \/ WritesPE(i, j)
        PROVE  Kept4
    <2>1. CASE ReadsPE(i, j)
      <3>1. /\ ibuffer2s' = ibuffer2s /\ wbuffer2s' = wbuffer2s /\ filter_flight' = filter_flight
            /\ ifmap_flight' = [ifmap_flight EXCEPT ![<<i, j>>] = ibuffer2s[<<i, j>>]]
        BY <2>1 DEF ReadsPE, registers
      <3>. QED BY <1>0, <1>5, <1>6, <3>1
    <2>2. CASE WritesPE(i, j)
      <3>1. /\ wbuffer2s' = wbuffer2s /\ filter_flight' = filter_flight
            /\ ifmap_flight' = ifmap_flight
            /\ \/ ibuffer2s' = [ibuffer2s EXCEPT ![<<i, j + 1>>] = ifmap_flight[<<i, j>>]]
               \/ ibuffer2s' = ibuffer2s
        BY <2>2 DEF WritesPE, flights
      <3>. QED BY <1>0, <1>5, <1>6, <3>1
    <2>. QED BY <1>9, <2>1, <2>2
  <1>10. ASSUME NEW kind, NEW n, NEW bank, NEW x, Copies(kind, n, bank),
                \/ kind = "col" /\ bank = Col(n)
                \/ kind = "row" /\ bank = Row(n),
                \/ /\ ibuffer2s' = [ibuffer2s EXCEPT ![x] = fetched(bank)]
                   /\ wbuffer2s' = wbuffer2s
                \/ /\ wbuffer2s' = [wbuffer2s EXCEPT ![x] = fetched(bank)]
                   /\ ibuffer2s' = ibuffer2s
         PROVE  Kept4
    <2>1. <<kind, n>> \in copies /\ ifmap_flight' = ifmap_flight /\ filter_flight' = filter_flight
      BY <1>10 DEF Copies, flights
    <2>2. bank \in Banks
      BY <1>10, <2>1, CopyPlace, LiveFrame
    <2>3. fetched(bank) \in T
      BY <1>3, <2>2, FetchedType DEF T
    <2>. QED BY <1>0, <1>6, <1>10, <2>1, <2>3
  <1>11. ASSUME ISLoadCopies \/ WSLoadCopies \/ \E r \in Rows : ISCopies(r) \/ WSCopies(r)
         PROVE  Kept4
    <2>1. \E kind, n, bank, x :
            /\ Copies(kind, n, bank)
            /\ \/ kind = "col" /\ bank = Col(n)
               \/ kind = "row" /\ bank = Row(n)
            /\ \/ /\ ibuffer2s' = [ibuffer2s EXCEPT ![x] = fetched(bank)]
                  /\ wbuffer2s' = wbuffer2s
               \/ /\ wbuffer2s' = [wbuffer2s EXCEPT ![x] = fetched(bank)]
                  /\ ibuffer2s' = ibuffer2s
      BY <1>11 DEF ISLoadCopies, WSLoadCopies, ISCopies, WSCopies, CopyInto
    <2>. QED BY <1>10, <2>1
  <1>12. StationaryNext => \/ Awaits
                           \/ \E p \in pending : \/ ISLoads(p[1], p[2]) \/ WSLoads(p[1], p[2])
                                                 \/ ReadsPE(p[1], p[2]) \/ WritesPE(p[1], p[2])
                           \/ ISLoadCopies \/ WSLoadCopies
                           \/ \E r \in Rows : ISCopies(r) \/ WSCopies(r)
    BY DEF StationaryNext, ISReads, WSReads, ISWrites, WSWrites, Rows
  <1>. HIDE DEF Kept4
  <1>. QED BY <1>4, <1>7, <1>8, <1>9, <1>11, <1>12

-----------------------------------------------------------------------------
(* Ofmaps *)
LEMMA StationarySums ==
  ASSUME Known, Typed, StationaryNext, Live
  PROVE  SumsTyped'
  <1>1. layer' = layer /\ layer.dataflow # "OS"
    BY DEF StationaryNext, ISLoads, WSLoads, ISReads, WSReads, ISWrites, WSWrites, ISCopies,
           WSCopies, ISLoadCopies, WSLoadCopies, Awaits, Copies, ReadsPE, WritesPE, Runs, place, Live
  <1>2. Array' = Array
    BY <1>1 DEF Array
  <1>3. SumsTyped /\ Placed
    BY LiveFrame DEF Typed
  <1>4. CASE Awaits
    <2>1. obuffer2s' = obuffer2s /\ ofmap_flight' = ofmap_flight /\ \A p : HasRead(p)
      BY <1>4, AwaitsKept
    <2>2. ASSUME Computing', NEW p \in Used', HasRead(p)' PROVE ofmap_flight[p] \in Nat
      <3>1. CASE AwaitsLoading
        <4>1. round' = "read" /\ pending' = Used /\ v' = v /\ h' = h
          BY <2>2, <3>1 DEF AwaitsLoading, StartRound, Computing
        <4>2. Used' = Used
          BY <1>1, <4>1, FoldKept
        <4>. QED BY <2>2, <4>1, <4>2 DEF HasRead
      <3>2. CASE AwaitsRows
        <4>1. Computing /\ v' = v /\ h' = h
          BY <3>2 DEF AwaitsRows, Computing
        <4>2. Used' = Used
          BY <1>1, <4>1, FoldKept
        <4>. QED BY <1>1, <1>3, <2>1, <2>2, <4>1, <4>2 DEF SumsTyped
      <3>3. CASE AwaitsFold
        <4>1. stage' # "compute"
          BY <3>3 DEF AwaitsFold
        <4>. QED BY <2>2, <4>1 DEF Computing
      <3>. QED BY <1>4, <3>1, <3>2, <3>3 DEF Awaits
    <2>. QED BY <1>2, <1>3, <2>1, <2>2 DEF SumsTyped
  <1>5. ASSUME ~Awaits
        PROVE  /\ v' = v /\ h' = h /\ stage' = stage /\ round' = round /\ pending' \subseteq pending
               /\ Used' = Used /\ (Computing' <=> Computing)
    <2>1. v' = v /\ h' = h /\ stage' = stage /\ round' = round /\ pending' \subseteq pending
      BY <1>5 DEF StationaryNext, ISLoads, WSLoads, ISReads, WSReads, ISWrites, WSWrites, ISCopies,
             WSCopies, ISLoadCopies, WSLoadCopies, Copies, ReadsPE, WritesPE, Runs, place
    <2>. QED BY <1>1, <2>1, FoldKept DEF Computing
  <1>6. ASSUME NEW i, NEW j, <<i, j>> \in pending, ISReads(i, j) \/ WSReads(i, j), ~Awaits
        PROVE  SumsTyped'
    <2>1. /\ obuffer2s' = obuffer2s /\ pending' = pending \ {<<i, j>>}
          /\ ofmap_flight' = [ofmap_flight EXCEPT ![<<i, j>>] = ofmapRead(i, j)]
          /\ Computing /\ ~Loading /\ round = "read"
      BY <1>6 DEF ISReads, WSReads, ReadsPE, Runs, registers, In, Computing, Loading
    <2>2. <<i, j>> \in Array
      BY <1>3, <1>6, <2>1, LiveFrame DEF Placed
    <2>. DEFINE e == ofmapRead(i, j)
    <2>3. e \in Nat
      BY <1>3, <2>2, LiveFrame DEF SumsTyped, ofmapRead
    <2>4. ofmap_flight' = [ofmap_flight EXCEPT ![<<i, j>>] = e]
      BY <2>1
    <2>. HIDE DEF e
    <2>5. ofmap_flight' \in [Array -> Nat \cup {non}]
      BY <1>3, <2>3, <2>4, UpdateType DEF SumsTyped
    <2>6. ASSUME NEW p \in Used, HasRead(p)' PROVE ofmap_flight'[p] \in Nat
      <3>1. CASE p = <<i, j>>
        BY <1>3, <2>2, <2>3, <2>4, <3>1 DEF SumsTyped
      <3>2. CASE p # <<i, j>>
        <4>1. HasRead(p)
          BY <1>5, <1>6, <2>1, <2>6, <3>2 DEF HasRead
        <4>2. ofmap_flight'[p] = ofmap_flight[p]
          BY <1>3, <2>4, <3>2 DEF SumsTyped
        <4>. QED BY <1>1, <1>3, <2>1, <4>1, <4>2 DEF SumsTyped
      <3>. QED BY <3>1, <3>2
    <2>. QED BY <1>2, <1>3, <1>5, <1>6, <2>1, <2>5, <2>6 DEF SumsTyped
  <1>7. ASSUME NEW i, NEW j, <<i, j>> \in pending, ISWrites(i, j) \/ WSWrites(i, j), ~Awaits
        PROVE  SumsTyped'
    <2>. DEFINE e == ofmap_flight[<<i, j>>]
    <2>1. /\ obuffer2s' = obuffer2s \/ obuffer2s' = [obuffer2s EXCEPT ![<<i + 1, j>>] = e]
          /\ pending' = pending \ {<<i, j>>} /\ ofmap_flight' = ofmap_flight
          /\ Computing /\ ~Loading /\ round = "write"
      BY <1>7 DEF ISWrites, WSWrites, WritesPE, Runs, flights, In, Computing, Loading
    <2>2. <<i, j>> \in Used /\ \A p : HasRead(p)
      BY <1>3, <1>7, <2>1 DEF Placed, HasRead
    <2>3. e \in Nat
      BY <1>1, <1>3, <2>1, <2>2 DEF SumsTyped
    <2>. HIDE DEF e
    <2>4. obuffer2s' \in [Array -> Nat]
      BY <1>3, <2>1, <2>3, UpdateType DEF SumsTyped
    <2>. QED BY <1>1, <1>2, <1>3, <1>5, <1>7, <2>1, <2>2, <2>4 DEF SumsTyped
  <1>8. ASSUME obuffer2s' = obuffer2s, ofmap_flight' = ofmap_flight, ~Awaits,
               Computing => pending' = pending
        PROVE  SumsTyped'
    BY <1>1, <1>2, <1>3, <1>5, <1>8 DEF SumsTyped, HasRead
  <1>9. ASSUME NEW i, NEW j, ISLoads(i, j) \/ WSLoads(i, j)
        PROVE  obuffer2s' = obuffer2s /\ ofmap_flight' = ofmap_flight /\ ~Computing
    BY <1>9 DEF ISLoads, WSLoads, In, Computing
  <1>10. ASSUME ISLoadCopies \/ WSLoadCopies \/ \E r \in 0 .. rows - 1 : ISCopies(r) \/ WSCopies(r)
         PROVE  obuffer2s' = obuffer2s /\ ofmap_flight' = ofmap_flight /\ pending' = pending
    BY <1>10 DEF ISLoadCopies, WSLoadCopies, ISCopies, WSCopies, Copies, flights
  <1>11. ASSUME NEW p \in pending PROVE p = <<p[1], p[2]>>
    BY LiveFrame DEF Placed, Places, Used
  <1>12. ASSUME NEW p \in pending, ~Awaits,
                \/ ISLoads(p[1], p[2]) \/ WSLoads(p[1], p[2])
                \/ ISReads(p[1], p[2]) \/ WSReads(p[1], p[2])
                \/ ISWrites(p[1], p[2]) \/ WSWrites(p[1], p[2])
         PROVE  SumsTyped'
    <2>1. <<p[1], p[2]>> \in pending
      BY <1>11
    <2>. QED BY <1>6, <1>7, <1>8, <1>9, <1>12, <2>1
  <1>. QED BY <1>4, <1>8, <1>10, <1>12 DEF StationaryNext

-----------------------------------------------------------------------------
(* The place in the program *)
LEMMA OutputType ==
  ASSUME PlaceTyped, layer' = layer, NEW c, outputs' = outputs \/ Output(c)
  PROVE  outputs' \in [0 .. layer'.array_width - 1 -> Nat]
  <1>. DEFINE W == 0 .. layer.array_width - 1
  <1>1. outputs \in [W -> Nat] /\ layer'.array_width = layer.array_width
    BY DEF PlaceTyped
  <1>2. outputs' = outputs \/ outputs' = [outputs EXCEPT ![c] = @ + 1]
    BY DEF Output
  <1>. HIDE DEF W
  <1>3. outputs' \in [W -> Nat]
    BY <1>1, <1>2, CountType
  <1>. QED BY <1>1, <1>3 DEF W

LEMMA OSPlace ==
  ASSUME Known, Known', Typed, OSNext
  PROVE  PlaceTyped'
  <1>1. /\ layer' = layer /\ v' = v /\ h' = h /\ copies' = copies /\ layer.dataflow = "OS"
    BY DEF OSNext, OSReads, OSIdles, OSWrites, OSAwaits, Runs, In, place
  <1>2. OSInv /\ OSInv' /\ PlaceTyped
    BY <1>1 DEF Known, Inv, Typed
  <1>3. /\ t' \in Nat /\ stage' \in {"compute", "done"} /\ round' \in {"read", "write"}
        /\ bankReads' \in [Banks' -> Nat]
    BY <1>2 DEF OSInv, Shape
  <1>4. stage' = "done" => pending' = {}
    BY <1>2 DEF OSNext, OSReads, OSIdles, OSWrites, OSAwaits, Runs, In, place, LaunchesDone,
                PlaceTyped
  <1>5. \E c : outputs' = outputs \/ Output(c)
    BY DEF OSNext, OSReads, OSIdles, OSWrites, OSStores, OSAwaits
  <1>6. outputs' \in [0 .. layer'.array_width - 1 -> Nat]
    BY <1>1, <1>2, <1>5, OutputType
  <1>. QED BY <1>1, <1>2, <1>3, <1>4, <1>6 DEF PlaceTyped

LEMMA StationaryPlace ==
  ASSUME Known, Known', Typed, StationaryNext, Live
  PROVE  PlaceTyped'
  <1>1. layer' = layer /\ layer.dataflow # "OS" /\ layer \in Layers
    BY LiveFrame DEF StationaryNext, ISLoads, WSLoads, ISReads, WSReads, ISWrites, WSWrites, ISCopies,
           WSCopies, ISLoadCopies, WSLoadCopies, Awaits, Copies, ReadsPE, WritesPE, Runs, place, Live
  <1>2. /\ PlaceTyped /\ Placed /\ rows \in Nat /\ cols \in Nat
        /\ stage' # "done" => Placed'
    BY <1>1, LiveFrame DEF Typed, Known, SInv
  <1>3. \E c : outputs' = outputs \/ Output(c)
    BY DEF StationaryNext, ISLoads, WSLoads, ISReads, WSReads, ISWrites, WSWrites, ISCopies,
           WSCopies, ISLoadCopies, WSLoadCopies, Awaits, Copies, ReadsPE, WritesPE
  <1>4. outputs' \in [0 .. layer'.array_width - 1 -> Nat]
    BY <1>1, <1>2, <1>3, OutputType
  <1>5. Banks' = Banks
    BY <1>1 DEF Banks
  <1>6. ASSUME ~Awaits
        PROVE  /\ v' = v /\ h' = h /\ t' = t /\ stage' = stage /\ round' = round
               /\ copies' \subseteq copies
    BY <1>6 DEF StationaryNext, ISLoads, WSLoads, ISReads, WSReads, ISWrites, WSWrites, ISCopies,
           WSCopies, ISLoadCopies, WSLoadCopies, Copies, ReadsPE, WritesPE, Runs, place
  <1>7. CASE ~Awaits
    <2>1. stage # "done" /\ bankReads' \in [Banks -> Nat]
      BY <1>2, <1>5, <1>6, <1>7 DEF Live, Placed
    <2>. QED BY <1>2, <1>4, <1>5, <1>6, <1>7, <2>1 DEF PlaceTyped
  <1>8. CASE Awaits /\ ~AwaitsFold
    <2>1. /\ v' = v /\ h' = h /\ bankReads' = bankReads /\ stage' \in {"load", "compute"}
          /\ \/ copies' = {}
             \/ copies' = LoadCopies(t)
             \/ copies' = RowCopies(0)
             \/ copies' = RowCopies(t + 1)
      BY <1>8 DEF Awaits, AwaitsLoading, AwaitsRows, StartRound
    <2>2. t' \in Nat /\ round' \in {"read", "write", "copy"}
      BY <1>2, <2>1 DEF Placed
    <2>3. copies' \subseteq {"col", "row"} \X Nat
      <3>1. 0 \in Nat /\ t \in Nat /\ t + 1 \in Nat
        BY <1>2 DEF PlaceTyped
      <3>. QED BY <1>2, <2>1, <3>1, CopyTypes
    <2>. QED BY <1>2, <1>4, <1>5, <2>1, <2>2, <2>3 DEF PlaceTyped
  <1>9. CASE Awaits /\ AwaitsFold
    <2>1. /\ t' = 0 /\ bankReads' = [b \in Banks |-> 0]
          /\ v' \in Nat /\ h' \in Nat
      BY <1>2, <1>9 DEF AwaitsFold, Placed
    <2>2. CASE v' < num_v_fold(layer)
      <3>1. Fresh'
        BY <1>9, <2>2, AwaitsFoldFresh
      <3>2. stage' = "load" /\ round' = "copy" /\ copies' = LoadCopies(0)'
        BY <3>1 DEF Fresh
      <3>3. rows' \in Nat /\ cols' \in Nat
        <4>1. /\ layer' \in Layers /\ layer'.dataflow # "OS"
              /\ v' \in Nat /\ v' < num_v_fold(layer') /\ h' \in Nat /\ h' < num_h_fold(layer')
          BY <3>1 DEF Fresh
        <4>2. rows' = FoldRows(layer', h') /\ cols' = FoldCols(layer', v')
          BY <4>1 DEF rows, cols
        <4>3. rows' \in 1 .. layer'.array_height /\ cols' \in 1 .. layer'.array_width
          BY <4>1, <4>2, FoldSizes DEF Known
        <4>. QED BY <4>3
      <3>4. LoadCopies(0)' \subseteq {"col", "row"} \X Nat
        BY <3>3, CopyTypesNext DEF FoldSized, CopiesTyped
      <3>. QED BY <1>4, <1>5, <2>1, <3>2, <3>4 DEF PlaceTyped
    <2>3. CASE ~(v' < num_v_fold(layer))
      <3>1. /\ stage' = "done" /\ round' = round /\ pending' = pending /\ copies' = copies
            /\ pending = {}
        BY <1>9, <2>3 DEF Awaits, AwaitsFold, LaunchesDone
      <3>. QED BY <1>2, <1>4, <1>5, <2>1, <3>1 DEF PlaceTyped
    <2>. QED BY <2>2, <2>3
  <1>. QED BY <1>7, <1>8, <1>9

-----------------------------------------------------------------------------
LEMMA TypedKept == ASSUME Typed, UNCHANGED vars
                   PROVE  Typed'
  <1>1. /\ layer' = layer /\ v' = v /\ h' = h /\ stage' = stage /\ round' = round /\ t' = t
        /\ pending' = pending /\ copies' = copies /\ bankReads' = bankReads /\ outputs' = outputs
        /\ ibuffer2s' = ibuffer2s /\ wbuffer2s' = wbuffer2s /\ obuffer2s' = obuffer2s
        /\ ifmap_flight' = ifmap_flight /\ filter_flight' = filter_flight
        /\ ofmap_flight' = ofmap_flight
    BY DEF vars, place, registers, flights
  <1>2. Array' = Array /\ Banks' = Banks /\ Used' = Used /\ (Computing' <=> Computing)
        /\ \A p : HasRead(p)' <=> HasRead(p)
    BY <1>1, FoldKept DEF Array, Banks, Computing, HasRead
  <1>3. TagsTyped'
    BY <1>1, <1>2 DEF Typed, TagsTyped, Tags
  <1>4. SumsTyped'
    BY <1>1, <1>2 DEF Typed, SumsTyped
  <1>5. PlaceTyped'
    BY <1>1, <1>2 DEF Typed, PlaceTyped
  <1>. QED BY <1>3, <1>4, <1>5 DEF Typed

LEMMA NextTyped ==
  ASSUME Known, Known', SumInv', Typed, [Next]_vars
  PROVE  Typed'
  <1>1. CASE OSNext
    <2>1. layer' = layer /\ layer.dataflow = "OS"
      BY <1>1 DEF OSNext, OSReads, OSIdles, OSWrites, OSAwaits, Runs, In, place
    <2>2. SumsTyped'
      BY <2>1 DEF SumInv, SumsKept, SumsTyped
    <2>. QED BY <1>1, <2>2, OSTags, OSPlace DEF Typed
  <1>2. CASE StationaryNext
    <2>1. layer.dataflow # "OS" /\ stage # "done"
      <3>1. pending # {} \/ copies # {} \/ Awaits
        BY <1>2 DEF StationaryNext, ISLoadCopies, WSLoadCopies, ISCopies, WSCopies, Copies
      <3>. QED BY <1>2 DEF StationaryNext, ISLoads, WSLoads, ISReads, WSReads, ISWrites, WSWrites,
             ISCopies, WSCopies, ISLoadCopies, WSLoadCopies, Awaits, AwaitsLoading, AwaitsRows,
             AwaitsFold, In
    <2>2. Live
      BY <2>1 DEF Live, Known
    <2>. QED BY <1>2, <2>2, StationaryTags, StationarySums, StationaryPlace DEF Typed
  <1>3. CASE UNCHANGED vars
    BY <1>3, TypedKept
  <1>. QED BY <1>1, <1>2, <1>3 DEF Next

LEMMA InitTyped == ASSUME FoldsFit, Init
                   PROVE  Typed
  <1>1. /\ layer \in Layers /\ v = 0 /\ h = 0 /\ t = 0
        /\ stage = IF layer.dataflow = "OS" THEN "compute" ELSE "load"
        /\ round = IF layer.dataflow = "OS" THEN "read" ELSE "copy"
        /\ copies = IF layer.dataflow = "OS" THEN {} ELSE LoadCopies(0)
        /\ ibuffer2s = Empty(Array) /\ wbuffer2s = Empty(Array)
        /\ obuffer2s = [p \in Array |-> 0]
        /\ ifmap_flight = Empty(Array) /\ filter_flight = Empty(Array)
        /\ ofmap_flight = Empty(Array)
        /\ bankReads = [b \in Banks |-> 0]
        /\ outputs = [c \in 0 .. layer.array_width - 1 |-> 0]
    BY DEF Init
  <1>2. Empty(Array) \in [Array -> Tags \cup {non}] /\ Empty(Array) \in [Array -> Nat \cup {non}]
    BY DEF Empty
  <1>3. TagsTyped
    BY <1>1, <1>2 DEF TagsTyped
  <1>4. SumsTyped
    BY <1>1, <1>2 DEF SumsTyped, Computing
  <1>5. copies \subseteq {"col", "row"} \X Nat
    <2>1. CASE layer.dataflow # "OS"
      <3>1. Fresh
        BY <2>1, InitFresh
      <3>2. rows \in Nat /\ cols \in Nat
        BY <3>1, FoldFrame DEF Fresh
      <3>. QED BY <1>1, <2>1, <3>2, CopyTypes
    <2>. QED BY <1>1, <2>1
  <1>6. PlaceTyped
    BY <1>1, <1>5 DEF PlaceTyped
  <1>. QED BY <1>3, <1>4, <1>6 DEF Typed

LEMMA TypedOK == ASSUME Known, Typed
                 PROVE  TypeOK
  <1>1. layer \in Layers
    BY DEF Known, Inv
  <1>2. pending \subseteq Used
    <2>1. CASE layer.dataflow = "OS"
      BY <2>1 DEF Known, Inv, OSInv, Shape
    <2>2. CASE stage = "done"
      BY <2>2 DEF Typed, PlaceTyped
    <2>3. CASE layer.dataflow # "OS" /\ stage # "done"
      <3>1. Live
        BY <2>3 DEF Live, Known
      <3>2. Placed /\ rows \in Nat /\ cols \in Nat
        BY <3>1, LiveFrame
      <3>3. Places(rows - 1, cols) \subseteq Used
        <4>. HIDE DEF rows, cols
        <4>. QED BY <3>2 DEF Places, Used
      <3>. QED BY <3>2, <3>3 DEF Placed
    <2>. QED BY <2>1, <2>2, <2>3
  <1>. QED BY <1>1, <1>2 DEF TypeOK, Typed, TagsTyped, SumsTyped, PlaceTyped

(***************************************************************************)
(* Every array, whatever its dataflow and the order of launches and copies, *)
(* stays well-formed: no launch outside the part in use, no copy but of a  *)
(* row or column, and no PE passes on an ofmap it never read.               *)
(***************************************************************************)
THEOREM ArrayTypes == ASSUME FoldsFit PROVE Spec => []TypeOK
  <1>1. Init => Inv /\ SInv /\ CopiesInv /\ SumInv /\ Typed
    BY InitInv, InitSInv, InitCopies, InitSums, InitTyped
  <1>2. Inv /\ SInv /\ CopiesInv /\ SumInv /\ [Next]_vars => (Inv /\ SInv /\ CopiesInv /\ SumInv)'
    BY NextInv, NextSInv, NextCopies, NextSums
  <1>3. Inv /\ SInv /\ CopiesInv /\ SumInv /\ (Inv /\ SInv /\ CopiesInv /\ SumInv)' /\ Typed
          /\ [Next]_vars => Typed'
    <2>. SUFFICES ASSUME Inv, SInv, CopiesInv, Inv', SInv', CopiesInv', SumInv', Typed, [Next]_vars
                  PROVE  Typed'
      OBVIOUS
    <2>1. Known /\ Known'
      BY DEF Known, FoldsFit
    <2>. QED BY <2>1, NextTyped
  <1>4. Inv /\ SInv /\ CopiesInv /\ Typed => TypeOK
    BY TypedOK DEF Known
  <1>. QED BY <1>1, <1>2, <1>3, <1>4, PTL DEF Spec
=============================================================================
