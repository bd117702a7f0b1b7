------------------------------ MODULE MCPasses ------------------------------
(***************************************************************************)
(* Small nests for LoopPasses: trip counts of one, that a tile divides and *)
(* that it does not, and tile lists that are too short and too long for    *)
(* the band, with a tile larger than a loop.  The option tile-size n is    *)
(* the list of as many n.                                                  *)
(***************************************************************************)
EXTENDS LoopPasses

SmallNests == { <<3, 2>>, <<2, 1, 3>>, <<4, 3, 1>>, <<1, 1>>, <<6, 2>> }
TileLists == { <<2>>, <<2, 2, 2>>, <<2, 3>>, <<1, 2, 4, 2>>, <<5, 1, 2>> }
Excesses == { 1, 3, 7, 20, 64 }
=============================================================================
