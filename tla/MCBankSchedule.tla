--------------------------- MODULE MCBankSchedule ---------------------------
(* Instances of BankSchedule for TLC: DRAM banks. *)
EXTENDS BankSchedule, TLC

CONSTANTS p1, p2, b1, b2

OwnBanks    == p1 :> {b1} @@ p2 :> {b2}
SharedBanks == p1 :> {b1} @@ p2 :> {b1}
DRAMTwoBanks == DRAM(2)
OneOrThreeLines == {1, 3}
ThreeLines == {3}

(* Two inputs and an output, and a body of one cycle. *)
OneGeneric == { [inputs |-> <<2, 1>>, outputs |-> <<1>>, body |-> 1] }
NoGenerics == {}

(* Either processor with its bank may be the first. *)
Swap == { p1 :> p2 @@ p2 :> p1 @@ b1 :> b2 @@ b2 :> b1 }
=============================================================================
