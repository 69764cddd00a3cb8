---------------------------- MODULE MCInventory ----------------------------
(***************************************************************************)
(* Instances of Inventory for TLC.                                         *)
(***************************************************************************)
EXTENDS Inventory, TLC

CONSTANTS p1, p2, k1

Ask(p, q, k) == [product |-> p, quantity |-> q, key |-> k]

(* Two deductions of which the stock serves one, an addition, a key reused *)
(* for another product, and the stored empty key.                          *)
MCInputs ==
  {Ask(p1, -2, NoKey), Ask(p1, -2, k1), Ask(p1, 1, k1), Ask(p2, 1, k1), Ask(p1, 1, EmptyKey)}
(* For the temporal properties: duplicates of one keyed deduction, which   *)
(* wait for the row, the key used for another product, so that only its    *)
(* index entry is waited for, and the zero quantity that is refused.       *)
MCRetryInputs == {Ask(p1, -2, k1), Ask(p2, -1, k1), Ask(p1, 0, NoKey)}
MCRetryStocks == {2}
MCInitialStocks == {0, 2}

Symmetry == Permutations(Requests)
=============================================================================
