------------------------------- MODULE Ledger -------------------------------
(***************************************************************************)
(* What the inventory promises, without requests, locks or transactions:   *)
(* a ledger of stock movements and the stock they add up to.  A movement   *)
(* is posted in one step, once, never changes again, and is refused where  *)
(* it would take the stock outside 0 .. MaxInt or use a key again.         *)
(* Inventory.tla implements this specification.                            *)
(***************************************************************************)
EXTENDS Integers

CONSTANTS Products, Movements, NoKey, Opening, MaxInt

VARIABLES
  stock,    (* the quantity on hand of every product                        *)
  ledger    (* the movements posted so far                                  *)

vars == <<stock, ledger>>

Init == stock = [p \in Products |-> 0] /\ ledger = {}

(* A request posts at most one movement and a product opens at most once.  *)
Fresh(m) ==
  /\ \A n \in ledger : n.request = m.request => m.request = Opening /\ n.product # m.product
  /\ m.key # NoKey => \A n \in ledger : n.key # m.key

Post(m) ==
  /\ m.quantity # 0
  /\ Fresh(m)
  /\ stock[m.product] + m.quantity \in 0 .. MaxInt
  /\ stock' = [stock EXCEPT ![m.product] = @ + m.quantity]
  /\ ledger' = ledger \cup {m}

Next == \E m \in Movements : Post(m)

Spec == Init /\ [][Next]_vars
=============================================================================
