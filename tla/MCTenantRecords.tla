-------------------------- MODULE MCTenantRecords --------------------------
(***************************************************************************)
(* Alice's business b1 has a product and a customer, bob's b2 a product    *)
(* with the same SKU; bob has a seat in b1.                               *)
(***************************************************************************)
EXTENDS TenantRecords, TLC

CONSTANTS b1, b2, alice, bob, s1, product, customer, other, sku, name, notes

MCFounder == b1 :> alice @@ b2 :> bob
MCInitialMembers ==
  [Seats -> [business : {b1}, user : {bob}, role : {"staff"}, status : {"active"}]]
MCMade ==
  product :> [business |-> b1, sku |-> sku] @@ customer :> [business |-> b1, sku |-> NoSku]
    @@ other :> [business |-> b2, sku |-> sku]

Ask(op, b, id, s, fields, flaw) ==
  [op |-> op, business |-> b, id |-> id, sku |-> s, fields |-> fields, flaw |-> flaw]
Admission(op, caller, b, target, status) ==
  [op |-> op, caller |-> caller, business |-> b, target |-> target,
   role |-> Unset, status |-> status, fields |-> {}]

MCCalls ==
  {Ask("create", b1, product, sku, {}, "none"),
   Ask("create", b1, customer, NoSku, {}, "early"),
   Ask("read", b1, customer, NoSku, {}, "none"),
   Ask("update", b1, product, NoSku, {name}, "none"),
   Ask("update", b1, product, NoSku, {notes}, "none"),
   Ask("update", b1, product, NoSku, {name}, "late"),
   Ask("archive", b1, product, NoSku, {}, "none"),
   Ask("archive", b2, product, NoSku, {}, "none"),
   Ask("read", b2, product, NoSku, {}, "none")}
MCTenantCalls ==
  {Admission("record", bob, b1, NoUser, Unset),
   Admission("record", bob, b2, NoUser, Unset),
   Admission("update_member", alice, b1, s1, "suspended")}
Symmetry == Permutations(Requests)
=============================================================================
