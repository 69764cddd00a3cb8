----------------------------- MODULE MCTenancy -----------------------------
(***************************************************************************)
(* Two businesses; bob owns b2 and has, or had, a seat in alice's b1.      *)
(***************************************************************************)
EXTENDS Tenancy, TLC

CONSTANTS b1, b2, alice, bob, s1, name, phone

MCFounder == b1 :> alice @@ b2 :> bob
MCInitialMembers ==
  [Seats -> {NoRow} \cup [business : {b1}, user : {bob}, role : {"staff", "owner"},
                          status : {"active", "suspended"}]]

Ask(op, caller, business, target, role, status, fields) ==
  [op |-> op, caller |-> caller, business |-> business, target |-> target,
   role |-> role, status |-> status, fields |-> fields]

(* Alice manages bob's membership; bob uses his own, and names it through  *)
(* his other business.                                                     *)
MCCalls ==
  {Ask("invite", alice, b1, bob, "staff", Unset, {}),
   Ask("invite", alice, b1, NoUser, "staff", Unset, {}),
   Ask("update_member", alice, b1, s1, "owner", Unset, {}),
   Ask("update_member", alice, b1, s1, Unset, "active", {}),
   Ask("update_member", alice, b1, b1, "staff", "suspended", {}),
   Ask("remove_member", alice, b1, s1, Unset, Unset, {}),
   Ask("remove_member", bob, b1, b1, Unset, Unset, {}),
   Ask("update_member", bob, b2, s1, Unset, "active", {}),
   Ask("record", bob, b1, NoUser, Unset, Unset, {}),
   Ask("record", NoUser, b1, NoUser, Unset, Unset, {}),
   Ask("list", bob, b1, NoUser, Unset, Unset, {}),
   Ask("update_business", alice, b1, NoUser, Unset, Unset, {name}),
   Ask("update_business", bob, b1, NoUser, Unset, Unset, {phone})}
(* The race for bob's seat alone.                                          *)
MCSeatCalls ==
  {Ask("update_member", alice, b1, s1, "owner", Unset, {}),
   Ask("remove_member", alice, b1, s1, Unset, Unset, {})}
Symmetry == Permutations(Requests)
=============================================================================
