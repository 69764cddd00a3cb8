CONSTANTS
  b1 = b1
  b2 = b2
  alice = alice
  bob = bob
  s1 = s1
  name = name
  phone = phone
  Businesses = {b1, b2}
  Users = {alice, bob}
  Seats = {s1}
  Requests = {r1, r2, r3}
  Fields = {name, phone}
  NoRow = NoRow
  Unset = Unset
  NoUser = NoUser
  NoCall = NoCall
  Founder <- MCFounder
  InitialMembers <- MCInitialMembers
  Calls <- MCCalls
SYMMETRY Symmetry
SPECIFICATION Spec
INVARIANTS IndInv OneMembership EveryBusinessHasOwner AuthorityHeld
PROPERTIES TenantIsolation NoResurrection
CHECK_DEADLOCK FALSE
