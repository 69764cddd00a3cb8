CONSTANTS
  b1 = b1
  b2 = b2
  alice = alice
  bob = bob
  s1 = s1
  name = name
  phone = phone
  Businesses = {b1, b2}
  Users = {alice, bob}
  Seats = {s1}
  Requests = {r1, r2}
  Fields = {name, phone}
  NoRow = NoRow
  Unset = Unset
  NoUser = NoUser
  NoCall = NoCall
  Founder <- MCFounder
  InitialMembers <- MCInitialMembers
  Calls <- MCSeatCalls
SPECIFICATION Spec
PROPERTIES OwnerNotRemoved
CHECK_DEADLOCK FALSE
