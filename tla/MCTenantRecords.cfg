CONSTANTS
  b1 = b1
  b2 = b2
  alice = alice
  bob = bob
  s1 = s1
  product = product
  customer = customer
  other = other
  sku = sku
  name = name
  notes = notes
  Businesses = {b1, b2}
  Users = {alice, bob}
  Seats = {s1}
  Managers = {m1}
  Existing = {product, customer, other}
  Requests = {r1, r2, r3}
  Fields = {name, notes}
  Skus = {sku}
  NoSku = NoSku
  NoRow = NoRow
  NoCall = NoCall
  Original = Original
  Unset = Unset
  NoUser = NoUser
  Founder <- MCFounder
  InitialMembers <- MCInitialMembers
  Made <- MCMade
  Calls <- MCCalls
  TenantCalls <- MCTenantCalls
SYMMETRY Symmetry
SPECIFICATION TenantSpec
INVARIANTS TenantIndInv LiveSkuUnique OneArchive UpdatesKept ReadsWithinTenant
PROPERTIES ArchivedFrozen WritesWithinTenant
CHECK_DEADLOCK FALSE
