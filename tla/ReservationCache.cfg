\* Every outcome of every access, crashes, and an unreadable reservation.
CONSTANTS
  p1 = p1
  t1 = t1
  b1 = b1
  None = None
  Ids = {p1, t1, b1}
  Types = {"proxy", "4to6"}
  TypeOf <- MCTypeOf
  CountedTypes = {"proxy"}
  ClearedTypes = {"4to6"}
  Unreadable = {b1}
  Main = main
  Listers = {expiry}
  MaxActive = 3
  Outcomes = {"done", "refused", "lost"}
SPECIFICATION Safety
INVARIANTS
  TypeOK
  ListingExact
  NoDeadlock
  IInv
  StartInv
PROPERTIES
  ClearedAtStart
  CountersInSync
  Store
