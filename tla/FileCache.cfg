\* The engine, a lister, two reservations, two crashes or failures.
CONSTANTS
  engine = engine  lister = lister
  r1 = r1  r2 = r2
  Actors = {engine, lister}
  Listers = {lister}
  Ids = {r1, r2}
  MaxUpsets = 2
  None = None
SPECIFICATION Spec
INVARIANTS
  TypeOK
PROPERTIES
  Store
  ListingsRecover
