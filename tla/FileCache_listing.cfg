\* One crash or failure leaves an empty file beside a reservation that expires.
CONSTANTS
  engine = engine  lister = lister
  r1 = r1  r2 = r2
  Actors = {engine, lister}
  Listers = {lister}
  Ids = {r1, r2}
  MaxUpsets = 1
  None = None
SPECIFICATION Safety
INVARIANTS
  ListsAllExpired
