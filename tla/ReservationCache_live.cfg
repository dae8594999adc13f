\* That operations end.
CONSTANTS
  p1 = p1
  t1 = t1
  b1 = b1
  None = None
  Ids = {p1, t1}
  Types = {"proxy", "4to6"}
  TypeOf <- MCTypeOf
  CountedTypes = {"proxy"}
  ClearedTypes = {"4to6"}
  Unreadable = {}
  Main = main
  Listers = {expiry}
  MaxActive = 3
  Outcomes = {"done", "refused", "lost"}
SPECIFICATION Spec
PROPERTIES
  OperationsEnd
