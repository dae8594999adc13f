\* Without failures, under fair scheduling and with one stop.
CONSTANTS
  p1 = p1  r1 = r1  p2 = p2  s1 = s1  s2 = s2  z1 = z1  n1 = n1  t1 = t1  t2 = t2
  Users = {"u1", "u2"}
  Self = "gateway"
  Domains = {"domain"}
  Names = {"name.managed", "name.delegated"}
  Zones = {"managed", "delegated"}
  ManagedZones = {"managed"}
  Keys = {"key"}
  Workloads = {p1, r1, p2, s1, z1, n1, t1}
  Scenarios = {{p1, r1, p2}, {z1, n1}, {s1}, {t1}}
  TypeOf <- MCTypeOf
  UserOf <- MCUserOf
  ResourceOf <- MCResourceOf
  ValueOf <- MCValueOf
  ZoneOf <- MCZoneOf
  Old = {p1}
  TunnelChoices = {TRUE}
  Faults = {}
  MaxUpsets = 1
  Word = 8
  Cut = 2
  None = None
SPECIFICATION Spec
INVARIANTS
  DeletedLeavesNothing
  CountersMatchCache
PROPERTIES
  AnswerStands
  DelegationFirst
  CancelledIsDeleted
  TunnelsComeBack
