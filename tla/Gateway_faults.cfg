\* Stops, crashes, failing accesses and an explorer that cannot be reached;
\* pairs of workloads that touch each other.
CONSTANTS
  p1 = p1  r1 = r1  p2 = p2  s1 = s1  s2 = s2  z1 = z1  n1 = n1  t1 = t1  t2 = t2
  Users = {"u1", "u2"}
  Self = "gateway"
  Domains = {"domain"}
  Names = {"name.managed", "name.delegated"}
  Zones = {"managed", "delegated"}
  ManagedZones = {"managed"}
  Keys = {"key"}
  Workloads = {p1, r1, p2, s1, s2, z1, n1, t1, t2}
  Scenarios = {{p1, r1}, {p1, p2}, {s1, s2}, {z1, n1}, {t1, t2}, {s1, t1}}
  TypeOf <- MCTypeOf
  UserOf <- MCUserOf
  ResourceOf <- MCResourceOf
  ValueOf <- MCValueOf
  ZoneOf <- MCZoneOf
  Old = {p1}
  TunnelChoices = {TRUE, FALSE}
  Faults = {"crash", "redis", "explorer"}
  MaxUpsets = 3
  Word = 8
  Cut = 2
  None = None
SPECIFICATION Safety
INVARIANTS
  TypeOK
  CachedIsDeployed
