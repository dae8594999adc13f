\* No write fails: what removing a delegation leaves behind.
CONSTANTS
  u1 = u1
  u2 = u2
  zm = zm
  zd = zd
  l1 = l1
  own = own
  ip1 = ip1
  ip2 = ip2
  None = None
  Gateway = Gateway
  Users = {u1, u2}
  Zones = {zm, zd}
  Managed <- MCManaged
  Labels = {l1, own}
  OwnerLabel = own
  Subdomains <- NamesInBothZones
  IPs = {ip1, ip2}
  IPLists <- OneAddress
  Outcomes = {"done"}
SPECIFICATION Spec
INVARIANTS
  DelegationLeavesNothing
