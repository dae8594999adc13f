\* Every outcome of every write, and crashes: two users, a managed zone and a
\* delegated one.
CONSTANTS
  u1 = u1
  u2 = u2
  zm = zm
  zd = zd
  l1 = l1
  own = own
  ip1 = ip1
  ip2 = ip2
  None = None
  Gateway = Gateway
  Users = {u1, u2}
  Zones = {zm, zd}
  Managed <- MCManaged
  Labels = {l1, own}
  OwnerLabel = own
  Subdomains <- NamesInBothZones
  IPs = {ip1, ip2}
  IPLists <- TwoAddresses
  Outcomes = {"done", "refused", "lost"}
SPECIFICATION Spec
INVARIANTS
  TypeOK
  ManagedZonesHeld
  OwnerTxtPublished
  SuccessAssures
  IInv
PROPERTIES
  RecordsGuarded
  ZoneRegistry
  NameRegistry
