\* Four command lines, three crashes, failures or outages, tunnels of two
\* users with two keys.
CONSTANTS
  Ids = {i1, i2}
  Users = {u1, u2}
  Hosts = {u1, u2}
  HostOf <- MCHostOf
  Keys = {k1, k2, bad}
  BadKeys = {bad}
  Zones = {"a", "b", "invalid"}
  ValidZones = {"a", "b"}
  Flags <- MCFlags
  Cut = Cut
  MaxUpsets = 3
  None = None
SPECIFICATION Spec
INVARIANTS
  TypeOK
  OneIdentity
  AdvertisedHeld
  ServesWithLink
  GivenWorks
PROPERTIES
  EventuallyServes
  HeartbeatsGoOn
