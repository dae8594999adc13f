\* Every outcome of every access, and crashes.
CONSTANTS
  u1 = u1
  u2 = u2
  s1 = s1
  s2 = s2
  s3 = s3
  None = None
  Users = {u1, u2}
  Domains = {d1, empty}
  EmptyDomain = empty
  Addrs = {a1, a2}
  Secrets = {s1, s2, s3}
  SecretUser <- MCSecretUser
  Outcomes = {"done", "refused", "lost"}
SPECIFICATION Spec
INVARIANTS
  TypeOK
  Routes
  ReplyMeansDone
PROPERTIES
  DomainRegistry
