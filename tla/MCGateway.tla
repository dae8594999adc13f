----------------------------- MODULE MCGateway -----------------------------
(***************************************************************************)
(* Instances of Gateway for TLC: p1 and r1 are a proxy and a reverse proxy *)
(* of one user for one domain, p2 a proxy of another user for it; s1 and   *)
(* s2 are subdomains of two users with one name in a managed zone; z1 is a *)
(* delegation and n1 a subdomain of it; t1 and t2 are peers with one key.  *)
(***************************************************************************)
EXTENDS Gateway

CONSTANTS p1, r1, p2, s1, s2, z1, n1, t1, t2

MCTypeOf == [w \in Workloads |->
  IF w \in {p1, p2} THEN "proxy" ELSE IF w = r1 THEN "reverse"
  ELSE IF w \in {s1, s2, n1} THEN "subdomain" ELSE IF w = z1 THEN "delegate" ELSE "tunnel"]
MCUserOf == [w \in Workloads |-> IF w \in {p2, s2, t2} THEN "u2" ELSE "u1"]
MCResourceOf == [w \in Workloads |->
  IF w \in {p1, r1, p2} THEN "domain" ELSE IF w \in {s1, s2} THEN "name.managed"
  ELSE IF w = n1 THEN "name.delegated" ELSE IF w = z1 THEN "delegated" ELSE "key"]
MCValueOf == [w \in Workloads |-> IF w \in {t1, t2} THEN MCUserOf[w] ELSE w]
MCZoneOf == [n \in Names |-> IF n = "name.managed" THEN "managed" ELSE "delegated"]

=============================================================================
