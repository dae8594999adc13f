------------------------------ MODULE MCCoreDNS ------------------------------
(***************************************************************************)
(* Instances of CoreDNS for TLC: a zone the gateway manages, a zone users  *)
(* delegate, names in both, and the label of the owner record.             *)
(***************************************************************************)
EXTENDS CoreDNS, TLC

CONSTANTS u1, u2, zm, zd, l1, own, ip1, ip2

MCManaged == {zm}

(* One name in each zone, and in the managed one the owner label too.      *)
NamesInBothZones == {<<l1, zm>>, <<l1, zd>>, <<own, zm>>}

(* The address lists of reservations; the empty one is legal.              *)
OneAddress   == {{ip1}}
TwoAddresses == {{}, {ip1}, {ip1, ip2}}

=============================================================================
