------------------------- MODULE MCReservationCache -------------------------
(***************************************************************************)
(* Instances of ReservationCache for TLC: reservations of a proxy and of a *)
(* tunnel, and a proxy whose reservation cannot be decoded.                *)
(***************************************************************************)
EXTENDS ReservationCache

CONSTANTS p1, t1, b1

MCTypeOf == [i \in Ids |-> IF i = t1 THEN "4to6" ELSE "proxy"]

=============================================================================
