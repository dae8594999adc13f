----------------------------- MODULE MCTCPRouter -----------------------------
(***************************************************************************)
(* An instance of TCPRouter for TLC: two users that contend for a domain   *)
(* and the empty one, each with a secret, and a secret that names no user. *)
(***************************************************************************)
EXTENDS TCPRouter, TLC

CONSTANTS u1, u2, s1, s2, s3

MCSecretUser == s1 :> u1 @@ s2 :> u2 @@ s3 :> None

=============================================================================
