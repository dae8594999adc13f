---------------------------- MODULE MCLifecycle ----------------------------
(***************************************************************************)
(* Instances of Lifecycle for TLC: two identities a generation may yield,  *)
(* and users whose addresses differ under each.                            *)
(***************************************************************************)
EXTENDS Lifecycle

MCHostOf == [p \in Ids \X Users |-> p[2]]
MCFlags ==
  {[domains |-> {"a"}, tunnels |-> TRUE], [domains |-> {"a", "b"}, tunnels |-> TRUE],
   [domains |-> {"b"}, tunnels |-> FALSE], [domains |-> {"a", "invalid"}, tunnels |-> TRUE]}

=============================================================================
