------------------------------- MODULE MCStore -------------------------------
(***************************************************************************)
(* Instances of Store for TLC: two clients over one or two keys, for each  *)
(* adapter.                                                                *)
(***************************************************************************)
EXTENDS Store, TLC

ClientSymmetry == Permutations(Clients)
==============================================================================
