-------------------------- MODULE MCMutationLease --------------------------
(***************************************************************************)
(* A small instance of MutationLease: stores are interchangeable.          *)
(***************************************************************************)
EXTENDS MutationLease, TLC

Symmetric == Permutations(Store) \cup Permutations(Region) \cup Permutations(Op)
=============================================================================
