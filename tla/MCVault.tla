------------------------------ MODULE MCVault ------------------------------
(* Instances of Vault for TLC. *)
EXTENDS Vault, TLC

\* Handles and threads are interchangeable: no definition tells them apart.
Symmetry == Permutations(Handle) \cup Permutations(Thread)

=============================================================================
