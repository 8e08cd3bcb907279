------------------------------- MODULE MCDAF -------------------------------
(***************************************************************************)
(* Small instances of DAF for TLC.                                         *)
(***************************************************************************)
EXTENDS DAF, TLC

\* Digests and nonces are only compared for equality.
Simetria == Permutations(Resumos) \cup Permutations(Nonces) \cup Permutations(ChavesSEF)

=============================================================================
