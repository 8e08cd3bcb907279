------------------------------- MODULE MCArq -------------------------------
(***************************************************************************)
(* Small instances of Arq for TLC.                                         *)
(***************************************************************************)
EXTENDS Arq, TLC

\* The hardware timers are alike.
Simetria == Permutations(Timers)

=============================================================================
