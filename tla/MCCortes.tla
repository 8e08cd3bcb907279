------------------------------ MODULE MCCortes ------------------------------
(***************************************************************************)
(* Small instances of CortesDAF for TLC.                                   *)
(***************************************************************************)
EXTENDS CortesDAF, TLC

\* Digests are only compared for equality.
SimetriaCortes == Permutations(Resumos)

\* States are told apart by what the device keeps and by the gate: no action and no property
\* reads the last answer or `iniciado', and lastMsg is read only while a process is open (the
\* handlers that open one set it).
Visao == <<nv, setores, IF emProcesso THEN lastMsg ELSE 0, nonce, escritos, interrompida, cortes>>

=============================================================================
