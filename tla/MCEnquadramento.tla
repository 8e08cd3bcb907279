--------------------------- MODULE MCEnquadramento ---------------------------
(***************************************************************************)
(* Small instances of Enquadramento for TLC.  A byte has four values: the  *)
(* two commands, which also occur as sizes and as data, zero and another.  *)
(***************************************************************************)
EXTENDS Enquadramento

MCMensagens == {<<0>>, <<3, 1, 0, 2>>}

MCAmbientes == {[contido |-> TRUE, pontual |-> p, quadros |-> 3] : p \in BOOLEAN}
               \cup {[contido |-> FALSE, pontual |-> p, quadros |-> 2] : p \in BOOLEAN}
MCPontual   == {[contido |-> FALSE, pontual |-> TRUE, quadros |-> 2]}

=============================================================================
