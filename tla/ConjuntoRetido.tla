--------------------------- MODULE ConjuntoRetido ---------------------------
(***************************************************************************)
(* What the working memory promises to the handlers of the DAF: a bounded  *)
(* set of authorisations in which a document and an identifier occur once. *)
(***************************************************************************)
EXTENDS Naturals, FiniteSets

CONSTANTS Auts, \* authorisations: records with an id and a resumo
          Capacidade \* how many the memory may hold

VARIABLE retidas

Init == retidas = {}

\* A new authorisation is retained.
Reter(a) ==
    /\ Cardinality(retidas) < Capacidade
    /\ \A b \in retidas : a.id # b.id /\ a.resumo # b.resumo
    /\ retidas' = retidas \cup {a}

\* One that the SEF released goes away, and only that one.
Liberar(a) ==
    /\ a \in retidas
    /\ retidas' = retidas \ {a}

\* Factory reset.
Esvaziar == retidas' = {}

Next == (\E a \in Auts : Reter(a) \/ Liberar(a)) \/ Esvaziar
Spec == Init /\ [][Next]_retidas

=============================================================================
