------------------------ MODULE MCMemoriaDeTrabalho ------------------------
(***************************************************************************)
(* Small instances of MemoriaDeTrabalho for TLC: two documents with two    *)
(* authorisations each (a document erased and authorised again gets a new  *)
(* identifier) and one with a single one.                                  *)
(***************************************************************************)
EXTENDS MemoriaDeTrabalho

Aut(i, r) == [id |-> i, resumo |-> r]

MCRuido == Aut("ruido", "ruido")
MCAuts  == {Aut("i1", "r1"), Aut("i2", "r1"), Aut("i3", "r2"), Aut("i4", "r2")}
MCAuts5 == MCAuts \cup {Aut("i5", "r3")}

=============================================================================
