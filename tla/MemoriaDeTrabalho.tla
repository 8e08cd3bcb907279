------------------------- MODULE MemoriaDeTrabalho -------------------------
(***************************************************************************)
(* The working memory (src/src/memoria/memoria_de_trabalho.cpp): one       *)
(* authorisation per 4 KiB sector of an external flash, a bitmap of used   *)
(* sectors and the write position iSectorWrite in battery-backed NVSRAM,   *)
(* and the number of authorisations in the guard NUM_DFE of MemoriaSegura. *)
(*                                                                         *)
(* One thread calls it, so operations never overlap; but each is several   *)
(* writes to two memories, and the power may go away between any two.  An  *)
(* operation is therefore a sequence of steps, one per write, and `op' is  *)
(* its control state, lost in a power cut.                                 *)
(***************************************************************************)
EXTENDS Integers, FiniteSets, FiniteSetsExt

CONSTANTS
    NSetores,    \* sectors of the flash (4096 in the code)
    MaxDFEModel, \* guard MAX_DFE_MODEL
    ModNum,      \* NUM_DFE is an unsigned integer modulo this (2^32 in the code)
    Auts,        \* authorisations: records with an id and the resumo of the document
    Ruido        \* what a sector holds that was never or only partly written

ASSUME TamanhosAssumption ==
    /\ NSetores \in Nat /\ MaxDFEModel \in Nat /\ ModNum \in Nat
    /\ 1 < NSetores /\ MaxDFEModel < NSetores /\ NSetores < ModNum

ASSUME AutsAssumption ==
    \A a, b \in Auts \cup {Ruido} : a.id = b.id => a = b

VARIABLES
    temDado,      \* bitmap: sector_has_data
    flash,        \* content of the sectors
    iSectorWrite, \* position of the next attempt to write
    numDFE,       \* guard NUM_DFE
    op,           \* operation in course and the step it is at
    ret,          \* what the last operation returned
    usados,       \* history: authorisations added since the last reset
    confirmadas   \* history: additions that returned true, not removed or reset

setores == <<temDado, flash, iSectorWrite>>
vars    == <<setores, numDFE, op, ret, usados, confirmadas>>

Setores == 0..(NSetores - 1)
Vivos   == {i \in Setores : temDado[i]}
Retidas == {flash[i] : i \in Vivos}

\* j counts the iterations of the loop of add_autorizacao_DFE.
Parada  == [passo |-> "parada"]
Passos  == [passo : {"procura", "grava", "conta"}, aut : Auts, j : 0..NSetores]
           \cup [passo : {"desconta", "posiciona", "zera"}]
           \cup {Parada}

SemRetorno == [tipo |-> "nenhum", ok |-> FALSE, alvo |-> Ruido]
Retorna(tipo, ok, alvo) == ret' = [tipo |-> tipo, ok |-> ok, alvo |-> alvo]

TypeOK ==
    /\ temDado \in [Setores -> BOOLEAN]
    /\ flash \in [Setores -> Auts \cup {Ruido}]
    /\ iSectorWrite \in Setores
    /\ numDFE \in 0..(ModNum - 1)
    /\ op \in Passos
    /\ ret \in [tipo : {"nenhum", "add", "remove", "removeResumo", "reseta"}, ok : BOOLEAN,
                alvo : Auts \cup {Ruido}]
    /\ usados \subseteq Auts /\ confirmadas \subseteq usados

\* After the reset of the factory settings; the flash keeps what it had.
Init ==
    /\ temDado = [i \in Setores |-> FALSE]
    /\ flash = [i \in Setores |-> Ruido]
    /\ iSectorWrite = 0 /\ numDFE = 0
    /\ op = Parada /\ ret = SemRetorno
    /\ usados = {} /\ confirmadas = {}

-----------------------------------------------------------------------------
\* existe_autorizacao_DFE, by identifier and by digest
ExisteId(a)     == \E i \in Vivos : flash[i].id = a.id
ExisteResumo(a) == \E i \in Vivos : flash[i].resumo = a.resumo

-----------------------------------------------------------------------------
\* add_autorizacao_DFE.  Its only caller (processaAutorizarDFE) numbers every
\* authorisation anew and asks for the digest first.
CheiaMut == numDFE > MaxDFEModel  \* mutant: one too many
Cheia    == numDFE >= MaxDFEModel

Adiciona(a) ==
    /\ op = Parada /\ a \notin usados /\ ~ExisteResumo(a)
    /\ usados' = usados \cup {a}
    /\ IF Cheia
       THEN Retorna("add", FALSE, a) /\ UNCHANGED op
       ELSE op' = [passo |-> "procura", aut |-> a, j |-> 0] /\ ret' = SemRetorno
    /\ UNCHANGED <<setores, numDFE, confirmadas>>

\* mutant: one sector less is looked at
ProcurandoMut == op.passo = "procura" /\ op.j < NSetores - 2
Procurando    == op.passo = "procura" /\ op.j < NSetores - 1

\* mutant: the position is used without its mask
AvancaMut ==
    /\ Procurando /\ temDado[iSectorWrite]
    /\ iSectorWrite' = iSectorWrite + 1
    /\ op' = [op EXCEPT !.j = @ + 1]
    /\ UNCHANGED <<temDado, flash, numDFE, ret, usados, confirmadas>>

\* The position is left on the sector just written, and moves past used ones.
Avanca ==
    /\ Procurando /\ temDado[iSectorWrite]
    /\ iSectorWrite' = (iSectorWrite + 1) % NSetores
    /\ op' = [op EXCEPT !.j = @ + 1]
    /\ UNCHANGED <<temDado, flash, numDFE, ret, usados, confirmadas>>

Esgota ==
    /\ op.passo = "procura" /\ ~Procurando
    /\ op' = Parada /\ Retorna("add", FALSE, op.aut)
    /\ UNCHANGED <<setores, numDFE, usados, confirmadas>>

\* sector_set_data: the bit first, then the flash.
Marca ==
    /\ Procurando /\ ~temDado[iSectorWrite]
    /\ temDado' = [temDado EXCEPT ![iSectorWrite] = TRUE]
    /\ op' = [op EXCEPT !.passo = "grava"]
    /\ UNCHANGED <<flash, iSectorWrite, numDFE, ret, usados, confirmadas>>

Grava ==
    /\ op.passo = "grava"
    /\ flash' = [flash EXCEPT ![iSectorWrite] = op.aut]
    /\ op' = [op EXCEPT !.passo = "conta"]
    /\ UNCHANGED <<temDado, iSectorWrite, numDFE, ret, usados, confirmadas>>

\* escreve returns false and the caller of sector_set_data ignores it.
GravaFalha ==
    /\ op.passo = "grava"
    /\ \E x \in {flash[iSectorWrite], Ruido} : flash' = [flash EXCEPT ![iSectorWrite] = x]
    /\ op' = [op EXCEPT !.passo = "conta"]
    /\ UNCHANGED <<temDado, iSectorWrite, numDFE, ret, usados, confirmadas>>

Conta ==
    /\ op.passo = "conta"
    /\ numDFE' = (numDFE + 1) % ModNum
    /\ op' = Parada /\ Retorna("add", TRUE, op.aut)
    /\ confirmadas' = confirmadas \cup {op.aut}
    /\ UNCHANGED <<setores, usados>>

-----------------------------------------------------------------------------
\* remove_autorizacao_DFE cleans the lowest sector whose content matches: unlike
\* the other functions it does not ask for the bit.
Limpa(tipo, a, iguais) ==
    /\ op = Parada
    /\ temDado' = [temDado EXCEPT ![Min(iguais)] = FALSE]
    /\ op' = [passo |-> "desconta"] /\ Retorna(tipo, TRUE, a)
    /\ confirmadas' = confirmadas \ {a}
    /\ UNCHANGED <<flash, iSectorWrite, numDFE, usados>>

ComIdMut(a)  == {i \in Setores : flash[i].id # a.id}  \* mutant: memcmp read as a truth value
ComId(a)     == {i \in Setores : flash[i].id = a.id}
ComResumo(a) == {i \in Setores : flash[i].resumo = a.resumo}

\* processaApagarAutorizacaoRetida asks existe_autorizacao_DFE first, so there is
\* a sector that matches.
RemovePorId(a)     == ExisteId(a) /\ Limpa("remove", a, ComId(a))
RemovePorResumo(a) == ExisteResumo(a) /\ Limpa("removeResumo", a, ComResumo(a))

Desconta ==
    /\ op.passo = "desconta"
    /\ numDFE' = (numDFE - 1) % ModNum
    /\ op' = Parada
    /\ UNCHANGED <<setores, ret, usados, confirmadas>>

-----------------------------------------------------------------------------
\* reseta: the bitmap, the position, the guard.
Reseta ==
    /\ op = Parada
    /\ temDado' = [i \in Setores |-> FALSE]
    /\ op' = [passo |-> "posiciona"] /\ ret' = SemRetorno
    /\ usados' = {} /\ confirmadas' = {}
    /\ UNCHANGED <<flash, iSectorWrite, numDFE>>

\* mutant: the position survives the reset
PosicionaMut ==
    /\ op.passo = "posiciona"
    /\ op' = [passo |-> "zera"]
    /\ UNCHANGED <<setores, numDFE, ret, usados, confirmadas>>

Posiciona ==
    /\ op.passo = "posiciona"
    /\ iSectorWrite' = 0
    /\ op' = [passo |-> "zera"]
    /\ UNCHANGED <<temDado, flash, numDFE, ret, usados, confirmadas>>

\* mutant: NUM_DFE survives the reset
ZeraMut ==
    /\ op.passo = "zera"
    /\ op' = Parada /\ Retorna("reseta", TRUE, Ruido)
    /\ UNCHANGED <<setores, numDFE, usados, confirmadas>>

Zera ==
    /\ op.passo = "zera"
    /\ numDFE' = 0
    /\ op' = Parada /\ Retorna("reseta", TRUE, Ruido)
    /\ UNCHANGED <<setores, usados, confirmadas>>

-----------------------------------------------------------------------------
\* A power cut: the operation is gone, and a flash write in course may have left
\* the old content, the new one or a mixture.
Queda ==
    /\ op' = Parada /\ ret' = SemRetorno
    /\ IF op.passo = "grava"
       THEN \E x \in {flash[iSectorWrite], op.aut, Ruido} :
                flash' = [flash EXCEPT ![iSectorWrite] = x]
       ELSE UNCHANGED flash
    /\ UNCHANGED <<temDado, iSectorWrite, numDFE, usados, confirmadas>>

Adicao   == (\E a \in Auts : Adiciona(a)) \/ Avanca \/ Esgota \/ Marca \/ Grava \/ Conta
Remocao  == (\E a \in Auts : RemovePorId(a)) \/ Desconta
Reinicio == Reseta \/ Posiciona \/ Zera

\* As the DAF uses it; with power cuts; with failing writes too; and with the
\* overload that removes by digest, which only the tests call.
Next       == Adicao \/ Remocao \/ Reinicio
NextQueda  == Next \/ Queda
NextFalhas == NextQueda \/ GravaFalha
NextResumo == Next \/ \E a \in Auts : RemovePorResumo(a)

Spec       == Init /\ [][Next]_vars
SpecQueda  == Init /\ [][NextQueda]_vars
SpecFalhas == Init /\ [][NextFalhas]_vars
SpecResumo == Init /\ [][NextResumo]_vars

-----------------------------------------------------------------------------
\* Between operations NUM_DFE counts the sectors in use: this is what the test of
\* memoria_de_trabalho asserts of a device that has just started
\* (test_memoria_de_trabalho.cpp:40).
ContagemDeSetores == op = Parada => numDFE = Cardinality(Vivos)

\* A removal by identifier that returned true leaves no copy of the authorisation,
\* although it may match a sector that was cleaned before: a stale copy never lies
\* below the live one.
RemocaoEfetiva == ret.tipo = "remove" => ~ExisteId(ret.alvo)

\* The same of the overload that takes the digest (memoria_de_trabalho.h:53-58).
RemocaoPorResumoEfetiva == ret.tipo = "removeResumo" => ~ExisteResumo(ret.alvo)

\* An authorisation whose addition returned true stays until it is removed or the
\* memory is reset, whenever the power goes away.
Duravel == confirmadas \subseteq Retidas

\* An addition is refused only when NUM_DFE is at the limit or every sector is in use but the
\* one that the position has come to: 4095 iterations look at one sector less than there are
\* (add_autorizacao_DFE).  So it is also after cuts have left marked sectors that NUM_DFE does
\* not count, and wherever the position is.
RecusaJustificada ==
    ret.tipo = "add" /\ ~ret.ok =>
        Cheia \/ \A i \in Setores \ {iSectorWrite} : temDado[i]

\* The memory as a set of authorisations: an addition takes effect when its record
\* is written, a removal and a reset when the bits change.
Efetivas == {flash[i] : i \in IF op.passo = "grava" THEN Vivos \ {iSectorWrite} ELSE Vivos}

Conjunto == INSTANCE ConjuntoRetido WITH retidas <- Efetivas, Capacidade <- MaxDFEModel
ImplementaConjunto == Conjunto!Spec

=============================================================================
