----------------------- MODULE MemoriaDeTrabalho_proofs -----------------------
(***************************************************************************)
(* Proofs about the working memory, for every number of sectors, every     *)
(* limit and every set of authorisations.                                  *)
(*                                                                         *)
(* SpecQueda (the power may go away between two writes): the types, what   *)
(* was confirmed stays, no free sector is passed over.  Spec (no cut): the *)
(* count, the removal, and the refinement of ConjuntoRetido.               *)
(***************************************************************************)
EXTENDS MemoriaDeTrabalho, FiniteSetTheorems, WellFoundedInduction, TLAPS

\* Steps of an addition, and those of it before the flash is written.
Adicionando == {"procura", "grava", "conta"}
AntesDeGravar == {"procura", "grava"}

-----------------------------------------------------------------------------
(* Lemmas on the operators of the model                                      *)

\* A number below the modulus is its own rest, and a rest is below the modulus.
LEMMA RestoMenor ==
    ASSUME NEW m \in Nat \ {0}, NEW x \in Int
    PROVE  x % m \in 0..(m - 1) /\ (x \in 0..(m - 1) => x % m = x)
  BY SMT

\* The position comes round to the first sector after the last one.
LEMMA RestoIgual == ASSUME NEW m \in Nat \ {0} PROVE m % m = 0
  BY SMT

\* A set of sectors that is not empty has a lowest one.
LEMMA MinimoPertence ==
    ASSUME NEW S \in SUBSET Nat, S # {}
    PROVE  Min(S) \in S /\ \A y \in S : Min(S) <= y
<1>1. IsWellFoundedOn(OpToRel(<, Nat), Nat)
  BY NatLessThanWellFounded
<1>2. PICK x \in S : \A y \in S : ~(<<y, x>> \in OpToRel(<, Nat))
  BY <1>1, WFMin
<1>3. \A y \in S : ~(y < x)
  BY <1>2 DEF OpToRel
<1>4. \E z \in S : \A y \in S : z <= y
  BY <1>3
<1> QED
  BY <1>4 DEF Min

\* An operation in course of an addition carries the authorisation.
LEMMA TipoDaAdicao ==
    ASSUME TypeOK, op.passo \in Adicionando
    PROVE  op \in [passo : Adicionando, aut : Auts, j : 0..NSetores]
  BY DEF TypeOK, Passos, Parada, Adicionando

\* Any set of sectors is finite, and there are no more than NSetores of them.
LEMMA SetoresFinitos ==
    ASSUME NEW S \in SUBSET Setores
    PROVE  IsFiniteSet(S) /\ Cardinality(S) \in 0..NSetores
<1>1. IsFiniteSet(Setores) /\ Cardinality(Setores) = NSetores
  BY TamanhosAssumption, FS_Interval DEF Setores
<1> QED
  BY <1>1, FS_Subset, FS_CardinalityType

\* The sector that a removal cleans has the content that is removed.
LEMMA SetorLimpo ==
    ASSUME TypeOK, NEW a \in Auts, ExisteId(a)
    PROVE  /\ Min(ComId(a)) \in Setores
           /\ flash[Min(ComId(a))] = a
           /\ \A j \in Setores : flash[j] = a => Min(ComId(a)) <= j
<1>1. ComId(a) \in SUBSET Nat /\ ComId(a) # {}
  BY DEF ComId, ExisteId, Vivos, Setores
<1>2. Min(ComId(a)) \in ComId(a) /\ \A y \in ComId(a) : Min(ComId(a)) <= y
  BY <1>1, MinimoPertence
<1>3. \A i \in Setores : flash[i].id = a.id => flash[i] = a
  BY AutsAssumption DEF TypeOK
<1> QED
  BY <1>2, <1>3 DEF ComId

-----------------------------------------------------------------------------
(* Types, also when the power goes away                                      *)

\* An authorisation that is being added was counted among those used.
EmCurso == op.passo \in Adicionando => op.aut \in usados

InvTipo == TypeOK /\ EmCurso

LEMMA InicioTipo == Init => InvTipo
  BY TamanhosAssumption
  DEF Init, InvTipo, TypeOK, EmCurso, Passos, Parada, Adicionando, SemRetorno, Setores

\* Every step, a cut included, keeps the types.
LEMMA PassoTipo ==
    ASSUME InvTipo, [NextQueda]_vars
    PROVE  InvTipo'
<1> USE TamanhosAssumption DEF InvTipo, EmCurso
<1>0. op.passo \in Adicionando => op \in [passo : Adicionando, aut : Auts, j : 0..NSetores]
  BY TipoDaAdicao
<1>1. ASSUME NEW a \in Auts, Adiciona(a) PROVE InvTipo'
  <2>1. op' \in Passos
    <3>1. op' = op \/ op' = [passo |-> "procura", aut |-> a, j |-> 0]
      BY <1>1 DEF Adiciona, Retorna
    <3> QED
      BY <3>1 DEF TypeOK, Passos
  <2>2. op'.passo \in Adicionando => op'.aut = a
    BY <1>1 DEF Adiciona, Retorna, Parada, Adicionando
  <2>3. ret' \in [tipo : {"nenhum", "add", "remove", "removeResumo", "reseta"}, ok : BOOLEAN,
                   alvo : Auts \cup {Ruido}]
    <3>1. CASE ret' = [tipo |-> "add", ok |-> FALSE, alvo |-> a]
      BY <3>1
    <3>2. CASE ret' = SemRetorno
      BY <3>2 DEF SemRetorno
    <3> QED
      BY <1>1, <3>1, <3>2 DEF Adiciona, Retorna
  <2> QED
    BY <1>1, <2>1, <2>2, <2>3 DEF Adiciona, TypeOK, setores
<1>2. CASE Avanca
  <2>1. iSectorWrite' \in Setores
    BY <1>2, RestoMenor DEF Avanca, Setores, TypeOK
  <2>2. op' \in [passo : Adicionando, aut : Auts, j : 0..NSetores] /\ op'.passo = "procura" /\ op'.aut = op.aut
    BY <1>0, <1>2 DEF Avanca, Procurando, Adicionando
  <2>3. op' \in Passos
    BY <2>2 DEF Passos
  <2> QED
    BY <1>2, <2>1, <2>2, <2>3 DEF Avanca, Procurando, TypeOK, Adicionando
<1>3. CASE Esgota
  BY <1>0, <1>3 DEF Esgota, Retorna, TypeOK, Passos, Parada, Adicionando, setores
<1>4. CASE Marca
  <2>1. op' \in [passo : Adicionando, aut : Auts, j : 0..NSetores] /\ op'.passo = "grava" /\ op'.aut = op.aut
    BY <1>0, <1>4 DEF Marca, Procurando, Adicionando
  <2>2. op' \in Passos
    BY <2>1 DEF Passos
  <2> QED
    BY <1>4, <2>1, <2>2 DEF Marca, Procurando, TypeOK, Adicionando
<1>5. CASE Grava
  <2>1. op' \in [passo : Adicionando, aut : Auts, j : 0..NSetores] /\ op'.passo = "conta" /\ op'.aut = op.aut
    BY <1>0, <1>5 DEF Grava, Adicionando
  <2>2. op' \in Passos
    BY <2>1 DEF Passos
  <2> QED
    BY <1>0, <1>5, <2>1, <2>2 DEF Grava, TypeOK, Adicionando
<1>6. CASE Conta
  <2>1. numDFE' \in 0..(ModNum - 1)
    BY <1>6, RestoMenor DEF Conta, TypeOK
  <2> QED
    BY <1>0, <1>6, <2>1 DEF Conta, Retorna, TypeOK, Passos, Parada, Adicionando, setores
<1>7. ASSUME NEW a \in Auts, RemovePorId(a) PROVE InvTipo'
  BY <1>7 DEF RemovePorId, Limpa, Retorna, TypeOK, Passos, Parada, Adicionando
<1>8. CASE Desconta
  <2>1. numDFE' \in 0..(ModNum - 1)
    BY <1>8, RestoMenor DEF Desconta, TypeOK
  <2> QED
    BY <1>8, <2>1 DEF Desconta, TypeOK, Passos, Parada, Adicionando, setores
<1>9. CASE Reinicio
  <2>1. CASE Reseta
    <3>1. op' \in Passos /\ op'.passo \notin Adicionando
      BY <2>1 DEF Reseta, Passos, Adicionando
    <3> QED
      BY <2>1, <3>1 DEF Reseta, SemRetorno, TypeOK
  <2>2. CASE Posiciona
    <3>1. op' \in Passos /\ op'.passo \notin Adicionando
      BY <2>2 DEF Posiciona, Passos, Adicionando
    <3> QED
      BY <2>2, <3>1 DEF Posiciona, TypeOK, Setores
  <2>3. CASE Zera
    <3>1. op' \in Passos /\ op'.passo \notin Adicionando
      BY <2>3 DEF Zera, Passos, Parada, Adicionando
    <3> QED
      BY <2>3, <3>1 DEF Zera, Retorna, TypeOK, setores
  <2> QED
    BY <1>9, <2>1, <2>2, <2>3 DEF Reinicio
<1>10. CASE Queda
  <2>1. flash' \in [Setores -> Auts \cup {Ruido}]
    BY <1>0, <1>10 DEF Queda, TypeOK, Adicionando
  <2>2. op' \in Passos /\ op'.passo \notin Adicionando
    BY <1>10 DEF Queda, Passos, Parada, Adicionando
  <2> QED
    BY <1>10, <2>1, <2>2 DEF Queda, SemRetorno, TypeOK
<1>11. CASE UNCHANGED vars
  BY <1>11 DEF vars, setores, TypeOK
<1> QED
  BY <1>1, <1>2, <1>3, <1>4, <1>5, <1>6, <1>7, <1>8, <1>9, <1>10, <1>11
     DEF NextQueda, Next, Adicao, Remocao

LEMMA SempreTipo == SpecQueda => []InvTipo
  BY InicioTipo, PassoTipo, PTL DEF SpecQueda

\* The device that is not cut is one of those that may be.
LEMMA SemQueda == Spec => SpecQueda
<1>1. [Next]_vars => [NextQueda]_vars
  BY DEF NextQueda
<1> QED
  BY <1>1, PTL DEF Spec, SpecQueda

\* Type correctness of the working memory: the position stays in the flash, NUM_DFE in its
\* width, and only authorisations that were used are confirmed (memoria_de_trabalho.cpp).
THEOREM TipoDaMemoria == SpecQueda => []TypeOK
<1>1. InvTipo => TypeOK
  BY DEF InvTipo
<1> QED
  BY <1>1, SempreTipo, PTL

-----------------------------------------------------------------------------
(* What is kept when the power goes away                                     *)

\* What was confirmed is in a sector that the write in course does not touch, and so is
\* what an addition has written and not yet counted.
Guardadas ==
    /\ confirmadas \subseteq Efetivas
    /\ op.passo = "conta" => op.aut \in Efetivas
    /\ op.passo = "grava" => iSectorWrite \in Vivos

InvQueda == InvTipo /\ Guardadas

\* What was retained is retained after a step that neither cleans a sector nor writes
\* another than the one of the addition in course.
LEMMA EfetivasFicam ==
    ASSUME TypeOK, TypeOK',
           \A i \in Setores : temDado[i] => temDado'[i],
           \A i \in Setores : flash'[i] # flash[i] => op.passo = "grava" /\ i = iSectorWrite,
           op'.passo = "grava" => iSectorWrite' = iSectorWrite
                                  /\ (op.passo = "grava" \/ ~temDado[iSectorWrite])
    PROVE  Efetivas \subseteq Efetivas'
<1> SUFFICES ASSUME NEW c \in Efetivas PROVE c \in Efetivas'
  OBVIOUS
<1>1. PICK i \in Vivos : c = flash[i] /\ ~(op.passo = "grava" /\ i = iSectorWrite)
  BY DEF Efetivas
<1>2. i \in Vivos' /\ flash'[i] = c /\ ~(op'.passo = "grava" /\ i = iSectorWrite')
  BY <1>1 DEF Vivos
<1> QED
  BY <1>2 DEF Efetivas

\* Every step, a cut included, keeps what was confirmed where it is not written.
LEMMA PassoQueda ==
    ASSUME InvQueda, [NextQueda]_vars
    PROVE  InvQueda'
<1>0. TypeOK /\ InvTipo' /\ TypeOK' /\ confirmadas \subseteq Efetivas
      /\ (op.passo = "conta" => op.aut \in Efetivas)
      /\ (op.passo = "grava" => iSectorWrite \in Vivos)
  BY PassoTipo DEF InvQueda, InvTipo, Guardadas
<1> SUFFICES Guardadas'
  BY <1>0 DEF InvQueda
<1>1. ASSUME NEW a \in Auts, Adiciona(a) PROVE Guardadas'
  <2>1. op.passo = "parada" /\ op'.passo \in {"parada", "procura"}
    BY <1>1 DEF Adiciona, Retorna, Parada
  <2>2. Efetivas \subseteq Efetivas'
    BY <1>0, <1>1, <2>1, EfetivasFicam DEF Adiciona, setores
  <2> QED
    BY <1>0, <1>1, <2>1, <2>2 DEF Adiciona, Guardadas
<1>2. CASE Avanca
  <2>1. op'.passo = "procura"
    BY <1>0, <1>2 DEF Avanca, Procurando, TypeOK, Passos, Parada
  <2>2. Efetivas \subseteq Efetivas'
    BY <1>0, <1>2, <2>1, EfetivasFicam DEF Avanca
  <2> QED
    BY <1>0, <1>2, <2>1, <2>2 DEF Avanca, Guardadas
<1>3. CASE Esgota
  <2>1. op'.passo = "parada"
    BY <1>3 DEF Esgota, Parada
  <2>2. Efetivas \subseteq Efetivas'
    BY <1>0, <1>3, <2>1, EfetivasFicam DEF Esgota, setores
  <2> QED
    BY <1>0, <1>3, <2>1, <2>2 DEF Esgota, Guardadas
<1>4. CASE Marca
  <2>1. op'.passo = "grava"
    BY <1>0, <1>4 DEF Marca, Procurando, TypeOK, Passos, Parada
  <2>2. Efetivas \subseteq Efetivas'
    BY <1>0, <1>4, <2>1, EfetivasFicam DEF Marca, TypeOK
  <2> QED
    BY <1>0, <1>4, <2>1, <2>2 DEF Marca, Guardadas, Vivos, TypeOK
<1>5. CASE Grava
  <2>1. op'.passo = "conta" /\ op'.aut = op.aut
    BY <1>0, <1>5 DEF Grava, TypeOK, Passos, Parada
  <2>2. Efetivas \subseteq Efetivas'
    BY <1>0, <1>5, <2>1, EfetivasFicam DEF Grava, TypeOK
  <2>3. op.aut \in Efetivas'
    BY <1>0, <1>5, <2>1 DEF Grava, TypeOK, Efetivas, Vivos
  <2> QED
    BY <1>0, <1>5, <2>1, <2>2, <2>3 DEF Grava, Guardadas
<1>6. CASE Conta
  <2>1. op'.passo = "parada"
    BY <1>6 DEF Conta, Parada
  <2>2. Efetivas \subseteq Efetivas'
    BY <1>0, <1>6, <2>1, EfetivasFicam DEF Conta, setores
  <2> QED
    BY <1>0, <1>6, <2>1, <2>2 DEF Conta, Guardadas
<1>7. ASSUME NEW a \in Auts, RemovePorId(a) PROVE Guardadas'
  <2>1. op'.passo = "desconta" /\ op.passo = "parada"
    BY <1>7 DEF RemovePorId, Limpa, Parada
  <2>2. Efetivas \ {a} \subseteq Efetivas'
    BY <1>0, <1>7, <2>1, SetorLimpo DEF RemovePorId, Limpa, Efetivas, Vivos, TypeOK
  <2> QED
    BY <1>0, <1>7, <2>1, <2>2 DEF RemovePorId, Limpa, Guardadas
<1>8. CASE Desconta
  <2>1. op'.passo = "parada"
    BY <1>8 DEF Desconta, Parada
  <2>2. Efetivas \subseteq Efetivas'
    BY <1>0, <1>8, <2>1, EfetivasFicam DEF Desconta, setores
  <2> QED
    BY <1>0, <1>8, <2>1, <2>2 DEF Desconta, Guardadas
<1>9. CASE Reseta
  BY <1>9 DEF Reseta, Guardadas
<1>10. CASE Posiciona \/ Zera
  <2>1. op'.passo \in {"zera", "parada"}
    BY <1>10 DEF Posiciona, Zera, Parada, Retorna
  <2>2. Efetivas \subseteq Efetivas'
    BY <1>0, <1>10, <2>1, EfetivasFicam DEF Posiciona, Zera, setores
  <2> QED
    BY <1>0, <1>10, <2>1, <2>2 DEF Posiciona, Zera, Guardadas
<1>11. CASE Queda
  <2>1. op'.passo = "parada"
    BY <1>11 DEF Queda, Parada
  <2>2. Efetivas \subseteq Efetivas'
    BY <1>0, <1>11, <2>1, EfetivasFicam DEF Queda, TypeOK
  <2> QED
    BY <1>0, <1>11, <2>1, <2>2 DEF Queda, Guardadas
<1>12. CASE UNCHANGED vars
  BY <1>0, <1>12 DEF vars, setores, Guardadas, Efetivas, Vivos
<1> QED
  BY <1>0, <1>1, <1>2, <1>3, <1>4, <1>5, <1>6, <1>7, <1>8, <1>9, <1>10, <1>11, <1>12
     DEF NextQueda, Next, Adicao, Remocao, Reinicio

LEMMA SempreQueda == SpecQueda => []InvQueda
<1>1. Init => InvQueda
  BY InicioTipo DEF Init, InvQueda, Guardadas, Parada
<1> QED
  BY <1>1, PassoQueda, PTL DEF SpecQueda

\* An authorisation whose addition returned true stays until it is removed or the
\* memory is reset, whenever the power goes away (add_autorizacao_DFE, reseta).
THEOREM SempreDuravel == SpecQueda => []Duravel
<1>1. InvQueda => Duravel
  BY DEF InvQueda, InvTipo, Guardadas, Duravel, Efetivas, Retidas
<1> QED
  BY <1>1, SempreQueda, PTL

\* While an addition searches, the op.j sectors behind the position are in use, the flash
\* being a ring.
Passados ==
    op.passo = "procura" =>
        \A i \in Setores :
            \/ i < iSectorWrite /\ iSectorWrite - i <= op.j
            \/ i > iSectorWrite /\ iSectorWrite - i + NSetores <= op.j
            => temDado[i]

InvRecusa ==
    /\ InvTipo /\ Passados /\ RecusaJustificada
    /\ op.passo # "parada" => ret.tipo # "add"

LEMMA PassoAvanca ==
  ASSUME InvTipo, Passados, Avanca
  PROVE  Passados'
<1> DEFINE p == iSectorWrite
<1>1. /\ p \in Nat /\ p < NSetores /\ NSetores \in Nat /\ temDado[p] /\ op.passo = "procura"
      /\ op.j \in Nat
  BY TipoDaAdicao, TamanhosAssumption
     DEF InvTipo, TypeOK, Setores, Avanca, Procurando, Adicionando
<1>2. iSectorWrite' = (p + 1) % NSetores /\ temDado' = temDado
  BY DEF Avanca
<1>3. op'.j = op.j + 1
  BY TipoDaAdicao, <1>1 DEF InvTipo, Avanca, Adicionando
<1>4. \A i \in Setores : i \in Nat /\ i < NSetores
  BY <1>1 DEF Setores
<1>5. CASE p + 1 < NSetores
  <2>1. iSectorWrite' = p + 1
    <3>1. NSetores \in Nat \ {0} /\ p + 1 \in Int /\ p + 1 \in 0..(NSetores - 1)
      BY <1>1, <1>5
    <3> HIDE DEF p
    <3>2. (p + 1) % NSetores = p + 1
      BY <3>1, RestoMenor
    <3> QED
      BY <1>2, <3>2
  <2> QED
    BY <1>1, <1>2, <1>3, <1>4, <2>1 DEF Passados
<1>6. CASE p + 1 = NSetores
  <2>1. iSectorWrite' = 0
    BY <1>1, <1>2, <1>6, RestoIgual
  <2> QED
    BY <1>1, <1>2, <1>3, <1>4, <1>6, <2>1 DEF Passados
<1> QED
  BY <1>1, <1>5, <1>6

LEMMA PassoRecusa ==
  ASSUME InvRecusa, [NextQueda]_vars
  PROVE  InvRecusa'
<1> USE DEF InvRecusa
<1>0. InvTipo'
  BY PassoTipo
<1>1. ASSUME NEW a \in Auts, Adiciona(a) PROVE InvRecusa'
  <2>1. CASE Cheia
    BY <1>0, <1>1, <2>1 DEF Adiciona, Cheia, Passados, RecusaJustificada, Parada, Retorna, setores
  <2>2. CASE ~Cheia
    <3>1. op' = [passo |-> "procura", aut |-> a, j |-> 0] /\ ret' = SemRetorno /\ UNCHANGED setores
      BY <1>1, <2>2 DEF Adiciona
    <3>2. op'.j = 0 /\ op'.passo = "procura" /\ ret'.tipo = "nenhum"
      BY <3>1 DEF SemRetorno
    <3>3. iSectorWrite' \in Nat /\ iSectorWrite' < NSetores
      BY <1>0, TamanhosAssumption DEF InvTipo, TypeOK, Setores
    <3>4. \A i \in Setores : i \in Nat /\ i < NSetores
      BY TamanhosAssumption DEF Setores
    <3>5. NSetores \in Nat
      BY TamanhosAssumption
    <3>6. ASSUME NEW i \in Setores
          PROVE  /\ ~(i < iSectorWrite' /\ iSectorWrite' - i <= 0)
                 /\ ~(i > iSectorWrite' /\ iSectorWrite' - i + NSetores <= 0)
      BY <3>3, <3>4, <3>5
    <3>7. Passados'
      BY <3>2, <3>6 DEF Passados
    <3> QED
      BY <1>0, <3>2, <3>7 DEF RecusaJustificada
  <2> QED
    BY <2>1, <2>2
<1>2. CASE Avanca
  <2>1. op'.passo = "procura" /\ op.passo = "procura" /\ ret' = ret
    BY <1>2, TipoDaAdicao DEF Avanca, Procurando, InvTipo, Adicionando
  <2> QED
    BY <1>0, <1>2, <2>1, PassoAvanca DEF RecusaJustificada
<1>3. CASE Esgota
  <2>1. op.j \in Nat /\ op.j >= NSetores - 1 /\ op.passo = "procura"
    BY <1>3, TipoDaAdicao, TamanhosAssumption
       DEF Esgota, Procurando, InvTipo, Adicionando
  <2>2. iSectorWrite \in Nat /\ iSectorWrite < NSetores /\ NSetores \in Nat
        /\ \A i \in Setores : i \in Nat /\ i < NSetores
    BY TamanhosAssumption DEF InvTipo, TypeOK, Setores
  <2>3. \A i \in Setores \ {iSectorWrite} : temDado[i]
    BY <2>1, <2>2 DEF Passados
  <2>4. op'.passo = "parada" /\ UNCHANGED setores
    BY <1>3 DEF Esgota, Parada
  <2> QED
    BY <1>0, <2>3, <2>4 DEF RecusaJustificada, Passados, setores
<1>4. CASE Marca \/ Grava
  <2>1. op.passo # "parada" /\ op'.passo \in {"grava", "conta"} /\ ret' = ret
    BY <1>4, TipoDaAdicao DEF Marca, Grava, Procurando, InvTipo, Adicionando
  <2> QED
    BY <1>0, <2>1 DEF RecusaJustificada, Passados
<1>5. CASE Conta
  BY <1>0, <1>5 DEF Conta, Retorna, Parada, RecusaJustificada, Passados
<1>6. ASSUME NEW a \in Auts, RemovePorId(a) PROVE InvRecusa'
  BY <1>0, <1>6 DEF RemovePorId, Limpa, Retorna, RecusaJustificada, Passados
<1>7. CASE Desconta
  BY <1>0, <1>7 DEF Desconta, Parada, RecusaJustificada, Passados
<1>8. CASE Reseta \/ Posiciona \/ Zera \/ Queda
  BY <1>0, <1>8 DEF Reseta, Posiciona, Zera, Queda, Retorna, SemRetorno, Parada,
                    RecusaJustificada, Passados
<1>9. CASE UNCHANGED vars
  BY <1>0, <1>9 DEF vars, setores, RecusaJustificada, Passados, Cheia
<1> QED
  BY <1>1, <1>2, <1>3, <1>4, <1>5, <1>6, <1>7, <1>8, <1>9
     DEF NextQueda, Next, Adicao, Remocao, Reinicio

\* Wherever the power has gone away, an addition is refused only when NUM_DFE is at the limit
\* or every sector but one is in use (add_autorizacao_DFE): no free sector is passed over.
THEOREM RecusaSempreJustificada == SpecQueda => []RecusaJustificada
<1>1. Init => InvRecusa
  BY InicioTipo DEF Init, InvRecusa, Passados, RecusaJustificada, Parada, SemRetorno
<1>2. InvRecusa => RecusaJustificada
  BY DEF InvRecusa
<1> QED
  BY <1>1, <1>2, PassoRecusa, PTL DEF SpecQueda

-----------------------------------------------------------------------------
(* While the device stays powered                                            *)

\* Since the last reset the sectors were written in order: those below b, each with an
\* authorisation of its own.  What comes from before the reset lies above.
EscritosAte(b) ==
    /\ iSectorWrite <= b \/ op.passo = "posiciona"
    /\ \A i \in Setores : i < b => flash[i] \in usados
    /\ \A i \in Vivos : i < b \/ (op.passo = "grava" /\ i = iSectorWrite)
    /\ \A i, j \in Setores : i < b /\ j < b /\ flash[i] = flash[j] => i = j
    /\ op.passo \in AntesDeGravar => \A i \in Setores : i < b => flash[i] # op.aut
EscritosEmOrdem == \E b \in 0..NSetores : EscritosAte(b)

\* What NUM_DFE is at each step of an operation.
Contagem ==
    /\ op.passo \in {"parada", "procura"} => numDFE = Cardinality(Vivos)
    /\ op.passo \in {"grava", "conta"}    => numDFE + 1 = Cardinality(Vivos)
    /\ op.passo = "desconta"              => numDFE = Cardinality(Vivos) + 1
    /\ op.passo \in {"posiciona", "zera"} => Vivos = {}
    /\ op.passo \in AntesDeGravar         => numDFE < MaxDFEModel

\* What the caller has asked before an addition stays true until the flash is written.
SemSemelhante ==
    op.passo \in AntesDeGravar => \A a \in Efetivas : a.resumo # op.aut.resumo

\* The answer of the last removal is gone when an addition begins.
RetornoDaRemocao ==
    /\ op.passo \in Adicionando => ret.tipo # "remove"
    /\ RemocaoEfetiva

InvLigada == EscritosEmOrdem /\ Contagem /\ SemSemelhante /\ RetornoDaRemocao

\* The sector that a removal cleans is the one in use that has the authorisation: a copy
\* left by an erased one never lies below it.
LEMMA LimpaVivo ==
    ASSUME TypeOK, EscritosEmOrdem, op.passo = "parada", NEW a \in Auts, ExisteId(a)
    PROVE  /\ Min(ComId(a)) \in Vivos /\ flash[Min(ComId(a))] = a
           /\ \A i \in Vivos : flash[i] = a => i = Min(ComId(a))
<1>1. PICK b \in 0..NSetores : EscritosAte(b)
  BY DEF EscritosEmOrdem
<1>2. PICK i \in Vivos : flash[i].id = a.id
  BY DEF ExisteId
<1>3. i \in Setores /\ flash[i] = a
  BY <1>2, AutsAssumption DEF Vivos, TypeOK
<1>4. \A k \in Vivos : k < b
  BY <1>1 DEF EscritosAte
<1>5. Min(ComId(a)) \in Setores /\ Min(ComId(a)) <= i /\ flash[Min(ComId(a))] = a
  BY <1>3, SetorLimpo
<1>6. Min(ComId(a)) < b
  BY <1>2, <1>3, <1>4, <1>5 DEF Setores
<1>7. \A k \in Vivos : flash[k] = a => k = Min(ComId(a))
  BY <1>1, <1>4, <1>5, <1>6 DEF EscritosAte, Vivos
<1> QED
  BY <1>2, <1>3, <1>5, <1>7

\* Every step writes the sectors in order, or starts again.
LEMMA PassoEscritos ==
    ASSUME InvQueda, InvQueda', EscritosEmOrdem, [Next]_vars
    PROVE  EscritosEmOrdem'
<1>1. PICK b \in 0..NSetores : EscritosAte(b)
  BY DEF EscritosEmOrdem
<1>2. TypeOK /\ TypeOK' /\ (op.passo \in Adicionando => op.aut \in usados)
      /\ (op.passo = "grava" => iSectorWrite \in Vivos)
  BY DEF InvQueda, InvTipo, EmCurso, Guardadas
<1>3. ASSUME NEW a \in Auts, Adiciona(a) PROVE EscritosAte(b)'
  <2>1. op.passo = "parada" /\ (op'.passo \in Adicionando => op'.aut = a)
        /\ op'.passo \in {"parada", "procura"}
    BY <1>3 DEF Adiciona, Retorna, Parada, Adicionando
  <2> QED
    BY <1>1, <1>2, <1>3, <2>1 DEF Adiciona, setores, EscritosAte, Vivos, Adicionando, AntesDeGravar
<1>4. ASSUME Avanca PROVE EscritosAte(b)'
  <2>1. op.passo = "procura" /\ op'.passo = "procura" /\ op'.aut = op.aut
    BY <1>2, <1>4 DEF Avanca, Procurando, TypeOK, Passos, Parada
  <2>2. iSectorWrite' <= b
    <3>1. iSectorWrite < b
      BY <1>1, <1>2, <1>4, <2>1 DEF Avanca, EscritosAte, Vivos, TypeOK
    <3>2. iSectorWrite' = iSectorWrite + 1 \/ iSectorWrite' = 0
      <4>1. iSectorWrite + 1 = NSetores \/ iSectorWrite + 1 \in 0..(NSetores - 1)
        BY <1>2, TamanhosAssumption DEF TypeOK, Setores
      <4> QED
        BY <1>4, <4>1, TamanhosAssumption, RestoMenor, RestoIgual DEF Avanca
    <3> QED
      BY <1>2, <3>1, <3>2 DEF TypeOK, Setores
  <2> QED
    BY <1>1, <1>4, <2>1, <2>2 DEF Avanca, EscritosAte, Vivos, AntesDeGravar
<1>5. ASSUME Esgota PROVE EscritosAte(b)'
  BY <1>1, <1>2, <1>5 DEF Esgota, Parada, setores, EscritosAte, Vivos, AntesDeGravar
<1>6. ASSUME Marca PROVE EscritosAte(b)'
  <2>1. op.passo = "procura" /\ op'.passo = "grava" /\ op'.aut = op.aut
    BY <1>2, <1>6 DEF Marca, Procurando, TypeOK, Passos, Parada
  <2>2. \A i \in Vivos' : i \in Vivos \/ i = iSectorWrite
    BY <1>2, <1>6 DEF Marca, Vivos, TypeOK
  <2> QED
    BY <1>1, <1>6, <2>1, <2>2 DEF Marca, EscritosAte, AntesDeGravar
<1>7. CASE Grava
  <2>1. op.passo = "grava" /\ op'.passo = "conta" /\ op.aut \in usados
    BY <1>2, <1>7 DEF Grava, TypeOK, Passos, Parada, Adicionando
  <2>2. \A i \in Setores : flash'[i] = IF i = iSectorWrite THEN op.aut ELSE flash[i]
    BY <1>2, <1>7 DEF Grava, TypeOK
  <2>3. \A i \in Setores : i < b => flash[i] # op.aut /\ flash[i] \in usados
    BY <1>1, <2>1 DEF EscritosAte, AntesDeGravar
  <2>4. iSectorWrite \in Setores /\ iSectorWrite <= b
    BY <1>1, <1>2, <2>1 DEF EscritosAte, TypeOK
  <2>5. Vivos' = Vivos /\ usados' = usados /\ iSectorWrite' = iSectorWrite
    BY <1>7 DEF Grava, Vivos
  <2>6. ASSUME iSectorWrite < b PROVE EscritosAte(b)'
    BY <1>1, <2>1, <2>2, <2>3, <2>5, <2>6 DEF EscritosAte, AntesDeGravar
  <2>7. CASE iSectorWrite = b
    <3>1. b + 1 \in 0..NSetores
      BY <2>4, <2>7, TamanhosAssumption DEF Setores
    <3>2. \A i \in Setores : i < b + 1 <=> i < b \/ i = iSectorWrite
      BY <2>7 DEF Setores
    <3>3. EscritosAte(b + 1)'
      BY <1>1, <2>1, <2>2, <2>3, <2>4, <2>5, <2>7, <3>2 DEF EscritosAte, AntesDeGravar, Vivos, Setores
    <3> QED
      BY <3>1, <3>3 DEF EscritosEmOrdem
  <2> QED
    BY <2>4, <2>6, <2>7 DEF EscritosEmOrdem, Setores
<1>8. ASSUME Conta \/ Desconta PROVE EscritosAte(b)'
  <2>1. op.passo \in {"conta", "desconta"} /\ op'.passo = "parada"
    BY <1>8 DEF Conta, Desconta, Parada, Retorna
  <2>2. setores' = setores /\ usados' = usados
    BY <1>8 DEF Conta, Desconta
  <2> QED
    BY <1>1, <2>1, <2>2 DEF setores, EscritosAte, Vivos, AntesDeGravar
<1>9. ASSUME NEW a \in Auts, RemovePorId(a) PROVE EscritosAte(b)'
  <2>1. op.passo = "parada" /\ op'.passo = "desconta"
    BY <1>9 DEF RemovePorId, Limpa, Parada
  <2>2. Vivos' \subseteq Vivos
    BY <1>2, <1>9 DEF RemovePorId, Limpa, Vivos, TypeOK
  <2> QED
    BY <1>1, <1>9, <2>1, <2>2 DEF RemovePorId, Limpa, EscritosAte, AntesDeGravar
<1>10. CASE Reseta
  <2>1. EscritosAte(0)'
    BY <1>10 DEF Reseta, EscritosAte, Vivos, AntesDeGravar, Setores
  <2> QED
    BY <2>1, TamanhosAssumption DEF EscritosEmOrdem
<1>11. ASSUME Posiciona \/ Zera PROVE EscritosAte(b)'
  <2>1. op'.passo \in {"zera", "parada"} /\ op.passo \in {"posiciona", "zera"}
    BY <1>11 DEF Posiciona, Zera, Parada, Retorna
  <2>2. temDado' = temDado /\ flash' = flash /\ usados' = usados
    BY <1>11 DEF Posiciona, Zera, setores
  <2>3. iSectorWrite' <= b
    BY <1>1, <1>11 DEF Posiciona, Zera, Retorna, setores, EscritosAte
  <2> QED
    BY <1>1, <2>1, <2>2, <2>3 DEF EscritosAte, Vivos, AntesDeGravar
<1>12. ASSUME UNCHANGED vars PROVE EscritosAte(b)'
  BY <1>1, <1>12 DEF vars, setores, EscritosAte, Vivos, AntesDeGravar
<1> QED
  BY <1>3, <1>4, <1>5, <1>6, <1>7, <1>8, <1>9, <1>10, <1>11, <1>12
     DEF Next, Adicao, Remocao, Reinicio, EscritosEmOrdem

\* NUM_DFE moves with the bits, each in its own step.
LEMMA PassoContagem ==
    ASSUME InvQueda, InvQueda', EscritosEmOrdem, Contagem, [Next]_vars
    PROVE  Contagem'
<1> USE DEF AntesDeGravar
<1>1. TypeOK /\ TypeOK'
  BY DEF InvQueda, InvTipo
<1>2. IsFiniteSet(Vivos) /\ Cardinality(Vivos) \in 0..NSetores
      /\ IsFiniteSet(Vivos)' /\ Cardinality(Vivos)' \in 0..NSetores
  BY SetoresFinitos DEF Vivos
<1>3. NSetores \in Nat /\ ModNum \in Nat /\ NSetores < ModNum /\ numDFE \in Nat
  BY <1>1, TamanhosAssumption DEF TypeOK
<1>4. ASSUME NEW a \in Auts, Adiciona(a) PROVE Contagem'
  <2>1. op.passo = "parada" /\ op'.passo \in {"parada", "procura"}
        /\ (op'.passo = "procura" => ~Cheia) /\ Vivos' = Vivos /\ numDFE' = numDFE
    BY <1>4 DEF Adiciona, Retorna, Parada, setores, Vivos
  <2> QED
    BY <1>3, <2>1, TamanhosAssumption DEF Contagem, Cheia
<1>5. CASE Avanca
  <2>1. op.passo = "procura" /\ op'.passo = "procura" /\ Vivos' = Vivos /\ numDFE' = numDFE
    BY <1>1, <1>5 DEF Avanca, Procurando, TypeOK, Passos, Parada, Vivos
  <2> QED
    BY <2>1 DEF Contagem
<1>6. CASE Esgota
  <2>1. op.passo = "procura" /\ op'.passo = "parada" /\ Vivos' = Vivos /\ numDFE' = numDFE
    BY <1>6 DEF Esgota, Parada, Retorna, setores, Vivos
  <2> QED
    BY <2>1 DEF Contagem
<1>7. CASE Marca
  <2>1. op.passo = "procura" /\ op'.passo = "grava" /\ numDFE' = numDFE
    BY <1>1, <1>7 DEF Marca, Procurando, TypeOK, Passos, Parada
  <2>2. Vivos' = Vivos \cup {iSectorWrite} /\ iSectorWrite \notin Vivos
    BY <1>1, <1>7 DEF Marca, Vivos, TypeOK
  <2>3. Cardinality(Vivos)' = Cardinality(Vivos) + 1
    BY <1>2, <2>2, FS_AddElement
  <2> QED
    BY <2>1, <2>3 DEF Contagem
<1>8. CASE Grava
  <2>1. op.passo = "grava" /\ op'.passo = "conta" /\ Vivos' = Vivos /\ numDFE' = numDFE
    BY <1>1, <1>8 DEF Grava, TypeOK, Passos, Parada, Vivos
  <2> QED
    BY <2>1 DEF Contagem
<1>9. CASE Conta
  <2>1. op.passo = "conta" /\ op'.passo = "parada" /\ Vivos' = Vivos
        /\ numDFE' = (numDFE + 1) % ModNum
    BY <1>9 DEF Conta, Retorna, Parada, setores, Vivos
  <2>2. numDFE + 1 = Cardinality(Vivos)
    BY <2>1 DEF Contagem
  <2>3. numDFE + 1 \in 0..(ModNum - 1) /\ ModNum \in Nat \ {0}
    BY <1>2, <1>3, <2>2
  <2>4. numDFE' = numDFE + 1
    BY <2>1, <2>3, RestoMenor
  <2> QED
    BY <2>1, <2>2, <2>4 DEF Contagem
<1>10. ASSUME NEW a \in Auts, RemovePorId(a) PROVE Contagem'
  <2>1. op.passo = "parada" /\ op'.passo = "desconta" /\ numDFE' = numDFE
    BY <1>10 DEF RemovePorId, Limpa, Parada
  <2>2. Min(ComId(a)) \in Vivos
    BY <1>1, <1>10, <2>1, LimpaVivo DEF RemovePorId
  <2>3. Vivos' = Vivos \ {Min(ComId(a))}
    BY <1>1, <1>10, <2>2 DEF RemovePorId, Limpa, Vivos, TypeOK
  <2>4. Cardinality(Vivos)' = Cardinality(Vivos) - 1
    BY <1>2, <2>2, <2>3, FS_RemoveElement
  <2> QED
    BY <1>2, <2>1, <2>4 DEF Contagem
<1>11. CASE Desconta
  <2>1. op.passo = "desconta" /\ op'.passo = "parada" /\ Vivos' = Vivos
        /\ numDFE' = (numDFE - 1) % ModNum
    BY <1>11 DEF Desconta, Parada, setores, Vivos
  <2>2. numDFE = Cardinality(Vivos) + 1
    BY <2>1 DEF Contagem
  <2>3. numDFE - 1 \in 0..(ModNum - 1) /\ ModNum \in Nat \ {0}
    BY <1>2, <1>3, <2>2
  <2>4. numDFE' = numDFE - 1
    BY <2>1, <2>3, RestoMenor
  <2> QED
    BY <1>2, <2>1, <2>2, <2>4 DEF Contagem
<1>12. CASE Reseta
  BY <1>12 DEF Reseta, Contagem, Vivos, Setores
<1>13. CASE Posiciona
  BY <1>13 DEF Posiciona, Contagem, Vivos
<1>14. CASE Zera
  <2>1. op'.passo = "parada" /\ Vivos' = {} /\ numDFE' = 0
    BY <1>14 DEF Zera, Retorna, Parada, setores, Contagem, Vivos
  <2> QED
    BY <2>1, FS_EmptySet DEF Contagem
<1>15. CASE UNCHANGED vars
  BY <1>15 DEF vars, setores, Contagem, Vivos
<1> QED
  BY <1>4, <1>5, <1>6, <1>7, <1>8, <1>9, <1>10, <1>11, <1>12, <1>13, <1>14, <1>15
     DEF Next, Adicao, Remocao, Reinicio

\* What a step does to the set: the write adds, a removal takes one, a reset empties, the
\* other steps leave it.
LEMMA EfeitoNoConjunto ==
    ASSUME InvQueda, InvQueda', EscritosEmOrdem, [Next]_vars
    PROVE  \/ Grava /\ Efetivas' = Efetivas \cup {op.aut}
           \/ \E a \in Auts : RemovePorId(a) /\ a \in Efetivas /\ Efetivas' = Efetivas \ {a}
           \/ Reseta /\ Efetivas' = {}
           \/ ~Grava /\ ~(\E a \in Auts : RemovePorId(a)) /\ Efetivas' = Efetivas
<1>1. TypeOK /\ TypeOK' /\ (op.passo = "grava" => iSectorWrite \in Vivos)
  BY DEF InvQueda, InvTipo, Guardadas
<1>2. CASE Grava
  <2>1. op.passo = "grava" /\ op'.passo = "conta" /\ Vivos' = Vivos
    BY <1>1, <1>2 DEF Grava, TypeOK, Passos, Parada, Vivos
  <2>2. \A i \in Setores : flash'[i] = IF i = iSectorWrite THEN op.aut ELSE flash[i]
    BY <1>1, <1>2 DEF Grava, TypeOK
  <2>3. Efetivas = {flash[i] : i \in Vivos \ {iSectorWrite}} /\ Efetivas' = {flash'[i] : i \in Vivos}
    BY <2>1 DEF Efetivas
  <2>4. Vivos \subseteq Setores
    BY DEF Vivos
  <2>5. Efetivas' = Efetivas \cup {op.aut}
    BY <1>1, <2>1, <2>2, <2>3, <2>4
  <2> QED
    BY <1>2, <2>5
<1>3. ASSUME NEW a \in Auts, RemovePorId(a)
      PROVE  a \in Efetivas /\ Efetivas' = Efetivas \ {a}
  <2>1. op.passo = "parada" /\ op'.passo = "desconta" /\ flash' = flash
    BY <1>3 DEF RemovePorId, Limpa, Parada
  <2>2. Min(ComId(a)) \in Vivos /\ flash[Min(ComId(a))] = a
        /\ \A i \in Vivos : flash[i] = a => i = Min(ComId(a))
    BY <1>1, <1>3, <2>1, LimpaVivo DEF RemovePorId
  <2>3. Vivos' = Vivos \ {Min(ComId(a))}
    BY <1>1, <1>3, <2>2 DEF RemovePorId, Limpa, Vivos, TypeOK
  <2>4. Efetivas = {flash[i] : i \in Vivos} /\ Efetivas' = {flash[i] : i \in Vivos'}
    BY <2>1 DEF Efetivas
  <2> QED
    BY <2>2, <2>3, <2>4
<1>4. CASE Reseta
  BY <1>4 DEF Reseta, Efetivas, Vivos
<1>5. CASE Marca
  <2>1. op.passo = "procura" /\ op'.passo = "grava" /\ flash' = flash /\ iSectorWrite' = iSectorWrite
    BY <1>1, <1>5 DEF Marca, Procurando, TypeOK, Passos, Parada
  <2>2. Vivos' \ {iSectorWrite} = Vivos
    BY <1>1, <1>5 DEF Marca, Vivos, TypeOK
  <2>3. Efetivas' = Efetivas
    BY <2>1, <2>2 DEF Efetivas
  <2>4. ~Grava
    BY <2>1 DEF Grava
  <2>5. ASSUME NEW a \in Auts PROVE ~RemovePorId(a)
    <3>1. RemovePorId(a) => op.passo = "parada"
      BY DEF RemovePorId, Limpa, Parada
    <3> QED
      BY <2>1, <3>1
  <2> QED
    BY <2>3, <2>4, <2>5
<1>6. ASSUME flash' = flash, temDado' = temDado, op.passo # "grava", op'.passo # "grava",
             ~(\E a \in Auts : RemovePorId(a))
      PROVE  ~Grava /\ ~(\E a \in Auts : RemovePorId(a)) /\ Efetivas' = Efetivas
  BY <1>6 DEF Efetivas, Vivos, Grava
<1>7. CASE UNCHANGED vars /\ ~(\E a \in Auts : RemovePorId(a)) /\ ~Grava
  BY <1>7 DEF vars, setores, Efetivas, Vivos
<1>8. ASSUME NEW a \in Auts, Adiciona(a)
      PROVE  flash' = flash /\ temDado' = temDado /\ op.passo # "grava" /\ op'.passo # "grava"
  BY <1>8 DEF Adiciona, Retorna, Parada, setores
<1>9. ASSUME Avanca \/ Esgota \/ Conta \/ Desconta \/ Posiciona \/ Zera
      PROVE  flash' = flash /\ temDado' = temDado /\ op.passo # "grava" /\ op'.passo # "grava"
  BY <1>1, <1>9 DEF Avanca, Esgota, Conta, Desconta, Posiciona, Zera, Procurando, Retorna, Parada,
     setores, TypeOK, Passos
<1> QED
  BY <1>2, <1>3, <1>4, <1>5, <1>6, <1>7, <1>8, <1>9 DEF Next, Adicao, Remocao, Reinicio

\* The document of an addition in course stays the only one with its digest.
LEMMA PassoSemelhante ==
    ASSUME InvQueda, InvQueda', EscritosEmOrdem, SemSemelhante, [Next]_vars
    PROVE  SemSemelhante'
<1> USE DEF AntesDeGravar
<1>1. TypeOK /\ TypeOK'
  BY DEF InvQueda, InvTipo
<1>2. Grava \/ Efetivas' \subseteq Efetivas
  BY EfeitoNoConjunto
<1>3. CASE Grava
  <2>1. op'.passo = "conta"
    BY <1>1, <1>3 DEF Grava, TypeOK, Passos, Parada
  <2> QED
    BY <2>1 DEF SemSemelhante
<1>4. ASSUME NEW a \in Auts, Adiciona(a) PROVE SemSemelhante'
  <2>1. op.passo = "parada" /\ ~ExisteResumo(a) /\ (op'.passo \in AntesDeGravar => op'.aut = a)
        /\ flash' = flash /\ temDado' = temDado /\ op'.passo # "grava"
    BY <1>4 DEF Adiciona, Retorna, Parada, setores
  <2>2. \A c \in Efetivas' : c.resumo # a.resumo
    BY <2>1 DEF Efetivas, Vivos, ExisteResumo
  <2> QED
    BY <2>1, <2>2 DEF SemSemelhante
<1>5. ASSUME Avanca \/ Marca, Efetivas' \subseteq Efetivas PROVE SemSemelhante'
  <2>1. op.passo = "procura" /\ op'.aut = op.aut
    BY <1>1, <1>5 DEF Avanca, Marca, Procurando, TypeOK, Passos, Parada
  <2> QED
    BY <1>5, <2>1 DEF SemSemelhante
<1>6. ASSUME op'.passo \notin AntesDeGravar PROVE SemSemelhante'
  BY <1>6 DEF SemSemelhante
<1>7. ASSUME NEW a \in Auts, RemovePorId(a) PROVE op'.passo \notin AntesDeGravar
  BY <1>7 DEF RemovePorId, Limpa
<1>8. ASSUME Esgota \/ Conta \/ Desconta \/ Reinicio PROVE op'.passo \notin AntesDeGravar
  BY <1>8 DEF Esgota, Conta, Desconta, Reinicio, Reseta, Posiciona, Zera, Retorna, Parada
<1>9. CASE UNCHANGED vars
  BY <1>9 DEF vars, setores, SemSemelhante, Efetivas, Vivos
<1> QED
  BY <1>2, <1>3, <1>4, <1>5, <1>6, <1>7, <1>8, <1>9 DEF Next, Adicao, Remocao

\* What a removal took away does not come back before another operation answers.
LEMMA PassoRemocao ==
    ASSUME InvQueda, InvQueda', EscritosEmOrdem, RetornoDaRemocao, [Next]_vars
    PROVE  RetornoDaRemocao'
<1> USE DEF Adicionando
<1>1. TypeOK /\ TypeOK'
  BY DEF InvQueda, InvTipo
<1>2. ASSUME ret'.tipo # "remove" PROVE RetornoDaRemocao'
  BY <1>2 DEF RetornoDaRemocao, RemocaoEfetiva
<1>3. ASSUME NEW a \in Auts, Adiciona(a) PROVE ret'.tipo # "remove"
  BY <1>3 DEF Adiciona, Retorna, SemRetorno
<1>4. CASE Avanca \/ Marca \/ Grava
  <2>1. op.passo \in Adicionando /\ ret' = ret
    BY <1>4 DEF Avanca, Marca, Grava, Procurando
  <2> QED
    BY <1>2, <2>1 DEF RetornoDaRemocao
<1>5. ASSUME Esgota \/ Conta \/ Reseta \/ Zera PROVE ret'.tipo # "remove"
  BY <1>5 DEF Esgota, Conta, Reseta, Zera, Retorna, SemRetorno
<1>6. ASSUME NEW a \in Auts, RemovePorId(a) PROVE RetornoDaRemocao'
  <2>1. op.passo = "parada" /\ op' = [passo |-> "desconta"] /\ ret'.alvo = a /\ flash' = flash
    BY <1>6 DEF RemovePorId, Limpa, Retorna, Parada
  <2>2. Min(ComId(a)) \in Vivos /\ \A i \in Vivos : flash[i] = a => i = Min(ComId(a))
    BY <1>1, <1>6, <2>1, LimpaVivo DEF RemovePorId
  <2>3. Vivos' = Vivos \ {Min(ComId(a))}
    BY <1>1, <1>6, <2>2 DEF RemovePorId, Limpa, Vivos, TypeOK
  <2>4. \A i \in Vivos' : flash[i] # a
    BY <2>2, <2>3
  <2>5. \A i \in Vivos' : flash[i].id # a.id
    BY <1>1, <2>3, <2>4, AutsAssumption DEF TypeOK, Vivos
  <2> QED
    BY <2>1, <2>5 DEF RetornoDaRemocao, RemocaoEfetiva, ExisteId
<1>7. ASSUME Desconta \/ Posiciona \/ UNCHANGED vars PROVE RetornoDaRemocao'
  <2>1. flash' = flash /\ temDado' = temDado /\ ret' = ret
    BY <1>7 DEF Desconta, Posiciona, vars, setores
  <2>2. op' = op \/ op'.passo \notin Adicionando
    BY <1>7 DEF Desconta, Posiciona, vars, Parada
  <2> QED
    BY <2>1, <2>2 DEF RetornoDaRemocao, RemocaoEfetiva, ExisteId, Vivos
<1> QED
  BY <1>2, <1>3, <1>4, <1>5, <1>6, <1>7 DEF Next, Adicao, Remocao, Reinicio

LEMMA SempreLigada == Spec => [](InvQueda /\ InvLigada)
<1>1. Init => InvLigada
  <2>1. ASSUME Init PROVE EscritosAte(0)
    BY <2>1, TamanhosAssumption DEF Init, EscritosAte, Vivos, Setores, AntesDeGravar, Parada
  <2>2. ASSUME Init PROVE Vivos = {} /\ Contagem
    BY <2>2, FS_EmptySet DEF Init, Contagem, Vivos, AntesDeGravar, Parada
  <2>3. ASSUME Init PROVE SemSemelhante /\ RetornoDaRemocao
    BY <2>3 DEF Init, SemSemelhante, RetornoDaRemocao, RemocaoEfetiva, AntesDeGravar, Adicionando,
       Parada, SemRetorno
  <2> QED
    BY <2>1, <2>2, <2>3, TamanhosAssumption DEF InvLigada, EscritosEmOrdem
<1>2. InvQueda /\ InvQueda' /\ InvLigada /\ [Next]_vars => InvLigada'
  BY PassoEscritos, PassoContagem, PassoSemelhante, PassoRemocao DEF InvLigada
<1> QED
  BY <1>1, <1>2, SemQueda, SempreQueda, PTL DEF Spec

\* Between operations NUM_DFE is the number of sectors in use (add_autorizacao_DFE,
\* remove_autorizacao_DFE and reseta keep the guard and the bitmap together).
THEOREM ContagemSempreCerta == Spec => []ContagemDeSetores
<1>1. InvLigada => ContagemDeSetores
  BY DEF InvLigada, Contagem, ContagemDeSetores, Parada
<1> QED
  BY <1>1, SempreLigada, PTL

\* A removal by identifier leaves no copy of the authorisation, although it does not ask
\* for the bit of the sector it cleans (remove_autorizacao_DFE).
THEOREM RemocaoSempreEfetiva == Spec => []RemocaoEfetiva
<1>1. InvLigada => RemocaoEfetiva
  BY DEF InvLigada, RetornoDaRemocao
<1> QED
  BY <1>1, SempreLigada, PTL

\* The sectors, the bitmap and the guard together are a bounded set of authorisations:
\* an addition is one insertion where there is room and nothing alike, a removal takes
\* what was asked and nothing else.
THEOREM MemoriaImplementaConjunto == Spec => ImplementaConjunto
<1>1. Init => Conjunto!Init
  BY DEF Init, Conjunto!Init, Efetivas, Vivos
<1>2. ASSUME InvQueda, InvQueda', InvLigada, [Next]_vars
      PROVE  [Conjunto!Next]_Efetivas
  <2>1. TypeOK /\ TypeOK' /\ EscritosEmOrdem /\ SemSemelhante
        /\ (op.passo = "grava" => iSectorWrite \in Vivos)
    BY <1>2 DEF InvQueda, InvTipo, InvLigada, Guardadas
  <2>2. CASE Grava /\ Efetivas' = Efetivas \cup {op.aut}
    <3>1. op.passo = "grava" /\ op.aut \in Auts
      BY <2>1, <2>2 DEF Grava, TypeOK, Passos, Parada
    <3>2. Cardinality(Efetivas) < MaxDFEModel
      <4>1. numDFE + 1 = Cardinality(Vivos) /\ numDFE < MaxDFEModel
        BY <1>2, <3>1 DEF InvLigada, Contagem, AntesDeGravar
      <4>2. IsFiniteSet(Vivos)
        BY SetoresFinitos DEF Vivos
      <4> DEFINE Outros == Vivos \ {iSectorWrite}
      <4>3. IsFiniteSet(Outros) /\ Cardinality(Outros) = Cardinality(Vivos) - 1
        BY <2>1, <3>1, <4>2, FS_RemoveElement
      <4> DEFINE conteudo == [i \in Outros |-> flash[i]]
      <4>4. Efetivas = {flash[i] : i \in Outros}
        BY <3>1 DEF Efetivas
      <4>5. conteudo \in Surjection(Outros, Efetivas)
        BY <4>4 DEF Surjection
      <4>6. IsFiniteSet(Efetivas) /\ Cardinality(Efetivas) <= Cardinality(Outros)
        BY <4>3, <4>5, FS_Surjection
      <4>7. Cardinality(Efetivas) \in Nat /\ Cardinality(Vivos) \in Nat
        BY <4>2, <4>6, FS_CardinalityType
      <4> QED
        BY <2>1, <4>1, <4>3, <4>6, <4>7, TamanhosAssumption DEF TypeOK
    <3>3. \A c \in Efetivas : op.aut.id # c.id /\ op.aut.resumo # c.resumo
      <4>1. PICK b \in 0..NSetores : EscritosAte(b)
        BY <2>1 DEF EscritosEmOrdem
      <4>2. \A i \in Vivos \ {iSectorWrite} : flash[i] # op.aut /\ flash[i] \in Auts \cup {Ruido}
        BY <2>1, <3>1, <4>1 DEF EscritosAte, AntesDeGravar, Vivos, TypeOK
      <4>3. \A c \in Efetivas : c # op.aut /\ c \in Auts \cup {Ruido}
        BY <3>1, <4>2 DEF Efetivas
      <4> QED
        BY <2>1, <3>1, <4>3, AutsAssumption DEF SemSemelhante, AntesDeGravar
    <3>4. Conjunto!Reter(op.aut)
      <4>1. Conjunto!Cardinality(Efetivas) = Cardinality(Efetivas)
        BY DEF Cardinality, Conjunto!Cardinality
      <4> QED
        BY <2>2, <3>2, <3>3, <4>1 DEF Conjunto!Reter
    <3> QED
      BY <3>1, <3>4 DEF Conjunto!Next
  <2>3. CASE \E a \in Auts : RemovePorId(a) /\ a \in Efetivas /\ Efetivas' = Efetivas \ {a}
    BY <2>3 DEF Conjunto!Next, Conjunto!Liberar
  <2>4. CASE Efetivas' = {}
    BY <2>4 DEF Conjunto!Next, Conjunto!Esvaziar
  <2>5. CASE Efetivas' = Efetivas
    BY <2>5
  <2> QED
    BY <1>2, <2>1, <2>2, <2>3, <2>4, <2>5, EfeitoNoConjunto
<1> QED
  BY <1>1, <1>2, SempreLigada, PTL DEF Spec, ImplementaConjunto, Conjunto!Spec


=============================================================================
