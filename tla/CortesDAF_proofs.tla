--------------------------- MODULE CortesDAF_proofs ---------------------------
(***************************************************************************)
(* Proofs about the application layer with the power going away inside a   *)
(* handler, for any number of documents, keys, sectors and cuts: no PAF    *)
(* authorises under an erased SEF key; no two authorisations share a       *)
(* number; what was cut can be confirmed again.                            *)
(***************************************************************************)
EXTENDS CortesDAF, DAF_proofs

-----------------------------------------------------------------------------
(* The writes                                                                *)

Feitas(ordem, k) == {ordem[i] : i \in 1..k}

\* What is not among the writes done stays as it was.
LEMMA NaoEscrito ==
  ASSUME NEW ordem, NEW k, NEW novo, Escreve(ordem, k, novo)
  PROVE  /\ "emProcesso" \notin Feitas(ordem, k) => emProcesso' = emProcesso
         /\ "chaveCert" \notin Feitas(ordem, k) => chaveCert' = chaveCert
         /\ "chaveSEF" \notin Feitas(ordem, k) => chaveSEF' = chaveSEF
         /\ "chavePAF" \notin Feitas(ordem, k) => chavePAF' = chavePAF
         /\ "contador" \notin Feitas(ordem, k) => contador' = contador
         /\ "flash" \notin Feitas(ordem, k) => flash' = flash
         /\ "iSectorWrite" \notin Feitas(ordem, k) => iSectorWrite' = iSectorWrite
  BY DEF Escreve, Feitas

\* What is among them has the new value.
LEMMA Escrito ==
  ASSUME NEW ordem, NEW k, NEW novo, Escreve(ordem, k, novo)
  PROVE  /\ "chaveSEF" \in Feitas(ordem, k) => chaveSEF' = novo.chaveSEF
         /\ "chavePAF" \in Feitas(ordem, k) => chavePAF' = novo.chavePAF
         /\ "contador" \in Feitas(ordem, k) => contador' = novo.contador
         /\ "flash" \in Feitas(ordem, k) => flash' = novo.flash
         /\ "iSectorWrite" \in Feitas(ordem, k) => iSectorWrite' = novo.iSectorWrite
  BY DEF Escreve, Feitas

\* The requests that do not touch the working memory, cut, write neither the counter nor the
\* flash nor the position.
LEMMA EscritasDosCortes ==
  ASSUME CortesDePedidos
  PROVE  UNCHANGED <<contador, flash, iSectorWrite>>
<1>1. ASSUME NEW t \in TokensES, NEW c \in ChavesDAF, CortaRegistrar(t, c)
      PROVE  UNCHANGED <<contador, flash, iSectorWrite>>
  <2>1. PICK k \in 1..1 : Escreve(OrdemRegistrar, k, [chavePriv |-> c, emProcesso |-> TRUE])
    BY <1>1 DEF CortaRegistrar, Interrompe, Corta, OrdemRegistrar
  <2>2. Feitas(OrdemRegistrar, k) \cap {"contador", "flash", "iSectorWrite"} = {}
    BY <2>1 DEF Feitas, OrdemRegistrar
  <2> QED
    BY <2>1, <2>2, NaoEscrito
<1>2. ASSUME NEW t \in TokensES, NEW chs \in ChavesSEF, NEW chp \in ChavesPAF, NEW mop \in Modos,
             CortaRegistro(t, chs, chp, mop)
      PROVE  UNCHANGED <<contador, flash, iSectorWrite>>
  <2>1. PICK k \in 1..5 :
           Escreve(OrdemRegistro, k,
                   [chaveSEF |-> chs, chavePAF |-> chp, estado |-> PRONTO, regOK |-> TRUE,
                    emProcesso |-> FALSE, modo |-> mop])
    BY <1>2 DEF CortaRegistro, Interrompe, Corta, OrdemRegistro
  <2>2. Feitas(OrdemRegistro, k) \cap {"contador", "flash", "iSectorWrite"} = {}
    BY <2>1 DEF Feitas, OrdemRegistro
  <2> QED
    BY <2>1, <2>2, NaoEscrito
<1>3. ASSUME NEW t \in TokensES, CortaRemocao(t)
      PROVE  UNCHANGED <<contador, flash, iSectorWrite>>
  <2>1. PICK k \in 1..5 :
           Escreve(OrdemRemocao, k,
                   [chavePAF |-> ChaveZero, chaveSEF |-> ChaveZero, chavePriv |-> ChaveZero,
                    estado |-> INATIVO, regOK |-> FALSE, emProcesso |-> FALSE])
    BY <1>3 DEF CortaRemocao, Interrompe, Corta, OrdemRemocao
  <2>2. Feitas(OrdemRemocao, k) \cap {"contador", "flash", "iSectorWrite"} = {}
    BY <2>1 DEF Feitas, OrdemRemocao
  <2> QED
    BY <2>1, <2>2, NaoEscrito
<1>4. ASSUME NEW t \in TokensHS, NEW mop \in Modos, CortaModo(t, mop)
      PROVE  UNCHANGED <<contador, flash, iSectorWrite>>
  <2>1. PICK k \in 1..1 : Escreve(OrdemModo, k, [modo |-> mop, emProcesso |-> FALSE])
    BY <1>4 DEF CortaModo, Interrompe, Corta, OrdemModo
  <2>2. Feitas(OrdemModo, k) \cap {"contador", "flash", "iSectorWrite"} = {}
    BY <2>1 DEF Feitas, OrdemModo
  <2> QED
    BY <2>1, <2>2, NaoEscrito
<1> QED
  BY <1>1, <1>2, <1>3, <1>4 DEF CortesDePedidos

\* Neither an addition nor a removal nor the factory reset, cut or not, writes the keys of the
\* SEF and of the PAF.
LEMMA ChavesNaMemoria ==
  ASSUME NaMemoria
  PROVE  chaveSEF' = chaveSEF /\ chavePAF' = chavePAF
<1> DEFINE P == chaveSEF' = chaveSEF /\ chavePAF' = chavePAF
<1>1. ASSUME NEW k \in 1..6, NEW novo, Escreve(OrdemAutorizar, k, novo)
      PROVE  P
  <2>1. "chaveSEF" \notin Feitas(OrdemAutorizar, k) /\ "chavePAF" \notin Feitas(OrdemAutorizar, k)
    BY <1>1 DEF Feitas, OrdemAutorizar
  <2> QED
    BY <1>1, <2>1, NaoEscrito
<1>2. ASSUME NEW novo, Escreve(OrdemProcura, 2, novo)
      PROVE  P
  <2>1. "chaveSEF" \notin Feitas(OrdemProcura, 2) /\ "chavePAF" \notin Feitas(OrdemProcura, 2)
    BY DEF Feitas, OrdemProcura
  <2> QED
    BY <1>2, <2>1, NaoEscrito
<1>3. ASSUME NEW k \in 1..3, NEW novo, Escreve(OrdemApagar, k, novo)
      PROVE  P
  <2>1. "chaveSEF" \notin Feitas(OrdemApagar, k) /\ "chavePAF" \notin Feitas(OrdemApagar, k)
    BY <1>3 DEF Feitas, OrdemApagar
  <2> QED
    BY <1>3, <2>1, NaoEscrito
<1>4. ASSUME NEW k \in 1..7, NEW novo, Escreve(OrdemFabrica, k, novo)
      PROVE  P
  <2>1. "chaveSEF" \notin Feitas(OrdemFabrica, k) /\ "chavePAF" \notin Feitas(OrdemFabrica, k)
    BY <1>4 DEF Feitas, OrdemFabrica
  <2> QED
    BY <1>4, <2>1, NaoEscrito
<1>5. ASSUME NEW p \in PedidosAutorizar,
             Autoriza(p) \/ CortaAutorizar(p) \/ AutorizaSemSetor(p) \/ CortaProcura(p)
      PROVE  P
  <2>1. Autoriza(p) => P
    BY <1>1 DEF Autoriza, Completa, OrdemAutorizar
  <2>2. CortaAutorizar(p) => P
    BY <1>1 DEF CortaAutorizar, Corta, OrdemAutorizar
  <2>3. AutorizaSemSetor(p) => P
    BY <1>2 DEF AutorizaSemSetor, Completa, OrdemProcura
  <2>4. CortaProcura(p) => P
    BY <1>2 DEF CortaProcura, Corta, OrdemProcura
  <2> QED
    BY <1>5, <2>1, <2>2, <2>3, <2>4
<1>6. ASSUME NEW a, NEW s, Apaga(a, s) \/ CortaApagar(a, s) PROVE P
  BY <1>3, <1>6 DEF Apaga, Completa, CortaApagar, Interrompe, Corta, OrdemApagar
<1>7. ASSUME Fabrica \/ CortaFabrica PROVE P
  BY <1>4, <1>7 DEF Fabrica, Completa, CortaFabrica, Corta, OrdemFabrica
<1> QED
  BY <1>5, <1>6, <1>7 DEF NaMemoria

-----------------------------------------------------------------------------
(* The SEF key                                                               *)

\* The strengthening: the SEF key is never erased while that of the PAF is in force.
SEFSeguraPAF == chaveSEF = ChaveZero => chavePAF = ChaveZero

LEMMA PassoRegistro ==
  ASSUME SEFSeguraPAF, Registro
  PROVE  SEFSeguraPAF'
<1> USE ChavesAssumption DEF ChavesAssumption
<1>1. ASSUME NEW t \in TokensES, NEW k \in ChavesDAF, NEW falha \in BOOLEAN,
             Registrar(t, k, falha)
      PROVE  SEFSeguraPAF'
  BY <1>1 DEF Registrar, Nega, Responde, nv, chaves, SEFSeguraPAF
<1>2. ASSUME NEW t \in TokensES, NEW chs \in ChavesSEF \cup {ChaveZero},
             NEW chp \in ChavesPAF \cup {ChaveZero}, NEW mop \in Modos,
             ConfirmarRegistro(t, chs, chp, mop)
      PROVE  SEFSeguraPAF'
  BY <1>2 DEF ConfirmarRegistro, Nega, nv, chaves, SEFSeguraPAF
<1>3. ASSUME NEW t \in TokensES, NEW n \in Nonces, NEW falha \in BOOLEAN,
             RemoverRegistro(t, n, falha)
      PROVE  SEFSeguraPAF'
  BY <1>3 DEF RemoverRegistro, Nega, nv, chaves, SEFSeguraPAF
<1>4. ASSUME NEW t \in TokensES, ConfirmarRemocao(t) PROVE SEFSeguraPAF'
  BY <1>4 DEF ConfirmarRemocao, Nega, nv, chaves, SEFSeguraPAF
<1> QED
  BY <1>1, <1>2, <1>3, <1>4 DEF Registro

LEMMA PassoModo ==
  ASSUME SEFSeguraPAF, Modo
  PROVE  SEFSeguraPAF'
  BY DEF Modo, AlterarModo, ConfirmarAlterarModo, Nega, nv, chaves, SEFSeguraPAF

\* The others write neither key.
LEMMA PassoDocumentos ==
  ASSUME SEFSeguraPAF, Documentos \/ Manutencao \/ Queda
  PROVE  SEFSeguraPAF'
<1>1. ASSUME Documentos PROVE UNCHANGED <<chaveSEF, chavePAF>>
  BY <1>1 DEF Documentos, SolicitarAutenticacao, AutorizarDFE, ApagarAutorizacaoRetida,
              ApagarDesconhecida, DescarregarRetidos, ConsultarInformacoes, Nega, nv, chaves
<1>2. ASSUME Manutencao PROVE UNCHANGED <<chaveSEF, chavePAF>>
  BY <1>2 DEF Manutencao, AtualizarSB, AtualizarCertificado, CancelarProcesso, PadraoDeFabrica,
              PedidoInvalido, ForaDeOrdem, Nega, nv, chaves
<1>3. ASSUME Queda PROVE UNCHANGED <<chaveSEF, chavePAF>>
  BY <1>3 DEF Queda, nv, chaves
<1> QED
  BY <1>1, <1>2, <1>3 DEF SEFSeguraPAF

\* The order of the writes is what the proof rests on: a registration stores the SEF key first,
\* a removal erases that of the PAF first.
LEMMA PassoCortes ==
  ASSUME SEFSeguraPAF, CortesDePedidos
  PROVE  SEFSeguraPAF'
<1>1. ASSUME NEW t \in TokensES, NEW c \in ChavesDAF, CortaRegistrar(t, c)
      PROVE  SEFSeguraPAF'
  <2>1. PICK k \in 1..1 : Escreve(OrdemRegistrar, k, [chavePriv |-> c, emProcesso |-> TRUE])
    BY <1>1 DEF CortaRegistrar, Interrompe, Corta, OrdemRegistrar
  <2>2. "chaveSEF" \notin Feitas(OrdemRegistrar, k) /\ "chavePAF" \notin Feitas(OrdemRegistrar, k)
    BY <2>1 DEF Feitas, OrdemRegistrar
  <2> QED
    BY <2>1, <2>2, NaoEscrito DEF SEFSeguraPAF
<1>2. ASSUME NEW t \in TokensES, NEW chs \in ChavesSEF, NEW chp \in ChavesPAF, NEW mop \in Modos,
             CortaRegistro(t, chs, chp, mop)
      PROVE  SEFSeguraPAF'
  <2> DEFINE novo == [chaveSEF |-> chs, chavePAF |-> chp, estado |-> PRONTO, regOK |-> TRUE,
                      emProcesso |-> FALSE, modo |-> mop]
  <2>1. PICK k \in 1..5 : Escreve(OrdemRegistro, k, novo)
    BY <1>2 DEF CortaRegistro, Interrompe, Corta, OrdemRegistro
  <2>2. "chaveSEF" \in Feitas(OrdemRegistro, k)
    BY <2>1 DEF Feitas, OrdemRegistro
  <2>3. chaveSEF' = chs
    BY <2>1, <2>2, Escrito
  <2> QED
    BY <2>3, ChavesAssumption DEF SEFSeguraPAF
<1>3. ASSUME NEW t \in TokensES, CortaRemocao(t) PROVE SEFSeguraPAF'
  <2> DEFINE novo == [chavePAF |-> ChaveZero, chaveSEF |-> ChaveZero, chavePriv |-> ChaveZero,
                      estado |-> INATIVO, regOK |-> FALSE, emProcesso |-> FALSE]
  <2>1. PICK k \in 1..5 : Escreve(OrdemRemocao, k, novo)
    BY <1>3 DEF CortaRemocao, Interrompe, Corta, OrdemRemocao
  <2>2. "chavePAF" \in Feitas(OrdemRemocao, k)
    BY <2>1 DEF Feitas, OrdemRemocao
  <2>3. chavePAF' = ChaveZero
    BY <2>1, <2>2, Escrito
  <2> QED
    BY <2>3 DEF SEFSeguraPAF
<1>4. ASSUME NEW t \in TokensHS, NEW mop \in Modos, CortaModo(t, mop) PROVE SEFSeguraPAF'
  <2>1. PICK k \in 1..1 : Escreve(OrdemModo, k, [modo |-> mop, emProcesso |-> FALSE])
    BY <1>4 DEF CortaModo, Interrompe, Corta, OrdemModo
  <2>2. "chaveSEF" \notin Feitas(OrdemModo, k) /\ "chavePAF" \notin Feitas(OrdemModo, k)
    BY <2>1 DEF Feitas, OrdemModo
  <2> QED
    BY <2>1, <2>2, NaoEscrito DEF SEFSeguraPAF
<1> QED
  BY <1>1, <1>2, <1>3, <1>4 DEF CortesDePedidos

LEMMA PassoChaves ==
  ASSUME SEFSeguraPAF, [NextCortes]_varsCortes
  PROVE  SEFSeguraPAF'
<1>1. CASE Pedido
  BY <1>1, PassoRegistro, PassoModo, PassoDocumentos DEF Pedido
<1>2. CASE UNCHANGED varsCortes
  BY <1>2 DEF varsCortes, vars, nv, chaves, SEFSeguraPAF
<1>3. CASE NaMemoria
  BY <1>3, ChavesNaMemoria DEF SEFSeguraPAF
<1> QED
  BY <1>1, <1>2, <1>3, PassoCortes, PassoDocumentos DEF NextCortes, PedidoQueMuda

-----------------------------------------------------------------------------
(* Numbers and sectors                                                       *)

\* What a step does to numbers and sectors: nothing but a number lost, the counter back to
\* zero, or one sector written with the next number.
Efeito ==
    \/ /\ flash' = flash /\ escritos' = escritos
       /\ contador' = contador \/ contador' = contador + 1
    \/ flash' = flash /\ escritos' = {} /\ contador' = 0
    \/ \E s \in Setores, r \in {AutorizacaoNova(h) : h \in Resumos} \cup {Ruido} :
          /\ flash' = [flash EXCEPT ![s] = r] /\ escritos' = escritos \cup {s}
          /\ contador' = contador + 1

LEMMA EfeitoDosPedidos ==
  ASSUME PedidoQueMuda
  PROVE  contador' = contador \/ contador' = contador + 1
<1>1. ~PadraoDeFabrica
  BY DEF PedidoQueMuda, PadraoDeFabrica, Responde
<1>2. ASSUME NEW p \in PedidosAutorizar, AutorizarDFE(p)
      PROVE  contador' = contador \/ contador' = contador + 1
  BY <1>2 DEF AutorizarDFE, Nega, nv
<1>3. ASSUME NEW a, NEW chave, NEW legivel, ApagarAutorizacaoRetida(a, chave, legivel)
      PROVE  contador' = contador
  BY <1>3 DEF ApagarAutorizacaoRetida, Nega, nv
<1> QED
  BY <1>1, <1>2, <1>3, PassoDaMemoria DEF PedidoQueMuda, NextQueda

\* The sector that an addition takes is one of the flash.
LEMMA SetorAposNaFlash ==
  ASSUME iSectorWrite \in Nat, NEW d \in Nat
  PROVE  SetorApos(d) \in Setores
<1>1. NSetores \in Nat /\ NSetores > 0
  BY SetoresAssumption, LimitesAssumption
<1> QED
  BY <1>1 DEF SetorApos, Setores

LEMMA EfeitoDaAdicao ==
  ASSUME iSectorWrite \in Nat, NEW p \in PedidosAutorizar,
         Autoriza(p) \/ CortaAutorizar(p) \/ AutorizaSemSetor(p) \/ CortaProcura(p)
  PROVE  Efeito
<1> DEFINE nova == AutorizacaoNova(p.hdf)
<1>0. nova \in {AutorizacaoNova(h) : h \in Resumos}
  BY DEF PedidosAutorizar
<1>1. ASSUME NEW s, NEW r, NEW k \in 1..6, Escreve(OrdemAutorizar, k, Adicao(s, r))
      PROVE  /\ contador' = contador + 1
             /\ k < 4 => flash' = flash
             /\ k >= 4 => flash' = [flash EXCEPT ![s] = r]
  <2>1. Adicao(s, r).contador = contador + 1 /\ Adicao(s, r).flash = [flash EXCEPT ![s] = r]
    BY DEF Adicao
  <2>2. "contador" \in Feitas(OrdemAutorizar, k)
    BY <1>1 DEF Feitas, OrdemAutorizar
  <2>3. k < 4 => "flash" \notin Feitas(OrdemAutorizar, k)
    BY <1>1 DEF Feitas, OrdemAutorizar
  <2>4. k >= 4 => "flash" \in Feitas(OrdemAutorizar, k)
    BY <1>1 DEF Feitas, OrdemAutorizar
  <2> QED
    BY <1>1, <2>1, <2>2, <2>3, <2>4, NaoEscrito, Escrito
<1>2. CASE Autoriza(p)
  <2>1. PICK d \in 0..(NSetores - 2) :
           /\ Escreve(OrdemAutorizar, 6, Adicao(SetorApos(d), nova))
           /\ escritos' = escritos \cup {SetorApos(d)}
    BY <1>2 DEF Autoriza, Completa, OrdemAutorizar
  <2>2. SetorApos(d) \in Setores
    BY SetorAposNaFlash
  <2>3. contador' = contador + 1 /\ flash' = [flash EXCEPT ![SetorApos(d)] = nova]
    BY <1>1, <2>1
  <2> QED
    BY <1>0, <2>1, <2>2, <2>3 DEF Efeito
<1>3. CASE CortaAutorizar(p)
  <2>0. Len(OrdemAutorizar) - 1 = 5
    BY DEF OrdemAutorizar
  <2>1. PICK d \in 0..(NSetores - 2), k \in 3..5, registro \in {nova, Ruido} :
           /\ Escreve(OrdemAutorizar, k, Adicao(SetorApos(d), registro))
           /\ escritos' = IF "flash" \in Feitas(OrdemAutorizar, k)
                          THEN escritos \cup {SetorApos(d)} ELSE escritos
    BY <1>3, <2>0 DEF CortaAutorizar, Corta, Feitas
  <2>2. SetorApos(d) \in Setores
    BY SetorAposNaFlash
  <2>3. k \in 1..6
    OBVIOUS
  <2>4. contador' = contador + 1
    BY <1>1, <2>1, <2>3
  <2>5. CASE k = 3
    <3>1. flash' = flash
      BY <1>1, <2>1, <2>3, <2>5
    <3>2. "flash" \notin Feitas(OrdemAutorizar, k)
      BY <2>5 DEF Feitas, OrdemAutorizar
    <3> QED
      BY <2>1, <2>4, <3>1, <3>2 DEF Efeito
  <2>6. CASE k \in {4, 5}
    <3>1. flash' = [flash EXCEPT ![SetorApos(d)] = registro]
      BY <1>1, <2>1, <2>3, <2>6
    <3>2. "flash" \in Feitas(OrdemAutorizar, k)
      BY <2>6 DEF Feitas, OrdemAutorizar
    <3> QED
      BY <1>0, <2>1, <2>2, <2>4, <3>1, <3>2 DEF Efeito
  <2> QED
    BY <2>5, <2>6
<1>4. ASSUME NEW d, Escreve(OrdemProcura, 2, Procurado(d))
      PROVE  contador' = contador + 1 /\ flash' = flash
  <2>1. Procurado(d).contador = contador + 1
    BY DEF Procurado
  <2>2. "contador" \in Feitas(OrdemProcura, 2) /\ "flash" \notin Feitas(OrdemProcura, 2)
    BY DEF Feitas, OrdemProcura
  <2> QED
    BY <1>4, <2>1, <2>2, NaoEscrito, Escrito
<1>5. CASE AutorizaSemSetor(p)
  BY <1>4, <1>5 DEF AutorizaSemSetor, Completa, OrdemProcura, Efeito
<1>6. CASE CortaProcura(p)
  BY <1>4, <1>6 DEF CortaProcura, Corta, OrdemProcura, Efeito
<1> QED
  BY <1>2, <1>3, <1>5, <1>6

LEMMA EfeitoDaRemocao ==
  ASSUME NEW a, NEW s, Apaga(a, s) \/ CortaApagar(a, s)
  PROVE  Efeito
<1>1. ASSUME NEW k \in 1..3, Escreve(OrdemApagar, k, Remocao(s))
      PROVE  contador' = contador /\ flash' = flash
  <2>1. "contador" \notin Feitas(OrdemApagar, k) /\ "flash" \notin Feitas(OrdemApagar, k)
    BY <1>1 DEF Feitas, OrdemApagar
  <2> QED
    BY <1>1, <2>1, NaoEscrito
<1>2. escritos' = escritos
  BY DEF Apaga, CortaApagar, PodeApagar
<1>3. \E k \in 1..3 : Escreve(OrdemApagar, k, Remocao(s))
  BY DEF Apaga, Completa, CortaApagar, Interrompe, Corta, OrdemApagar
<1> QED
  BY <1>1, <1>2, <1>3 DEF Efeito

LEMMA EfeitoDaFabrica ==
  ASSUME Fabrica \/ CortaFabrica
  PROVE  Efeito
<1>0. Len(OrdemFabrica) = 7
  BY DEF OrdemFabrica
<1>1. PICK n \in 0..NSetores, k \in 1..7 :
         /\ Escreve(OrdemFabrica, k, ValoresDeFabrica(n))
         /\ escritos' = IF "contador" \in Feitas(OrdemFabrica, k) THEN {} ELSE escritos
  <2>1. CASE Fabrica
    <3>1. "contador" \in Feitas(OrdemFabrica, 7)
      BY DEF Feitas, OrdemFabrica
    <3>2. Escreve(OrdemFabrica, 7, ValoresDeFabrica(NSetores)) /\ escritos' = {}
      BY <1>0, <2>1 DEF Fabrica, Completa
    <3>3. NSetores \in 0..NSetores /\ 7 \in 1..7
      BY SetoresAssumption
    <3> QED
      BY <3>1, <3>2, <3>3
  <2>2. CASE CortaFabrica
    <3>1. PICK k \in 1..6, n \in 0..NSetores :
             /\ Escreve(OrdemFabrica, k, ValoresDeFabrica(n))
             /\ escritos' = IF "contador" \in Feitas(OrdemFabrica, k) THEN {} ELSE escritos
      BY <1>0, <2>2 DEF CortaFabrica, Corta, Feitas
    <3> QED
      BY <3>1
  <2> QED
    BY <2>1, <2>2
<1>2. "flash" \notin Feitas(OrdemFabrica, k)
  BY DEF Feitas, OrdemFabrica
<1>3. ValoresDeFabrica(n).contador = 0
  BY DEF ValoresDeFabrica
<1> QED
  BY <1>1, <1>2, <1>3, NaoEscrito, Escrito DEF Efeito

LEMMA PosicaoNaMemoria ==
  ASSUME iSectorWrite \in Nat, NaMemoria
  PROVE  iSectorWrite' \in Nat
<1> DEFINE P == iSectorWrite' \in Nat
<1>1. ASSUME NEW ordem, NEW k, NEW novo, Escreve(ordem, k, novo),
             novo.iSectorWrite \in Nat \/ "iSectorWrite" \notin Feitas(ordem, k)
      PROVE  P
  BY <1>1, NaoEscrito, Escrito
<1>2. Setores \subseteq Nat
  BY SetoresAssumption DEF Setores
<1>3. \A d \in Nat : \A r : Adicao(SetorApos(d), r).iSectorWrite \in Nat
  BY <1>2, SetorAposNaFlash DEF Adicao
<1>4. \A d \in Nat : Procurado(d).iSectorWrite \in Nat
  BY <1>2, SetorAposNaFlash DEF Procurado
<1>5. \A n : ValoresDeFabrica(n).iSectorWrite \in Nat
  BY DEF ValoresDeFabrica
<1>6. NSetores \in Nat \ {0}
  BY SetoresAssumption, LimitesAssumption
<1>7. ASSUME NEW p \in PedidosAutorizar,
             Autoriza(p) \/ CortaAutorizar(p) \/ AutorizaSemSetor(p) \/ CortaProcura(p)
      PROVE  P
  <2>1. Autoriza(p) => P
    BY <1>1, <1>3, <1>6 DEF Autoriza, Completa
  <2>2. CortaAutorizar(p) => P
    BY <1>1, <1>3, <1>6 DEF CortaAutorizar, Corta
  <2>3. AutorizaSemSetor(p) => P
    BY <1>1, <1>4, <1>6 DEF AutorizaSemSetor, Completa
  <2>4. CortaProcura(p) => P
    BY <1>1, <1>4, <1>6 DEF CortaProcura, Corta
  <2> QED
    BY <1>7, <2>1, <2>2, <2>3, <2>4
<1>8. ASSUME NEW a, NEW s, Apaga(a, s) \/ CortaApagar(a, s) PROVE P
  <2>1. PICK k \in 1..3 : Escreve(OrdemApagar, k, Remocao(s))
    BY <1>8 DEF Apaga, Completa, CortaApagar, Interrompe, Corta, OrdemApagar
  <2>2. "iSectorWrite" \notin Feitas(OrdemApagar, k)
    BY DEF Feitas, OrdemApagar
  <2> QED
    BY <1>1, <2>1, <2>2
<1>9. ASSUME Fabrica \/ CortaFabrica PROVE P
  BY <1>1, <1>5, <1>9 DEF Fabrica, Completa, CortaFabrica, Corta
<1> QED
  BY <1>7, <1>8, <1>9 DEF NaMemoria

\* A step from a state in which the position is a number.
LEMMA EfeitoDoPasso ==
  ASSUME iSectorWrite \in Nat, [NextCortes]_varsCortes
  PROVE  Efeito /\ iSectorWrite' \in Nat
<1>1. CASE PedidoQueMuda /\ UNCHANGED <<setores, escritos, cortes>>
  BY <1>1, EfeitoDosPedidos DEF Efeito, setores
<1>2. CASE Queda /\ UNCHANGED <<setores, escritos, interrompida, cortes>>
  BY <1>2 DEF Queda, nv, Efeito, setores
<1>3. CASE CortesDePedidos /\ UNCHANGED escritos
  BY <1>3, EscritasDosCortes DEF Efeito
<1>4. CASE NaMemoria
  BY <1>4, PosicaoNaMemoria, EfeitoDaAdicao, EfeitoDaRemocao, EfeitoDaFabrica DEF NaMemoria
<1>5. CASE UNCHANGED varsCortes
  BY <1>5 DEF varsCortes, vars, nv, setores, Efeito
<1> QED
  BY <1>1, <1>2, <1>3, <1>4, <1>5 DEF NextCortes

\* The strengthening: the numbers are unique over the sectors written since the counter was
\* last cleared, whether or not they are marked, and none is above the counter.
NumerosEscritos ==
    /\ contador \in Nat /\ iSectorWrite \in Nat
    /\ escritos \subseteq Setores /\ flash = [i \in Setores |-> flash[i]]
    /\ \A i \in escritos : flash[i] # Ruido => flash[i].cnt \in Nat /\ flash[i].cnt <= contador
    /\ \A i, j \in escritos :
          Ruido \notin {flash[i], flash[j]} /\ flash[i].cnt = flash[j].cnt => i = j

LEMMA NumerosPasso ==
  ASSUME NumerosEscritos, [NextCortes]_varsCortes
  PROVE  NumerosEscritos'
<1>1. Efeito /\ iSectorWrite' \in Nat
  BY EfeitoDoPasso DEF NumerosEscritos
<1>2. CASE /\ flash' = flash /\ escritos' = escritos
           /\ contador' = contador \/ contador' = contador + 1
  <2>1. contador' \in Nat /\ contador' >= contador
    BY <1>2 DEF NumerosEscritos
  <2> QED
    BY <1>1, <1>2, <2>1 DEF NumerosEscritos
<1>3. CASE flash' = flash /\ escritos' = {} /\ contador' = 0
  BY <1>1, <1>3 DEF NumerosEscritos
<1>4. ASSUME NEW s \in Setores, NEW r \in {AutorizacaoNova(h) : h \in Resumos} \cup {Ruido},
             flash' = [flash EXCEPT ![s] = r], escritos' = escritos \cup {s},
             contador' = contador + 1
      PROVE  NumerosEscritos'
  <2>1. r # Ruido => r.cnt = contador + 1
    BY DEF AutorizacaoNova
  <2>2. flash' = [i \in Setores |-> IF i = s THEN r ELSE flash[i]]
    BY <1>4 DEF NumerosEscritos
  <2> DEFINE g == [i \in Setores |-> IF i = s THEN r ELSE flash[i]]
  <2>3. g[s] = r /\ \A i \in Setores \ {s} : g[i] = flash[i]
    OBVIOUS
  <2>4. flash' = [i \in Setores |-> flash'[i]]
    BY <2>2
  <2>5. flash' = g
    BY <2>2
  <2> HIDE DEF g
  <2>6. \A i \in escritos' :
           flash'[i] # Ruido => flash'[i].cnt \in Nat /\ flash'[i].cnt <= contador'
    BY <1>4, <2>1, <2>3, <2>5 DEF NumerosEscritos
  <2>7. ASSUME NEW i \in escritos', NEW j \in escritos',
               Ruido \notin {flash'[i], flash'[j]}, flash'[i].cnt = flash'[j].cnt
        PROVE  i = j
    BY <1>4, <2>1, <2>3, <2>5, <2>7 DEF NumerosEscritos
  <2> QED
    BY <1>1, <1>4, <2>4, <2>6, <2>7 DEF NumerosEscritos
<1> QED
  BY <1>1, <1>2, <1>3, <1>4 DEF Efeito

LEMMA NumerosIniciais == InitCortes => NumerosEscritos
  BY DEF InitCortes, Init, NumerosEscritos

\* Wherever the power goes away, also between the writes of one addition, no two retained
\* authorisations numbered since the counter was last cleared share a number and none is above
\* the counter: those that a cut made valid again after their removal included
\* (daf.cpp:588-651, memoria_de_trabalho.cpp:43-45).
THEOREM NumeracaoUnicaComCortes == SpecCortes => []NumeracaoComCortes
<1>1. NumerosEscritos => NumeracaoComCortes
  BY DEF NumerosEscritos, NumeracaoComCortes
<1> QED
  BY <1>1, NumerosIniciais, NumerosPasso, PTL DEF SpecCortes

\* Wherever the power goes away inside a registration, a removal or anything else, a PAF
\* whose key is in force is never given an authorisation under an erased SEF key
\* (daf.cpp:473-487, 892-896).
THEOREM SempreAutorizaComChaveSEF == SpecCortes => AutorizaComChaveSEF
<1>1. InitCortes => SEFSeguraPAF
  BY DEF InitCortes, Init, SEFSeguraPAF
<1>2. ASSUME NumerosEscritos, SEFSeguraPAF, [NextCortes]_varsCortes,
             NEW i \in Setores, flash'[i] \notin {flash[i], Ruido}, flash'[i].chave = ChaveZero
      PROVE  chavePAF = ChaveZero
  <2>1. PICK s \in Setores, r \in {AutorizacaoNova(h) : h \in Resumos} \cup {Ruido} :
           flash' = [flash EXCEPT ![s] = r]
    BY <1>2, EfeitoDoPasso DEF NumerosEscritos, Efeito
  <2>2. flash' = [j \in Setores |-> IF j = s THEN r ELSE flash[j]]
    BY <1>2, <2>1 DEF NumerosEscritos
  <2>3. flash'[i] = r /\ r # Ruido
    BY <1>2, <2>2
  <2>4. r.chave = chaveSEF
    BY <2>3 DEF AutorizacaoNova
  <2> QED
    BY <1>2, <2>3, <2>4 DEF SEFSeguraPAF
<1>3. NumerosEscritos /\ SEFSeguraPAF /\ [NextCortes]_varsCortes
        => [\A i \in Setores :
              flash'[i] \notin {flash[i], Ruido} /\ flash'[i].chave = ChaveZero
                => chavePAF = ChaveZero]_varsCortes
  BY <1>2
<1> QED
  BY <1>1, <1>3, NumerosIniciais, NumerosPasso, PassoChaves, PTL DEF SpecCortes, AutorizaComChaveSEF

-----------------------------------------------------------------------------
(* Confirmations that were cut                                               *)

USE DEF INATIVO, PRONTO, REGISTRAR, CONFIRMAR_REGISTRO, SOLICITAR, REMOVER,
        CONFIRMAR_REMOCAO, ALTERAR_MODO, CONFIRMAR_MODO, CANCELAR

\* After the start the gate lets every request in.
SemPortao == interrompida # Nenhuma => lastMsg = 0

LEMMA RepetivelPasso ==
  ASSUME SemPortao, ConfirmacaoRepetivel, [NextCortes]_varsCortes
  PROVE  SemPortao' /\ ConfirmacaoRepetivel'
<1> DEFINE P == SemPortao' /\ ConfirmacaoRepetivel'
<1>1. CASE interrompida' = Nenhuma
  BY <1>1 DEF SemPortao, ConfirmacaoRepetivel
<1>2. CASE UNCHANGED <<nv, interrompida>> /\ (lastMsg' = 0 \/ lastMsg' = lastMsg)
  <2>1. \A t : /\ ResConfirmarRegistro(t)' = ResConfirmarRegistro(t)
               /\ ResConfirmarRemocao(t)' = ResConfirmarRemocao(t)
               /\ ResConfirmarModo(t)' = ResConfirmarModo(t)
    BY <1>2 DEF ResConfirmarRegistro, ResConfirmarRemocao, ResConfirmarModo, nv, guardas, chaves
  <2>2. ResConfirmacao(interrompida)' = ResConfirmacao(interrompida)
    BY <1>2, <2>1 DEF ResConfirmacao
  <2>3. RegistroFeito(interrompida)' <=> RegistroFeito(interrompida)
    BY <1>2 DEF RegistroFeito, nv, guardas, chaves
  <2>4. SemPortao' /\ (interrompida # Nenhuma => ~Barrado(interrompida.cod)')
    BY <1>2 DEF SemPortao, Barrado
  <2> QED
    BY <1>2, <2>2, <2>3, <2>4 DEF ConfirmacaoRepetivel
<1>3. ASSUME NEW t \in TokensES, NEW chs \in ChavesSEF, NEW chp \in ChavesPAF, NEW mop \in Modos,
             CortaRegistro(t, chs, chp, mop)
      PROVE  P
  <2> DEFINE novo == [chaveSEF |-> chs, chavePAF |-> chp, estado |-> PRONTO, regOK |-> TRUE,
                      emProcesso |-> FALSE, modo |-> mop]
             i == [cod |-> CONFIRMAR_REGISTRO, token |-> t, chs |-> chs, chp |-> chp]
  <2>1. PICK k \in 1..5 : Escreve(OrdemRegistro, k, novo) /\ lastMsg' = 0
    BY <1>3 DEF CortaRegistro, Interrompe, Corta, OrdemRegistro
  <2>2. interrompida' = i /\ ResConfirmarRegistro(t) = "SUCESSO" /\ i.cod = 2 /\ i.token = t
        /\ i.chs = chs /\ i.chp = chp
    BY <1>3 DEF CortaRegistro
  <2>3. lastMsg' = 0 /\ chaveCert' = chaveCert
    BY <2>1, NaoEscrito DEF OrdemRegistro, Feitas
  <2>4. CASE k = 5
    <3>1. Feitas(OrdemRegistro, k)
             = {"chaveSEF", "chavePAF", "estado", "regOK", "emProcesso"}
      BY <2>4 DEF OrdemRegistro, Feitas
    <3>2. estado' = PRONTO /\ regOK' = TRUE /\ chaveSEF' = chs /\ chavePAF' = chp
      BY <2>1, <3>1 DEF Escreve, Feitas
    <3> QED
      BY <2>2, <2>3, <3>2 DEF SemPortao, ConfirmacaoRepetivel, RegistroFeito
  <2>5. CASE k # 5
    <3>1. emProcesso' = emProcesso
      BY <2>1, <2>5, NaoEscrito DEF OrdemRegistro, Feitas
    <3>2. ResConfirmarRegistro(t)' = "SUCESSO"
      BY <2>2, <2>3, <3>1 DEF ResConfirmarRegistro
    <3>3. ResConfirmacao(interrompida)' = "SUCESSO" /\ ~Barrado(interrompida.cod)'
      BY <2>2, <2>3, <3>2 DEF ResConfirmacao, Barrado
    <3> QED
      BY <2>3, <3>3 DEF SemPortao, ConfirmacaoRepetivel
  <2> QED
    BY <2>4, <2>5
<1>4. ASSUME NEW t \in TokensES, CortaRemocao(t) PROVE P
  <2> DEFINE novo == [chavePAF |-> ChaveZero, chaveSEF |-> ChaveZero, chavePriv |-> ChaveZero,
                      estado |-> INATIVO, regOK |-> FALSE, emProcesso |-> FALSE]
             i == [cod |-> CONFIRMAR_REMOCAO, token |-> t]
  <2>1. PICK k \in 1..5 : Escreve(OrdemRemocao, k, novo) /\ lastMsg' = 0
    BY <1>4 DEF CortaRemocao, Interrompe, Corta, OrdemRemocao
  <2>2. interrompida' = i /\ ResConfirmarRemocao(t) = "SUCESSO" /\ i.cod = 7 /\ i.token = t
    BY <1>4 DEF CortaRemocao
  <2>3. lastMsg' = 0 /\ chaveCert' = chaveCert /\ emProcesso' = emProcesso
    BY <2>1, NaoEscrito DEF OrdemRemocao, Feitas
  <2>4. ResConfirmarRemocao(t)' = "SUCESSO"
    BY <2>2, <2>3 DEF ResConfirmarRemocao
  <2>5. ResConfirmacao(interrompida)' = "SUCESSO" /\ ~Barrado(interrompida.cod)'
    BY <2>2, <2>3, <2>4 DEF ResConfirmacao, Barrado
  <2> QED
    BY <2>3, <2>5 DEF SemPortao, ConfirmacaoRepetivel
<1>5. ASSUME NEW t \in TokensHS, NEW mop \in Modos, CortaModo(t, mop) PROVE P
  <2> DEFINE novo == [modo |-> mop, emProcesso |-> FALSE]
             i == [cod |-> CONFIRMAR_MODO, token |-> t]
  <2>1. PICK k \in 1..1 : Escreve(OrdemModo, k, novo) /\ lastMsg' = 0
    BY <1>5 DEF CortaModo, Interrompe, Corta, OrdemModo
  <2>2. interrompida' = i /\ ResConfirmarModo(t) = "SUCESSO" /\ i.cod = 13 /\ i.token = t
    BY <1>5 DEF CortaModo
  <2>3. lastMsg' = 0 /\ chaveSEF' = chaveSEF /\ emProcesso' = emProcesso
    BY <2>1, NaoEscrito DEF OrdemModo, Feitas
  <2>4. ResConfirmarModo(t)' = "SUCESSO"
    BY <2>2, <2>3 DEF ResConfirmarModo
  <2>5. ResConfirmacao(interrompida)' = "SUCESSO" /\ ~Barrado(interrompida.cod)'
    BY <2>2, <2>3, <2>4 DEF ResConfirmacao, Barrado
  <2> QED
    BY <2>3, <2>5 DEF SemPortao, ConfirmacaoRepetivel
<1>6. CASE CortesDePedidos
  BY <1>1, <1>3, <1>4, <1>5, <1>6 DEF CortesDePedidos, CortaRegistrar
<1>7. CASE UNCHANGED varsCortes
  BY <1>2, <1>7 DEF varsCortes, vars
<1>8. CASE Queda /\ UNCHANGED <<setores, escritos, interrompida, cortes>>
  BY <1>2, <1>8 DEF Queda
<1>9. CASE NaMemoria
  <2>1. interrompida' = Nenhuma
    BY <1>9 DEF NaMemoria, Autoriza, CortaAutorizar, AutorizaSemSetor, CortaProcura, PodeAdicionar,
                Apaga, CortaApagar, PodeApagar, Fabrica, CortaFabrica
  <2> QED
    BY <1>1, <2>1
<1> QED
  BY <1>1, <1>6, <1>7, <1>8, <1>9 DEF NextCortes

\* A confirmation that the power cut short can be sent again and succeeds, wherever it was
\* cut, or had everything but the mode in place (daf.cpp:473-492, 892-905, 1127-1131).
THEOREM ConfirmacaoSempreRepetivel == SpecCortes => []ConfirmacaoRepetivel
<1>1. InitCortes => SemPortao /\ ConfirmacaoRepetivel
  BY DEF InitCortes, SemPortao, ConfirmacaoRepetivel
<1> QED
  BY <1>1, RepetivelPasso, PTL DEF SpecCortes

=============================================================================
