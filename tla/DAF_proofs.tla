----------------------------- MODULE DAF_proofs -----------------------------
(***************************************************************************)
(* Proofs about the application layer, for every value of the constants.   *)
(*                                                                         *)
(* SpecQueda (with power cycles): the type invariant, the count and the    *)
(* numbering of the retained authorisations, the keys of a registered      *)
(* device.  Spec (the device stays powered): what the confirmations rely   *)
(* on.                                                                     *)
(***************************************************************************)
EXTENDS DAF, FiniteSetTheorems, TLAPS

USE DEF INATIVO, PRONTO, BLOQUEADO, REGISTRAR, CONFIRMAR_REGISTRO, SOLICITAR,
        AUTORIZAR, APAGAR, REMOVER, CONFIRMAR_REMOCAO, CONSULTAR, ATUALIZAR_SB,
        ATUALIZAR_CERTIFICADO, DESCARREGAR, ALTERAR_MODO, CONFIRMAR_MODO,
        CANCELAR, PADRAO_DE_FABRICA

-----------------------------------------------------------------------------
(* Type correctness, one lemma per action that writes the memories.          *)

\* A request that writes neither the non-volatile memory nor the history.
LEMMA TipoSoResponde ==
    ASSUME TypeOK, UNCHANGED <<nv, iniciado>>, lastMsg' \in 0..14, nonce' \in Nonces, TipoResp'
    PROVE  TypeOK'
<1>1. TipoGuardas'
  BY DEF TypeOK, TipoGuardas, nv, guardas
<1>2. TipoChaves' /\ TipoRAM'
  BY DEF TypeOK, TipoChaves, TipoRAM, nv, chaves
<1>3. retidas' \subseteq Autorizacoes /\ IsFiniteSet(retidas')
  BY DEF TypeOK, nv
<1> QED
  BY <1>1, <1>2, <1>3 DEF TypeOK

\* Registrar stores a generated key pair, and opens the process unless signing fails.
LEMMA TipoRegistrar ==
    ASSUME TypeOK, NEW t \in TokensES, NEW k \in ChavesDAF, NEW falha \in BOOLEAN,
           Registrar(t, k, falha)
    PROVE  TypeOK'
<1>1. TipoGuardas'
  BY DEF Registrar, Nega, TypeOK, TipoGuardas, nv, guardas
<1>2. TipoChaves'
  BY DEF Registrar, Nega, TypeOK, TipoChaves, nv, chaves
<1>3. TipoRAM'
  BY DEF Registrar, Nega, TypeOK, TipoRAM
<1>4. TipoResp'
  BY DEF Registrar, Nega, Responde, TipoResp, Codigos, Respostas, ResRegistrar, ResToken
<1>5. retidas' \subseteq Autorizacoes /\ IsFiniteSet(retidas')
  BY DEF Registrar, Nega, TypeOK, nv
<1> QED
  BY <1>1, <1>2, <1>3, <1>4, <1>5 DEF TypeOK

\* ConfirmarRegistro stores keys of the SEF, all of them or chave_SEF alone.
LEMMA TipoConfirmarRegistro ==
    ASSUME TypeOK, NEW t \in TokensES, NEW chs \in ChavesSEF \cup {ChaveZero},
           NEW chp \in ChavesPAF \cup {ChaveZero}, NEW mop \in Modos,
           ConfirmarRegistro(t, chs, chp, mop)
    PROVE  TypeOK'
<1>1. TipoGuardas'
  BY DEF ConfirmarRegistro, Nega, TypeOK, TipoGuardas, nv, guardas
<1>2. TipoChaves'
  BY DEF ConfirmarRegistro, Nega, TypeOK, TipoChaves, nv, chaves
<1>3. TipoRAM'
  BY DEF ConfirmarRegistro, Nega, TypeOK, TipoRAM
<1>4. TipoResp'
  BY DEF ConfirmarRegistro, Nega, Responde, TipoResp, Codigos, Respostas, ResConfirmarRegistro, ResToken
<1>5. retidas' \subseteq Autorizacoes /\ IsFiniteSet(retidas')
  BY DEF ConfirmarRegistro, Nega, TypeOK, nv
<1> QED
  BY <1>1, <1>2, <1>3, <1>4, <1>5 DEF TypeOK

\* RemoverRegistro takes the nonce of the token and opens the process.
LEMMA TipoRemoverRegistro ==
    ASSUME TypeOK, NEW t \in TokensES, NEW n \in Nonces, NEW falha \in BOOLEAN,
           RemoverRegistro(t, n, falha)
    PROVE  TypeOK'
<1>1. TipoGuardas'
  BY DEF RemoverRegistro, Nega, TypeOK, TipoGuardas, nv, guardas
<1>2. TipoChaves'
  BY DEF RemoverRegistro, Nega, TypeOK, TipoChaves, nv, chaves
<1>3. TipoRAM'
  BY DEF RemoverRegistro, Nega, TypeOK, TipoRAM
<1>4. TipoResp'
  BY DEF RemoverRegistro, Nega, Responde, TipoResp, Codigos, Respostas, ResRemoverRegistro, ResToken
<1>5. retidas' \subseteq Autorizacoes /\ IsFiniteSet(retidas')
  BY DEF RemoverRegistro, Nega, TypeOK, nv
<1> QED
  BY <1>1, <1>2, <1>3, <1>4, <1>5 DEF TypeOK

\* ConfirmarRemocao erases three keys.
LEMMA TipoConfirmarRemocao ==
    ASSUME TypeOK, NEW t \in TokensES,
           ConfirmarRemocao(t)
    PROVE  TypeOK'
<1>1. TipoGuardas'
  BY DEF ConfirmarRemocao, Nega, TypeOK, TipoGuardas, nv, guardas
<1>2. TipoChaves'
  BY DEF ConfirmarRemocao, Nega, TypeOK, TipoChaves, nv, chaves
<1>3. TipoRAM'
  BY DEF ConfirmarRemocao, Nega, TypeOK, TipoRAM
<1>4. TipoResp'
  BY DEF ConfirmarRemocao, Nega, Responde, TipoResp, Codigos, Respostas, ResConfirmarRemocao, ResToken
<1>5. retidas' \subseteq Autorizacoes /\ IsFiniteSet(retidas')
  BY DEF ConfirmarRemocao, Nega, TypeOK, nv
<1> QED
  BY <1>1, <1>2, <1>3, <1>4, <1>5 DEF TypeOK

\* AlterarModo opens the process and writes nothing else.
LEMMA TipoAlterarModo ==
    ASSUME TypeOK, NEW t \in TokensHS, NEW falha \in BOOLEAN,
           AlterarModo(t, falha)
    PROVE  TypeOK'
<1>1. TipoGuardas'
  BY DEF AlterarModo, Nega, TypeOK, TipoGuardas, nv, guardas
<1>2. TipoChaves'
  BY DEF AlterarModo, Nega, TypeOK, TipoChaves, nv, chaves
<1>3. TipoRAM'
  BY DEF AlterarModo, Nega, TypeOK, TipoRAM
<1>4. TipoResp'
  BY DEF AlterarModo, Nega, Responde, TipoResp, Codigos, Respostas, ResAlterarModo, ResToken
<1>5. retidas' \subseteq Autorizacoes /\ IsFiniteSet(retidas')
  BY DEF AlterarModo, Nega, TypeOK, nv
<1> QED
  BY <1>1, <1>2, <1>3, <1>4, <1>5 DEF TypeOK

\* ConfirmarAlterarModo stores a mode that the token carries.
LEMMA TipoConfirmarAlterarModo ==
    ASSUME TypeOK, NEW t \in TokensHS, NEW mop \in Modos,
           ConfirmarAlterarModo(t, mop)
    PROVE  TypeOK'
<1>1. TipoGuardas'
  BY DEF ConfirmarAlterarModo, Nega, TypeOK, TipoGuardas, nv, guardas
<1>2. TipoChaves'
  BY DEF ConfirmarAlterarModo, Nega, TypeOK, TipoChaves, nv, chaves
<1>3. TipoRAM'
  BY DEF ConfirmarAlterarModo, Nega, TypeOK, TipoRAM
<1>4. TipoResp'
  BY DEF ConfirmarAlterarModo, Nega, Responde, TipoResp, Codigos, Respostas, ResConfirmarModo, ResToken
<1>5. retidas' \subseteq Autorizacoes /\ IsFiniteSet(retidas')
  BY DEF ConfirmarAlterarModo, Nega, TypeOK, nv
<1> QED
  BY <1>1, <1>2, <1>3, <1>4, <1>5 DEF TypeOK

\* AtualizarCertificado stores the public key of the certificate.
LEMMA TipoAtualizarCertificado ==
    ASSUME TypeOK, NEW k \in ChavesCert, NEW grande \in BOOLEAN, NEW legivel \in BOOLEAN,
           AtualizarCertificado(k, grande, legivel)
    PROVE  TypeOK'
<1>1. TipoGuardas'
  BY DEF AtualizarCertificado, Nega, TypeOK, TipoGuardas, nv, guardas
<1>2. TipoChaves'
  BY DEF AtualizarCertificado, Nega, TypeOK, TipoChaves, nv, chaves
<1>3. TipoRAM'
  BY DEF AtualizarCertificado, Nega, TypeOK, TipoRAM
<1>4. TipoResp'
  BY DEF AtualizarCertificado, Nega, Responde, TipoResp, Codigos, Respostas, ResAtualizar
<1>5. retidas' \subseteq Autorizacoes /\ IsFiniteSet(retidas')
  BY DEF AtualizarCertificado, Nega, TypeOK, nv
<1> QED
  BY <1>1, <1>2, <1>3, <1>4, <1>5 DEF TypeOK

\* CancelarProcesso writes EM_PROCESSO and last_msg.
LEMMA TipoCancelarProcesso ==
    ASSUME TypeOK, CancelarProcesso
    PROVE  TypeOK'
<1>1. TipoGuardas'
  BY DEF CancelarProcesso, Nega, TypeOK, TipoGuardas, nv, guardas
<1>2. TipoChaves'
  BY DEF CancelarProcesso, Nega, TypeOK, TipoChaves, nv, chaves
<1>3. TipoRAM'
  BY DEF CancelarProcesso, Nega, TypeOK, TipoRAM
<1>4. TipoResp'
  BY DEF CancelarProcesso, Nega, Responde, TipoResp, Codigos, Respostas
<1>5. retidas' \subseteq Autorizacoes /\ IsFiniteSet(retidas')
  BY DEF CancelarProcesso, Nega, TypeOK, nv
<1> QED
  BY <1>1, <1>2, <1>3, <1>4, <1>5 DEF TypeOK

\* AutorizarDFE: the new authorisation has the type of the retained ones.
LEMMA TipoAutorizarDFE ==
    ASSUME TypeOK, NEW p \in PedidosAutorizar, AutorizarDFE(p)
    PROVE  TypeOK'
<1>1. CASE UNCHANGED nv
  <2>1. TipoResp'
    BY DEF AutorizarDFE, Nega, Responde, TipoResp, Codigos, Respostas, ResAutorizar
  <2>2. UNCHANGED iniciado /\ lastMsg' \in 0..14 /\ nonce' \in Nonces
    BY DEF AutorizarDFE, Nega, TypeOK, TipoRAM
  <2> QED
    BY <1>1, <2>1, <2>2, TipoSoResponde
<1>2. CASE ~UNCHANGED nv
  <2>1. /\ contador < LimContador /\ contador' = contador + 1
        /\ UNCHANGED <<emProcesso, regOK, modo, chaves, nonce, iniciado>>
    BY <1>2 DEF AutorizarDFE, Nega
  <2>2. \/ UNCHANGED <<estado, numDFE, retidas, lastMsg>>
        \/ /\ retidas' = retidas \cup {AutorizacaoNova(p.hdf)}
           /\ numDFE' = numDFE + 1
           /\ estado' = EstadoCom(numDFE + 1)
           /\ lastMsg' = AUTORIZAR
    BY <1>2 DEF AutorizarDFE, Nega, MTAdiciona
  <2>3. AutorizacaoNova(p.hdf) \in Autorizacoes
    <3>1. contador + 1 \in 1..LimContador
      BY <2>1, LimitesAssumption DEF TypeOK, TipoGuardas
    <3>2. p.hdf \in Resumos
      BY DEF PedidosAutorizar
    <3> QED
      BY <3>1, <3>2 DEF AutorizacaoNova, Autorizacoes, TypeOK, TipoGuardas, TipoChaves
  <2>4. TipoGuardas'
    <3>1. contador' \in 0..LimContador
      BY <2>1, LimitesAssumption DEF TypeOK, TipoGuardas
    <3>2. numDFE' \in Nat
      BY <2>2 DEF TypeOK, TipoGuardas
    <3>3. estado' \in {INATIVO, PRONTO, BLOQUEADO}
      BY <2>2 DEF EstadoCom, TypeOK, TipoGuardas
    <3> QED
      BY <2>1, <3>1, <3>2, <3>3 DEF TypeOK, TipoGuardas
  <2>5. TipoChaves' /\ TipoRAM'
    BY <2>1, <2>2 DEF TypeOK, TipoChaves, TipoRAM, chaves
  <2>6. TipoResp'
    BY DEF AutorizarDFE, Nega, Responde, TipoResp, Codigos, Respostas, ResAutorizar
  <2>7. retidas' \subseteq Autorizacoes /\ IsFiniteSet(retidas')
    BY <2>2, <2>3, FS_AddElement DEF TypeOK
  <2> QED
    BY <2>4, <2>5, <2>6, <2>7 DEF TypeOK
<1> QED
  BY <1>1, <1>2

\* ApagarAutorizacaoRetida: the guard counts down only with something retained.
LEMMA TipoApagar ==
    ASSUME TypeOK, ContagemCorreta, NEW a \in retidas,
           NEW chave \in ChavesSEF \cup {ChaveZero}, NEW legivel \in BOOLEAN,
           ApagarAutorizacaoRetida(a, chave, legivel)
    PROVE  TypeOK'
<1>1. IsFiniteSet(retidas \ {a}) /\ numDFE - 1 = Cardinality(retidas \ {a})
  BY FS_RemoveElement DEF TypeOK, ContagemCorreta
<1>2. numDFE - 1 \in Nat
  BY <1>1, FS_CardinalityType
<1>3. TipoGuardas'
  BY <1>2 DEF ApagarAutorizacaoRetida, MTRemove, Nega, TypeOK, TipoGuardas, nv, guardas
<1>4. TipoChaves' /\ TipoRAM'
  BY DEF ApagarAutorizacaoRetida, Nega, TypeOK, TipoChaves, TipoRAM, nv, chaves
<1>5. TipoResp'
  BY DEF ApagarAutorizacaoRetida, Nega, Responde, TipoResp, Codigos, Respostas, ResApagar
<1>6. retidas' \subseteq Autorizacoes /\ IsFiniteSet(retidas')
  BY <1>1 DEF ApagarAutorizacaoRetida, MTRemove, Nega, TypeOK, nv
<1> QED
  BY <1>3, <1>4, <1>5, <1>6 DEF TypeOK

\* PadraoDeFabrica writes constants.
LEMMA TipoPadraoDeFabrica ==
    ASSUME TypeOK, PadraoDeFabrica
    PROVE  TypeOK'
<1>1. 0 \in 0..LimContador
  BY LimitesAssumption
<1>2. TipoGuardas'
  BY <1>1, ChavesAssumption DEF PadraoDeFabrica, MTReseta, TypeOK, TipoGuardas
<1>3. TipoChaves' /\ TipoRAM'
  BY ChavesAssumption DEF PadraoDeFabrica, TypeOK, TipoChaves, TipoRAM
<1>4. TipoResp'
  BY DEF PadraoDeFabrica, Responde, TipoResp, Codigos, Respostas
<1>5. retidas' \subseteq Autorizacoes /\ IsFiniteSet(retidas')
  BY FS_EmptySet DEF PadraoDeFabrica, MTReseta
<1> QED
  BY <1>2, <1>3, <1>4, <1>5 DEF TypeOK

\* The requests that only answer, and the power cycle.
LEMMA TipoDemais ==
    ASSUME TypeOK,
           \/ \E n \in Nonces, falha \in BOOLEAN : SolicitarAutenticacao(n, falha)
           \/ ApagarDesconhecida
           \/ \E encontrada, falha \in BOOLEAN : DescarregarRetidos(encontrada, falha)
           \/ ConsultarInformacoes
           \/ AtualizarSB
           \/ PedidoInvalido
           \/ \E c \in Codigos : ForaDeOrdem(c)
           \/ Queda
    PROVE  TypeOK'
<1>1. UNCHANGED <<nv, iniciado>>
  BY DEF SolicitarAutenticacao, ApagarDesconhecida, DescarregarRetidos,
         ConsultarInformacoes, AtualizarSB, PedidoInvalido, ForaDeOrdem, Queda, Nega
<1>2. lastMsg' \in 0..14 /\ nonce' \in Nonces
  BY DEF SolicitarAutenticacao, ApagarDesconhecida, DescarregarRetidos,
         ConsultarInformacoes, AtualizarSB, PedidoInvalido, ForaDeOrdem, Queda,
         Nega, TypeOK, TipoRAM
<1>3. TipoResp'
  BY DEF SolicitarAutenticacao, ApagarDesconhecida, DescarregarRetidos,
         ConsultarInformacoes, AtualizarSB, ResAtualizar, PedidoInvalido,
         ForaDeOrdem, Queda, Nega, Responde, TipoResp, Codigos, Respostas
<1> QED
  BY <1>1, <1>2, <1>3, TipoSoResponde

\* A step keeps the type invariant, given that NUM_DFE counts what is retained.
LEMMA TipoPasso ==
    ASSUME TypeOK, ContagemCorreta, [NextQueda]_vars
    PROVE  TypeOK'
<1>1. CASE Registro
  BY <1>1, TipoRegistrar, TipoConfirmarRegistro, TipoRemoverRegistro, TipoConfirmarRemocao
  DEF Registro
<1>2. CASE Modo
  BY <1>2, TipoAlterarModo, TipoConfirmarAlterarModo DEF Modo
<1>3. CASE Documentos
  BY <1>3, TipoAutorizarDFE, TipoApagar, TipoDemais DEF Documentos
<1>4. CASE Manutencao
  BY <1>4, TipoAtualizarCertificado, TipoCancelarProcesso, TipoPadraoDeFabrica, TipoDemais
  DEF Manutencao
<1>5. CASE Queda
  BY <1>5, TipoDemais
<1>6. CASE UNCHANGED vars
  <2>1. TipoGuardas' /\ TipoChaves' /\ TipoRAM'
    BY <1>6 DEF vars, nv, guardas, chaves, TypeOK, TipoGuardas, TipoChaves, TipoRAM
  <2>2. TipoResp' /\ UNCHANGED retidas
    BY <1>6 DEF vars, nv, TypeOK, TipoResp
  <2> QED
    BY <2>1, <2>2 DEF TypeOK
<1> QED
  BY <1>1, <1>2, <1>3, <1>4, <1>5, <1>6 DEF NextQueda, Pedido

-----------------------------------------------------------------------------
(* What is retained: its count and its numbering, with power cycles.         *)

\* Only three requests touch NUM_DFE, the counter or the working memory.
LEMMA PassoDaMemoria ==
    ASSUME [NextQueda]_vars
    PROVE  \/ UNCHANGED <<numDFE, contador, retidas>>
           \/ \E p \in PedidosAutorizar : AutorizarDFE(p)
           \/ \E a \in retidas, chave \in ChavesSEF \cup {ChaveZero}, legivel \in BOOLEAN :
                  ApagarAutorizacaoRetida(a, chave, legivel)
           \/ PadraoDeFabrica
<1>1. CASE Registro
  BY <1>1 DEF Registro, Registrar, ConfirmarRegistro, RemoverRegistro, ConfirmarRemocao,
              Nega, nv, guardas
<1>2. CASE Modo
  BY <1>2 DEF Modo, AlterarModo, ConfirmarAlterarModo, Nega, nv, guardas
<1>3. CASE Documentos
  BY <1>3 DEF Documentos, SolicitarAutenticacao, ApagarDesconhecida, DescarregarRetidos,
              ConsultarInformacoes, Nega, nv, guardas
<1>4. CASE Manutencao
  BY <1>4 DEF Manutencao, AtualizarSB, AtualizarCertificado, CancelarProcesso,
              PedidoInvalido, ForaDeOrdem, Nega, nv, guardas
<1>5. CASE Queda
  BY <1>5 DEF Queda, nv, guardas
<1>6. CASE UNCHANGED vars
  BY <1>6 DEF vars, nv, guardas
<1> QED
  BY <1>1, <1>2, <1>3, <1>4, <1>5, <1>6 DEF NextQueda, Pedido

\* What a step does to the working memory: nothing, a number lost, one authorisation
\* in with the next number, one out, or all out with the counter back to zero.
LEMMA EfeitoNaMemoria ==
    ASSUME TypeOK, [NextQueda]_vars
    PROVE  \/ UNCHANGED <<numDFE, contador, retidas>>
           \/ contador' = contador + 1 /\ UNCHANGED <<numDFE, retidas>>
           \/ \E h \in Resumos :
                  /\ ~Retida(h) /\ numDFE < MaxDFEModel
                  /\ retidas' = retidas \cup {AutorizacaoNova(h)}
                  /\ numDFE' = numDFE + 1 /\ contador' = contador + 1
           \/ \E a \in retidas : /\ retidas' = retidas \ {a} /\ numDFE' = numDFE - 1
                                 /\ contador' = contador
           \/ retidas' = {} /\ numDFE' = 0 /\ contador' = 0
<1>1. CASE UNCHANGED <<numDFE, contador, retidas>>
  BY <1>1
<1>2. ASSUME NEW p \in PedidosAutorizar, AutorizarDFE(p),
             ~UNCHANGED <<numDFE, contador, retidas>>
      PROVE  \/ contador' = contador + 1 /\ UNCHANGED <<numDFE, retidas>>
             \/ /\ ~Retida(p.hdf) /\ numDFE < MaxDFEModel /\ p.hdf \in Resumos
                /\ retidas' = retidas \cup {AutorizacaoNova(p.hdf)}
                /\ numDFE' = numDFE + 1 /\ contador' = contador + 1
  <2>1. p.hdf \in Resumos
    BY DEF PedidosAutorizar
  <2>2. /\ ~Retida(p.hdf) /\ contador' = contador + 1
        /\ IF p.forma = "fdf" \/ numDFE >= MaxDFEModel
           THEN UNCHANGED <<numDFE, retidas>>
           ELSE MTAdiciona(AutorizacaoNova(p.hdf))
    BY <1>2 DEF AutorizarDFE, Nega, nv, guardas
  <2> QED
    BY <2>1, <2>2, LimitesAssumption DEF MTAdiciona, TypeOK, TipoGuardas
<1>3. ASSUME NEW a \in retidas, NEW chave \in ChavesSEF \cup {ChaveZero},
             NEW legivel \in BOOLEAN, ApagarAutorizacaoRetida(a, chave, legivel),
             ~UNCHANGED <<numDFE, contador, retidas>>
      PROVE  /\ retidas' = retidas \ {a} /\ numDFE' = numDFE - 1
             /\ contador' = contador
  BY <1>3 DEF ApagarAutorizacaoRetida, MTRemove, Nega, nv, guardas
<1>4. CASE PadraoDeFabrica
  BY <1>4 DEF PadraoDeFabrica, MTReseta
<1> QED
  BY <1>1, <1>2, <1>3, <1>4, PassoDaMemoria

\* NUM_DFE follows the cardinality: what is added was not retained (its document is
\* new), what is removed was, and the limit is compared before the addition.
LEMMA ContagemPasso ==
    ASSUME TypeOK, ContagemCorreta, [NextQueda]_vars
    PROVE  ContagemCorreta'
<1> USE LimitesAssumption
<1>1. CASE UNCHANGED <<numDFE, retidas>>
  BY <1>1 DEF ContagemCorreta
<1>2. ASSUME NEW h \in Resumos, ~Retida(h), numDFE < MaxDFEModel,
             retidas' = retidas \cup {AutorizacaoNova(h)}, numDFE' = numDFE + 1
      PROVE  ContagemCorreta'
  <2>1. AutorizacaoNova(h) \notin retidas
    BY <1>2 DEF AutorizacaoNova, Retida
  <2>2. Cardinality(retidas') = Cardinality(retidas) + 1
    BY <1>2, <2>1, FS_AddElement DEF TypeOK
  <2> QED
    BY <1>2, <2>2 DEF ContagemCorreta, TypeOK, TipoGuardas
<1>3. ASSUME NEW a \in retidas, retidas' = retidas \ {a}, numDFE' = numDFE - 1
      PROVE  ContagemCorreta'
  <2>1. Cardinality(retidas') = Cardinality(retidas) - 1
    BY <1>3, FS_RemoveElement DEF TypeOK
  <2> QED
    BY <1>3, <2>1 DEF ContagemCorreta, TypeOK, TipoGuardas
<1>4. CASE retidas' = {} /\ numDFE' = 0
  BY <1>4, FS_EmptySet DEF ContagemCorreta
<1> QED
  BY <1>1, <1>2, <1>3, <1>4, EfeitoNaMemoria

\* How what is retained and the counter may change together: authorisations out, a new one
\* in with the next number, or none left.
MudancaRetida ==
    \/ retidas' \subseteq retidas /\ contador' \in {contador, contador + 1}
    \/ \E h \in Resumos : /\ ~Retida(h) /\ contador' = contador + 1
                          /\ retidas' = retidas \cup {AutorizacaoNova(h)}
    \/ retidas' = {}

\* The next number is above all of the retained ones, and its digest is new.
LEMMA NumeracaoAoMudar ==
    ASSUME TypeOK, NumeracaoUnica, MudancaRetida
    PROVE  NumeracaoUnica'
<1>1. CASE retidas' \subseteq retidas /\ contador' \in {contador, contador + 1}
  <2>1. \A a \in retidas : a.cnt \in Int /\ a.cnt <= contador
    BY LimitesAssumption DEF NumeracaoUnica, TypeOK, Autorizacoes
  <2> QED
    BY <1>1, <2>1 DEF NumeracaoUnica, TypeOK, TipoGuardas
<1>2. ASSUME NEW h \in Resumos, ~Retida(h), contador' = contador + 1,
             retidas' = retidas \cup {AutorizacaoNova(h)}
      PROVE  NumeracaoUnica'
  <2> DEFINE n == AutorizacaoNova(h)
  <2>1. n.cnt = contador + 1 /\ n.hdf = h
    BY DEF AutorizacaoNova
  <2>2. \A a \in retidas : a.cnt \in Int /\ a.cnt <= contador /\ a.hdf # h
    BY <1>2, LimitesAssumption DEF NumeracaoUnica, TypeOK, Autorizacoes, Retida
  <2>3. contador \in Int
    BY LimitesAssumption DEF TypeOK, TipoGuardas
  <2> HIDE DEF n
  <2> QED
    BY <1>2, <2>1, <2>2, <2>3 DEF NumeracaoUnica, n
<1>3. CASE retidas' = {}
  BY <1>3 DEF NumeracaoUnica
<1> QED
  BY <1>1, <1>2, <1>3 DEF MudancaRetida

\* No step of a device that may lose power between requests breaks the numbering.
LEMMA NumeracaoPasso ==
    ASSUME TypeOK, NumeracaoUnica, [NextQueda]_vars
    PROVE  NumeracaoUnica'
<1>1. CASE UNCHANGED <<numDFE, contador, retidas>>
  BY <1>1, NumeracaoAoMudar DEF MudancaRetida
<1>2. CASE contador' = contador + 1 /\ UNCHANGED <<numDFE, retidas>>
  BY <1>2, NumeracaoAoMudar DEF MudancaRetida
<1>3. CASE \E h \in Resumos :
              /\ ~Retida(h) /\ retidas' = retidas \cup {AutorizacaoNova(h)}
              /\ contador' = contador + 1
  BY <1>3, NumeracaoAoMudar DEF MudancaRetida
<1>4. CASE \E a \in retidas : retidas' = retidas \ {a} /\ contador' = contador
  BY <1>4, NumeracaoAoMudar DEF MudancaRetida
<1>5. CASE retidas' = {}
  BY <1>5, NumeracaoAoMudar DEF MudancaRetida
<1> QED
  BY <1>1, <1>2, <1>3, <1>4, <1>5, EfeitoNaMemoria

\* The inductive invariant: each of its parts needs the others.
InvRetencao == TypeOK /\ ContagemCorreta /\ NumeracaoUnica

\* It holds of a device with the factory settings.
LEMMA InvRetencaoInicial == Init => InvRetencao
<1> SUFFICES ASSUME Init PROVE InvRetencao
  OBVIOUS
<1>1. TipoGuardas
  <2>1. 0 \in 0..LimContador
    BY LimitesAssumption
  <2> QED
    BY <2>1, ChavesAssumption DEF Init, TipoGuardas
<1>2. TipoChaves /\ TipoRAM
  BY ChavesAssumption DEF Init, TipoChaves, TipoRAM
<1>3. TipoResp
  BY DEF Init, TipoResp, Codigos, Respostas
<1>4. retidas = {} /\ IsFiniteSet(retidas) /\ Cardinality(retidas) = 0
  BY FS_EmptySet DEF Init
<1>5. ContagemCorreta /\ NumeracaoUnica
  BY <1>4, LimitesAssumption DEF Init, ContagemCorreta, NumeracaoUnica
<1> QED
  BY <1>1, <1>2, <1>3, <1>4, <1>5 DEF InvRetencao, TypeOK

\* It holds in every state of a device that may lose power between requests.
LEMMA InvRetencaoSempre == SpecQueda => []InvRetencao
<1>1. InvRetencao /\ [NextQueda]_vars => InvRetencao'
  BY TipoPasso, ContagemPasso, NumeracaoPasso DEF InvRetencao
<1> QED
  BY InvRetencaoInicial, <1>1, PTL DEF SpecQueda

\* Every value that the handlers store has the type its readers expect; in
\* particular NUM_DFE, an unsigned word, is never counted down from zero.
THEOREM TipoCorreto == SpecQueda => []TypeOK
<1>1. InvRetencao => TypeOK
  BY DEF InvRetencao
<1> QED
  BY InvRetencaoSempre, <1>1, PTL

\* NUM_DFE is the number of retained authorisations, within MAX_DFE_MODEL.
THEOREM ContagemSempreCorreta == SpecQueda => []ContagemCorreta
<1>1. InvRetencao => ContagemCorreta
  BY DEF InvRetencao
<1> QED
  BY InvRetencaoSempre, <1>1, PTL

\* No document is retained twice and no counter value is retained twice.
THEOREM NumeracaoSempreUnica == SpecQueda => []NumeracaoUnica
<1>1. InvRetencao => NumeracaoUnica
  BY DEF InvRetencao
<1> QED
  BY InvRetencaoSempre, <1>1, PTL

\* A new authorisation is numbered above every number taken before, and the
\* counter goes back only when nothing is retained.
THEOREM NumeracaoSempreCrescente == SpecQueda => NumeracaoCrescente
<1> DEFINE Cresce == /\ \A a \in retidas' \ retidas : a.cnt > contador
                     /\ contador' < contador => retidas' = {}
<1>1. InvRetencao /\ [NextQueda]_vars => [Cresce]_vars
  <2> SUFFICES ASSUME InvRetencao, [NextQueda]_vars PROVE Cresce
    OBVIOUS
  <2>1. contador \in Int
    BY LimitesAssumption DEF InvRetencao, TypeOK, TipoGuardas
  <2>2. CASE contador' \in {contador, contador + 1} /\ retidas' \subseteq retidas
    BY <2>1, <2>2
  <2>3. CASE /\ contador' = contador + 1
             /\ \E h \in Resumos : retidas' = retidas \cup {AutorizacaoNova(h)}
    BY <2>1, <2>3 DEF AutorizacaoNova
  <2>4. CASE retidas' = {}
    BY <2>4
  <2> QED
    BY <2>2, <2>3, <2>4, EfeitoNaMemoria DEF InvRetencao
<1> QED
  BY InvRetencaoSempre, <1>1, PTL DEF SpecQueda, NumeracaoCrescente

-----------------------------------------------------------------------------
(* The keys of a registered device, with power cycles.                       *)

\* A process keeps the private key its registration generated: EM_PROCESSO is set
\* by Registrar, or in PRONTO, and the removal that erases the keys clears it.
InvChaves == /\ TypeOK /\ RegistradoTemChaves
             /\ emProcesso => chavePriv # ChaveZero

\* The requests about registration keep it.
LEMMA ChavesNoRegistro ==
    ASSUME InvChaves, Registro
    PROVE  RegistradoTemChaves' /\ (emProcesso => chavePriv # ChaveZero)'
<1> USE ChavesAssumption DEF InvChaves, RegistradoTemChaves
<1>1. ASSUME NEW t \in TokensES, NEW k \in ChavesDAF, NEW falha \in BOOLEAN,
             Registrar(t, k, falha)
      PROVE  RegistradoTemChaves' /\ (emProcesso => chavePriv # ChaveZero)'
  BY <1>1 DEF Registrar, ResRegistrar, Nega, nv, guardas, chaves
<1>2. ASSUME NEW t \in TokensES, NEW chs \in ChavesSEF \cup {ChaveZero},
             NEW chp \in ChavesPAF \cup {ChaveZero}, NEW mop \in Modos,
             ConfirmarRegistro(t, chs, chp, mop)
      PROVE  RegistradoTemChaves' /\ (emProcesso => chavePriv # ChaveZero)'
  BY <1>2 DEF ConfirmarRegistro, ResConfirmarRegistro, Nega, nv, guardas, chaves
<1>3. ASSUME NEW t \in TokensES, NEW n \in Nonces, NEW falha \in BOOLEAN,
             RemoverRegistro(t, n, falha)
      PROVE  RegistradoTemChaves' /\ (emProcesso => chavePriv # ChaveZero)'
  BY <1>3 DEF RemoverRegistro, ResRemoverRegistro, Nega, nv, guardas, chaves
<1>4. ASSUME NEW t \in TokensES, ConfirmarRemocao(t)
      PROVE  RegistradoTemChaves' /\ (emProcesso => chavePriv # ChaveZero)'
  BY <1>4 DEF ConfirmarRemocao, Nega, nv, guardas, chaves
<1> QED
  BY <1>1, <1>2, <1>3, <1>4 DEF Registro

\* So do all the others.
LEMMA ChavesPasso ==
    ASSUME InvChaves, [NextQueda]_vars
    PROVE  RegistradoTemChaves' /\ (emProcesso => chavePriv # ChaveZero)'
<1> USE DEF InvChaves, RegistradoTemChaves
<1>1. CASE Registro
  BY <1>1, ChavesNoRegistro
<1>2. CASE Modo
  BY <1>2 DEF Modo, AlterarModo, ResAlterarModo, ConfirmarAlterarModo, Nega, nv, guardas, chaves
<1>3. CASE Documentos
  <2>1. ASSUME NEW p \in PedidosAutorizar, AutorizarDFE(p)
        PROVE  /\ UNCHANGED <<emProcesso, regOK, chaves>>
               /\ estado' = estado \/ estado = PRONTO
    BY <2>1 DEF AutorizarDFE, ResAutorizar, Nega, nv, guardas
  <2>2. ASSUME NEW a \in retidas, NEW chave \in ChavesSEF \cup {ChaveZero},
               NEW legivel \in BOOLEAN, ApagarAutorizacaoRetida(a, chave, legivel)
        PROVE  /\ UNCHANGED <<emProcesso, regOK, chaves>>
               /\ estado' = estado \/ estado \in {PRONTO, BLOQUEADO}
    BY <2>2 DEF ApagarAutorizacaoRetida, ResApagar, ComAutorizacoes, Nega, nv, guardas
  <2>3. CASE UNCHANGED nv
    BY <2>3 DEF nv, guardas, chaves
  <2>4. \/ UNCHANGED nv
        \/ \E p \in PedidosAutorizar : AutorizarDFE(p)
        \/ \E a \in retidas, chave \in ChavesSEF \cup {ChaveZero}, legivel \in BOOLEAN :
               ApagarAutorizacaoRetida(a, chave, legivel)
    BY <1>3 DEF Documentos, SolicitarAutenticacao, ApagarDesconhecida, DescarregarRetidos,
                ConsultarInformacoes, Nega
  <2> QED
    BY <2>1, <2>2, <2>3, <2>4 DEF chaves
<1>4. CASE Manutencao
  BY <1>4 DEF Manutencao, AtualizarSB, AtualizarCertificado, CancelarProcesso, PadraoDeFabrica,
              PedidoInvalido, ForaDeOrdem, Nega, nv, guardas, chaves
<1>5. CASE Queda \/ UNCHANGED vars
  BY <1>5 DEF Queda, vars, nv, guardas, chaves
<1> QED
  BY <1>1, <1>2, <1>3, <1>4, <1>5 DEF NextQueda, Pedido

\* Whatever confirmations a power cycle lets through, a device outside INATIVO is
\* registered and holds its three keys.
THEOREM RegistradoSempreTemChaves == SpecQueda => []RegistradoTemChaves
<1>1. Init => InvChaves
  <2>1. Init => TypeOK
    BY InvRetencaoInicial DEF InvRetencao
  <2> QED
    BY <2>1 DEF Init, InvChaves, RegistradoTemChaves
<1>2. InvChaves /\ TypeOK' /\ [NextQueda]_vars => InvChaves'
  BY ChavesPasso DEF InvChaves
<1>3. InvChaves => RegistradoTemChaves
  BY DEF InvChaves
<1> QED
  BY TipoCorreto, <1>1, <1>2, <1>3, PTL DEF SpecQueda

-----------------------------------------------------------------------------
(* A device that stays powered: what the second messages rely on.            *)

\* The inductive invariant: what is retained, coherently with the process, the state,
\* the keys and the mode, and a history that agrees with last_msg.
InvLigado == /\ InvRetencao
             /\ ProcessoCoerente /\ InativoNaoRetem
             /\ BloqueioCoerente /\ RetidasDoRegistroAtual
             /\ emProcesso => iniciado = lastMsg

\* While a process is open the gate lets through its second message, a cancellation
\* and nothing else that changes the device.
LEMMA PassoEmProcesso ==
    ASSUME ProcessoCoerente, emProcesso, [Next]_vars
    PROVE  \/ UNCHANGED <<nv, lastMsg, iniciado>>
           \/ CancelarProcesso
           \/ /\ lastMsg = REGISTRAR
              /\ \E t \in TokensES, chs \in ChavesSEF \cup {ChaveZero},
                    chp \in ChavesPAF \cup {ChaveZero}, mop \in Modos :
                       ConfirmarRegistro(t, chs, chp, mop)
           \/ lastMsg = REMOVER /\ \E t \in TokensES : ConfirmarRemocao(t)
           \/ lastMsg = ALTERAR_MODO /\ \E t \in TokensHS, mop \in Modos : ConfirmarAlterarModo(t, mop)
<1>1. /\ Barrado(REGISTRAR) /\ Barrado(REMOVER) /\ Barrado(ALTERAR_MODO)
      /\ Barrado(SOLICITAR) /\ Barrado(AUTORIZAR) /\ Barrado(APAGAR)
      /\ Barrado(DESCARREGAR) /\ Barrado(CONSULTAR) /\ Barrado(ATUALIZAR_SB)
      /\ Barrado(ATUALIZAR_CERTIFICADO) /\ Barrado(PADRAO_DE_FABRICA)
  BY DEF Barrado, ProcessoCoerente, Seguinte
<1>2. /\ ~Barrado(CONFIRMAR_REGISTRO) => lastMsg = REGISTRAR
      /\ ~Barrado(CONFIRMAR_REMOCAO) => lastMsg = REMOVER
      /\ ~Barrado(CONFIRMAR_MODO) => lastMsg = ALTERAR_MODO
  BY DEF Barrado, ProcessoCoerente, Seguinte
<1>3. CASE Registro
  <2>1. ASSUME NEW t \in TokensES, NEW chs \in ChavesSEF \cup {ChaveZero},
               NEW chp \in ChavesPAF \cup {ChaveZero}, NEW mop \in Modos,
               ConfirmarRegistro(t, chs, chp, mop)
        PROVE  lastMsg = REGISTRAR
    BY <1>2, <2>1 DEF ConfirmarRegistro
  <2>2. ASSUME NEW t \in TokensES, ConfirmarRemocao(t)
        PROVE  lastMsg = REMOVER
    BY <1>2, <2>2 DEF ConfirmarRemocao
  <2>3. ASSUME NEW t, NEW k, NEW falha, Registrar(t, k, falha)
        PROVE  ~Barrado(REGISTRAR)
    BY <2>3 DEF Registrar
  <2>4. ASSUME NEW t, NEW n, NEW falha, RemoverRegistro(t, n, falha)
        PROVE  ~Barrado(REMOVER)
    BY <2>4 DEF RemoverRegistro
  <2> QED
    BY <1>1, <1>3, <2>1, <2>2, <2>3, <2>4 DEF Registro
<1>4. CASE Modo
  BY <1>1, <1>2, <1>4 DEF Modo, AlterarModo, ConfirmarAlterarModo
<1>5. CASE Documentos
  <2>1. \A n \in Nonces, falha \in BOOLEAN : ~SolicitarAutenticacao(n, falha)
    BY <1>1 DEF SolicitarAutenticacao
  <2>2. ASSUME NEW p, AutorizarDFE(p)
        PROVE  ~Barrado(AUTORIZAR)
    BY <2>2 DEF AutorizarDFE
  <2>3. ASSUME NEW a, NEW chave, NEW legivel, ApagarAutorizacaoRetida(a, chave, legivel)
        PROVE  ~Barrado(APAGAR)
    BY <2>3 DEF ApagarAutorizacaoRetida
  <2>4. ~ApagarDesconhecida /\ ~ConsultarInformacoes
    BY <1>1 DEF ApagarDesconhecida, ConsultarInformacoes
  <2>5. \A encontrada, falha \in BOOLEAN : ~DescarregarRetidos(encontrada, falha)
    BY <1>1 DEF DescarregarRetidos
  <2> QED
    BY <1>1, <1>5, <2>1, <2>2, <2>3, <2>4, <2>5 DEF Documentos
<1>6. CASE Manutencao
  <2>1. ASSUME AtualizarSB PROVE ~Barrado(ATUALIZAR_SB)
    BY <2>1 DEF AtualizarSB
  <2>4. ASSUME PadraoDeFabrica PROVE ~Barrado(PADRAO_DE_FABRICA)
    BY <2>4 DEF PadraoDeFabrica
  <2>2. \A k, grande, legivel : ~AtualizarCertificado(k, grande, legivel)
    BY <1>1 DEF AtualizarCertificado
  <2>3. PedidoInvalido \/ (\E c \in Codigos : ForaDeOrdem(c)) => UNCHANGED <<nv, lastMsg, iniciado>>
    BY DEF PedidoInvalido, ForaDeOrdem, Nega
  <2> QED
    BY <1>1, <1>6, <2>1, <2>2, <2>3, <2>4 DEF Manutencao
<1>7. CASE UNCHANGED vars
  BY <1>7 DEF vars
<1> QED
  BY <1>3, <1>4, <1>5, <1>6, <1>7 DEF Next, Pedido

\* In an open process: a confirmation ends it in the situation its first message
\* checked, with nothing retained that a new key or mode could disagree with.
LEMMA LigadoEmProcesso ==
    ASSUME InvLigado, emProcesso, [Next]_vars
    PROVE  /\ ProcessoCoerente' /\ InativoNaoRetem' /\ BloqueioCoerente'
           /\ RetidasDoRegistroAtual' /\ (emProcesso => iniciado = lastMsg)'
<1> USE DEF InvLigado
<1> DEFINE Quer == /\ ProcessoCoerente' /\ InativoNaoRetem' /\ BloqueioCoerente'
                   /\ RetidasDoRegistroAtual' /\ (emProcesso => iniciado = lastMsg)'
<1>1. retidas = {} /\ Cardinality(retidas) = 0 /\ Cardinality(retidas) < MaxDFE
  BY FS_EmptySet, LimitesAssumption DEF ProcessoCoerente, InativoNaoRetem
<1>2. CASE UNCHANGED <<nv, lastMsg, iniciado>>
  BY <1>2 DEF nv, guardas, chaves, ProcessoCoerente, InativoNaoRetem, BloqueioCoerente,
              RetidasDoRegistroAtual
<1>3. CASE CancelarProcesso
  BY <1>3 DEF CancelarProcesso, Nega, nv, guardas, chaves, ProcessoCoerente, InativoNaoRetem,
              BloqueioCoerente, RetidasDoRegistroAtual
<1>4. ASSUME NEW t \in TokensES, NEW chs \in ChavesSEF \cup {ChaveZero},
             NEW chp \in ChavesPAF \cup {ChaveZero}, NEW mop \in Modos,
             ConfirmarRegistro(t, chs, chp, mop)
      PROVE  Quer
  <2>1. UNCHANGED retidas
    BY <1>4 DEF ConfirmarRegistro, Nega, nv
  <2>2. InativoNaoRetem' /\ RetidasDoRegistroAtual'
    BY <1>1, <2>1 DEF InativoNaoRetem, RetidasDoRegistroAtual
  <2>3. /\ estado' \in {estado, PRONTO}
        /\ ~emProcesso' \/ UNCHANGED <<estado, emProcesso, lastMsg, iniciado>>
    BY <1>4 DEF ConfirmarRegistro, Nega, nv, guardas
  <2>4. ProcessoCoerente' /\ (emProcesso => iniciado = lastMsg)'
    BY <2>1, <2>3 DEF ProcessoCoerente
  <2>5. estado # BLOQUEADO
    BY DEF ProcessoCoerente
  <2>6. BloqueioCoerente'
    BY <1>1, <2>1, <2>3, <2>5 DEF BloqueioCoerente
  <2> QED
    BY <2>2, <2>4, <2>6
<1>5. ASSUME NEW t \in TokensES, ConfirmarRemocao(t)
      PROVE  Quer
  <2>1. UNCHANGED retidas
    BY <1>5 DEF ConfirmarRemocao, Nega, nv
  <2>2. InativoNaoRetem' /\ RetidasDoRegistroAtual'
    BY <1>1, <2>1 DEF InativoNaoRetem, RetidasDoRegistroAtual
  <2>3. /\ estado' \in {estado, INATIVO}
        /\ ~emProcesso' \/ UNCHANGED <<estado, emProcesso, lastMsg, iniciado>>
    BY <1>5 DEF ConfirmarRemocao, Nega, nv, guardas
  <2>4. ProcessoCoerente' /\ (emProcesso => iniciado = lastMsg)'
    BY <2>1, <2>3 DEF ProcessoCoerente
  <2>5. BloqueioCoerente'
    BY <1>1, <2>1, <2>3 DEF BloqueioCoerente
  <2> QED
    BY <2>2, <2>4, <2>5
<1>6. ASSUME NEW t \in TokensHS, NEW mop \in Modos, ConfirmarAlterarModo(t, mop)
      PROVE  Quer
  BY <1>1, <1>6 DEF ConfirmarAlterarModo, Nega, nv, guardas, chaves, ProcessoCoerente, InativoNaoRetem,
              BloqueioCoerente, RetidasDoRegistroAtual
<1> QED
  BY <1>2, <1>3, <1>4, <1>5, <1>6, PassoEmProcesso

\* AutorizarDFE: the new authorisation takes the key and mode in force, and the
\* device blocks with the one that reaches MAX_DFE.
LEMMA LigadoAutorizar ==
    ASSUME InvLigado, InvRetencao', ~emProcesso, NEW p \in PedidosAutorizar, AutorizarDFE(p)
    PROVE  /\ ~emProcesso' /\ InativoNaoRetem' /\ BloqueioCoerente'
           /\ RetidasDoRegistroAtual'
<1> USE DEF InvLigado
<1>1. CASE UNCHANGED <<estado, emProcesso, chaves, modo, retidas>>
  BY <1>1 DEF chaves, InativoNaoRetem, BloqueioCoerente, RetidasDoRegistroAtual
<1>2. CASE ~UNCHANGED <<estado, emProcesso, chaves, modo, retidas>>
  <2>1. /\ estado = PRONTO /\ UNCHANGED <<emProcesso, chaves, modo>>
        /\ retidas' = retidas \cup {AutorizacaoNova(p.hdf)}
        /\ numDFE' = numDFE + 1 /\ estado' = EstadoCom(numDFE + 1)
    BY <1>2 DEF AutorizarDFE, ResAutorizar, MTAdiciona, Nega, nv, guardas
  <2>2. ~emProcesso' /\ InativoNaoRetem'
    BY <2>1 DEF EstadoCom, InativoNaoRetem
  <2>3. Cardinality(retidas') = numDFE + 1 /\ numDFE + 1 \in Nat
    BY <2>1 DEF InvRetencao, ContagemCorreta, TypeOK, TipoGuardas
  <2>4. BloqueioCoerente'
    <3>1. numDFE < MaxDFE
      BY <2>1 DEF BloqueioCoerente, InvRetencao, ContagemCorreta
    <3>2. estado' = BLOQUEADO <=> numDFE + 1 = MaxDFE
      BY <2>1, <2>3, <3>1, LimitesAssumption DEF EstadoCom, InvRetencao, TypeOK, TipoGuardas
    <3> QED
      BY <2>1, <2>3, <3>1, <3>2, LimitesAssumption DEF EstadoCom, BloqueioCoerente,
         InvRetencao, TypeOK, TipoGuardas
  <2>5. RetidasDoRegistroAtual'
    BY <2>1 DEF AutorizacaoNova, RetidasDoRegistroAtual, chaves
  <2> QED
    BY <2>2, <2>4, <2>5
<1> QED
  BY <1>1, <1>2

\* ApagarAutorizacaoRetida writes PRONTO without comparing: one fewer than MAX_DFE
\* must be retained, which holds because no more than MAX_DFE were before.
LEMMA LigadoApagar ==
    ASSUME InvLigado, InvRetencao', ~emProcesso,
           NEW a \in retidas, NEW chave \in ChavesSEF \cup {ChaveZero},
           NEW legivel \in BOOLEAN, ApagarAutorizacaoRetida(a, chave, legivel)
    PROVE  /\ ~emProcesso' /\ InativoNaoRetem' /\ BloqueioCoerente'
           /\ RetidasDoRegistroAtual'
<1> USE DEF InvLigado
<1>1. CASE UNCHANGED nv
  BY <1>1 DEF nv, guardas, chaves, InativoNaoRetem, BloqueioCoerente, RetidasDoRegistroAtual
<1>2. CASE ~UNCHANGED nv
  <2>1. /\ UNCHANGED <<emProcesso, chaves, modo>> /\ estado' = PRONTO
        /\ retidas' = retidas \ {a} /\ numDFE' = numDFE - 1
    BY <1>2 DEF ApagarAutorizacaoRetida, MTRemove, Nega
  <2>2. Cardinality(retidas') = numDFE - 1 /\ numDFE \in Nat
    BY <2>1 DEF InvRetencao, ContagemCorreta, TypeOK, TipoGuardas
  <2>3. numDFE <= MaxDFE
    BY <2>2, LimitesAssumption DEF InvRetencao, ContagemCorreta, TypeOK, TipoGuardas,
       BloqueioCoerente, InativoNaoRetem
  <2>4. BloqueioCoerente' /\ InativoNaoRetem'
    BY <2>1, <2>2, <2>3, LimitesAssumption DEF BloqueioCoerente, InativoNaoRetem
  <2>5. RetidasDoRegistroAtual'
    BY <2>1 DEF RetidasDoRegistroAtual, chaves
  <2> QED
    BY <2>1, <2>4, <2>5
<1> QED
  BY <1>1, <1>2
\* Outside a process: the first messages check what a confirmation will rely on, and
\* only AutorizarDFE and ApagarAutorizacaoRetida change what is retained.
LEMMA LigadoForaDeProcesso ==
    ASSUME InvLigado, InvRetencao', ~emProcesso, [Next]_vars
    PROVE  /\ ProcessoCoerente' /\ InativoNaoRetem' /\ BloqueioCoerente'
           /\ RetidasDoRegistroAtual' /\ (emProcesso => iniciado = lastMsg)'
<1> USE DEF InvLigado
<1> DEFINE Processo == ProcessoCoerente' /\ (emProcesso => iniciado = lastMsg)'
           Retencao == InativoNaoRetem' /\ BloqueioCoerente' /\ RetidasDoRegistroAtual'
<1>1. ASSUME UNCHANGED <<estado, retidas, chaveSEF, modo>>
      PROVE  Retencao
  BY <1>1 DEF InativoNaoRetem, BloqueioCoerente, RetidasDoRegistroAtual
<1>2. ASSUME ~emProcesso'
      PROVE  Processo
  BY <1>2 DEF ProcessoCoerente
<1>3. ASSUME NEW t \in TokensES, NEW k \in ChavesDAF, NEW falha \in BOOLEAN,
             Registrar(t, k, falha)
      PROVE  Processo /\ Retencao
  <2>1. UNCHANGED <<estado, retidas, chaveSEF, modo>>
    BY <1>3 DEF Registrar, Nega, nv, guardas, chaves
  <2>2. ~emProcesso' \/ (estado' = INATIVO /\ lastMsg' = REGISTRAR /\ iniciado' = REGISTRAR)
    BY <1>3 DEF Registrar, ResRegistrar, Nega, nv, guardas
  <2> QED
    BY <1>1, <1>2, <2>1, <2>2 DEF ProcessoCoerente
<1>4. ASSUME NEW t \in TokensES, NEW n \in Nonces, NEW falha \in BOOLEAN,
             RemoverRegistro(t, n, falha)
      PROVE  Processo /\ Retencao
  <2>1. UNCHANGED <<estado, retidas, chaveSEF, modo>>
    BY <1>4 DEF RemoverRegistro, Nega, nv, guardas, chaves
  <2>2. ~emProcesso' \/ (/\ estado = PRONTO /\ ~(numDFE > 0)
                        /\ lastMsg' = REMOVER /\ iniciado' = REMOVER)
    BY <1>4 DEF RemoverRegistro, ResRemoverRegistro, Nega, nv, guardas
  <2>3. ~(numDFE > 0) => retidas = {}
    BY FS_EmptySet DEF InvRetencao, TypeOK, TipoGuardas, ContagemCorreta
  <2> QED
    BY <1>1, <1>2, <2>1, <2>2, <2>3 DEF ProcessoCoerente
<1>5. ASSUME NEW t \in TokensHS, NEW falha \in BOOLEAN, AlterarModo(t, falha)
      PROVE  Processo /\ Retencao
  <2>1. UNCHANGED <<estado, retidas, chaveSEF, modo>>
    BY <1>5 DEF AlterarModo, Nega, nv, guardas, chaves
  <2>2. ~emProcesso' \/ (/\ estado = PRONTO /\ ~(numDFE > 0)
                        /\ lastMsg' = ALTERAR_MODO /\ iniciado' = ALTERAR_MODO)
    BY <1>5 DEF AlterarModo, ResAlterarModo, Nega, nv, guardas
  <2>3. ~(numDFE > 0) => retidas = {}
    BY FS_EmptySet DEF InvRetencao, TypeOK, TipoGuardas, ContagemCorreta
  <2> QED
    BY <1>1, <1>2, <2>1, <2>2, <2>3 DEF ProcessoCoerente
<1>6. ASSUME UNCHANGED nv
      PROVE  Processo /\ Retencao
  BY <1>1, <1>2, <1>6 DEF nv, guardas, chaves
<1>7. CASE Registro
  <2>1. ASSUME NEW t \in TokensES, NEW chs \in ChavesSEF \cup {ChaveZero},
               NEW chp \in ChavesPAF \cup {ChaveZero}, NEW mop \in Modos,
               ConfirmarRegistro(t, chs, chp, mop)
        PROVE  UNCHANGED nv
    BY <2>1 DEF ConfirmarRegistro, ResConfirmarRegistro, Nega
  <2>2. ASSUME NEW t \in TokensES, ConfirmarRemocao(t)
        PROVE  UNCHANGED nv
    BY <2>2 DEF ConfirmarRemocao, ResConfirmarRemocao, Nega
  <2> QED
    BY <1>3, <1>4, <1>6, <1>7, <2>1, <2>2 DEF Registro
<1>8. CASE Modo
  <2>1. ASSUME NEW t \in TokensHS, NEW mop \in Modos, ConfirmarAlterarModo(t, mop)
        PROVE  UNCHANGED nv
    BY <2>1 DEF ConfirmarAlterarModo, ResConfirmarModo, Nega
  <2> QED
    BY <1>5, <1>6, <1>8, <2>1 DEF Modo
<1>9. CASE Documentos
  <2>1. \/ UNCHANGED nv
        \/ \E p \in PedidosAutorizar : AutorizarDFE(p)
        \/ \E a \in retidas, chave \in ChavesSEF \cup {ChaveZero}, legivel \in BOOLEAN :
               ApagarAutorizacaoRetida(a, chave, legivel)
    BY <1>9 DEF Documentos, SolicitarAutenticacao, ApagarDesconhecida, DescarregarRetidos,
                ConsultarInformacoes, Nega
  <2> QED
    BY <1>2, <1>6, <2>1, LigadoAutorizar, LigadoApagar
<1>10. CASE Manutencao
  <2>1. CASE PadraoDeFabrica
    <3>1. estado' = INATIVO /\ retidas' = {} /\ ~emProcesso'
      BY <2>1 DEF PadraoDeFabrica, MTReseta
    <3> QED
      BY <1>2, <3>1 DEF InativoNaoRetem, BloqueioCoerente, RetidasDoRegistroAtual
  <2>2. CASE ~PadraoDeFabrica
    <3>1. ~emProcesso' /\ UNCHANGED <<estado, retidas, chaveSEF, modo>>
      BY <1>10, <2>2 DEF Manutencao, AtualizarSB, AtualizarCertificado, CancelarProcesso,
         PedidoInvalido, ForaDeOrdem, Nega, nv, guardas, chaves
    <3> QED
      BY <1>1, <1>2, <3>1
  <2> QED
    BY <2>1, <2>2
<1>11. CASE UNCHANGED vars
  BY <1>6, <1>11 DEF vars
<1> QED
  BY <1>7, <1>8, <1>9, <1>10, <1>11 DEF Next, Pedido

\* It holds in every state of a device that stays powered.
LEMMA InvLigadoSempre == Spec => []InvLigado
<1>1. Init => InvLigado
  BY InvRetencaoInicial, LimitesAssumption, FS_EmptySet
  DEF Init, InvLigado, ProcessoCoerente, InativoNaoRetem, BloqueioCoerente, RetidasDoRegistroAtual
<1>2. InvLigado /\ [Next]_vars => InvLigado'
  <2> SUFFICES ASSUME InvLigado, [Next]_vars PROVE InvLigado'
    OBVIOUS
  <2>1. InvRetencao'
    BY TipoPasso, ContagemPasso, NumeracaoPasso DEF InvLigado, InvRetencao, Next, NextQueda
  <2> QED
    BY <2>1, LigadoEmProcesso, LigadoForaDeProcesso DEF InvLigado
<1> QED
  BY <1>1, <1>2, PTL DEF Spec

\* While EM_PROCESSO is set the device is where the first message found it.
THEOREM ProcessoSempreCoerente == Spec => []ProcessoCoerente
<1>1. InvLigado => ProcessoCoerente
  BY DEF InvLigado
<1> QED
  BY InvLigadoSempre, <1>1, PTL

\* A device without registration retains nothing.
THEOREM InativoNuncaRetem == Spec => []InativoNaoRetem
<1>1. InvLigado => InativoNaoRetem
  BY DEF InvLigado
<1> QED
  BY InvLigadoSempre, <1>1, PTL

\* BLOQUEADO means MAX_DFE retained documents, PRONTO fewer.
THEOREM BloqueioSempreCoerente == Spec => []BloqueioCoerente
<1>1. InvLigado => BloqueioCoerente
  BY DEF InvLigado
<1> QED
  BY InvLigadoSempre, <1>1, PTL

\* The SEF can always release what the device retains: the key did not change.
THEOREM RetidasSempreDoRegistroAtual == Spec => []RetidasDoRegistroAtual
<1>1. InvLigado => RetidasDoRegistroAtual
  BY DEF InvLigado
<1> QED
  BY InvLigadoSempre, <1>1, PTL

\* A confirmation answers SUCESSO only past the gate and with EM_PROCESSO set; no
\* other request answers under its code.
LEMMA RespostaDeConfirmacao ==
    ASSUME Next, resp'.res = "SUCESSO",
           resp'.cod \in {CONFIRMAR_REGISTRO, CONFIRMAR_REMOCAO, CONFIRMAR_MODO}
    PROVE  emProcesso /\ ~Barrado(resp'.cod)
<1> USE DEF Nega, Responde
<1>1. CASE Registro
  <2>1. ASSUME NEW t, NEW k, NEW falha, Registrar(t, k, falha)
        PROVE  resp'.cod = REGISTRAR
    BY <2>1 DEF Registrar
  <2>2. ASSUME NEW t, NEW n, NEW falha, RemoverRegistro(t, n, falha)
        PROVE  resp'.cod = REMOVER
    BY <2>2 DEF RemoverRegistro
  <2>3. ASSUME NEW t, NEW chs, NEW chp, NEW mop, ConfirmarRegistro(t, chs, chp, mop)
        PROVE  emProcesso /\ ~Barrado(resp'.cod)
    BY <2>3 DEF ConfirmarRegistro, ResConfirmarRegistro
  <2>4. ASSUME NEW t, ConfirmarRemocao(t)
        PROVE  emProcesso /\ ~Barrado(resp'.cod)
    BY <2>4 DEF ConfirmarRemocao, ResConfirmarRemocao
  <2> QED
    BY <1>1, <2>1, <2>2, <2>3, <2>4 DEF Registro
<1>2. CASE Modo
  <2>1. ASSUME NEW t, NEW falha, AlterarModo(t, falha)
        PROVE  resp'.cod = ALTERAR_MODO
    BY <2>1 DEF AlterarModo
  <2>2. ASSUME NEW t, NEW mop, ConfirmarAlterarModo(t, mop)
        PROVE  emProcesso /\ ~Barrado(resp'.cod)
    BY <2>2 DEF ConfirmarAlterarModo, ResConfirmarModo
  <2> QED
    BY <1>2, <2>1, <2>2 DEF Modo
<1>3. CASE Documentos
  <2>1. ASSUME NEW p, AutorizarDFE(p)
        PROVE  resp'.cod = AUTORIZAR
    BY <2>1 DEF AutorizarDFE
  <2>2. ASSUME NEW a, NEW chave, NEW legivel, ApagarAutorizacaoRetida(a, chave, legivel)
        PROVE  resp'.cod = APAGAR
    BY <2>2 DEF ApagarAutorizacaoRetida
  <2>3. resp'.cod \in {SOLICITAR, AUTORIZAR, APAGAR, DESCARREGAR, CONSULTAR}
    BY <1>3, <2>1, <2>2 DEF Documentos, SolicitarAutenticacao, ApagarDesconhecida,
       DescarregarRetidos, ConsultarInformacoes
  <2> QED
    BY <2>3
<1>4. CASE Manutencao
  <2>1. resp'.cod \in {0, ATUALIZAR_SB, ATUALIZAR_CERTIFICADO, CANCELAR, PADRAO_DE_FABRICA}
    BY <1>4 DEF Manutencao, AtualizarSB, AtualizarCertificado, CancelarProcesso,
       PadraoDeFabrica, PedidoInvalido, ForaDeOrdem
  <2> QED
    BY <2>1
<1> QED
  BY <1>1, <1>2, <1>3, <1>4 DEF Next, Pedido

\* A confirmation that succeeds is the second message of the process of its own kind
\* that was started and neither cancelled nor ended.
THEOREM ConfirmacaoSempreDoProcessoIniciado == Spec => ConfirmacaoDoProcessoIniciado
<1> DEFINE Confirma == resp'.res = "SUCESSO" =>
                          /\ resp'.cod = CONFIRMAR_REGISTRO => iniciado = REGISTRAR
                          /\ resp'.cod = CONFIRMAR_REMOCAO  => iniciado = REMOVER
                          /\ resp'.cod = CONFIRMAR_MODO     => iniciado = ALTERAR_MODO
<1>1. InvLigado /\ [Next]_vars => [Confirma]_vars
  <2> SUFFICES ASSUME InvLigado, Next PROVE Confirma
    OBVIOUS
  <2>1. ASSUME resp'.res = "SUCESSO",
               resp'.cod \in {CONFIRMAR_REGISTRO, CONFIRMAR_REMOCAO, CONFIRMAR_MODO}
        PROVE  /\ iniciado \in {REGISTRAR, REMOVER, ALTERAR_MODO}
               /\ resp'.cod = Seguinte(iniciado)
    <3>1. emProcesso /\ ~Barrado(resp'.cod)
      BY <2>1, RespostaDeConfirmacao
    <3> QED
      BY <2>1, <3>1 DEF InvLigado, ProcessoCoerente, Barrado
  <2> QED
    BY <2>1 DEF Seguinte
<1> QED
  BY InvLigadoSempre, <1>1, PTL DEF Spec, ConfirmacaoDoProcessoIniciado

=============================================================================
