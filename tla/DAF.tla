-------------------------------- MODULE DAF --------------------------------
(***************************************************************************)
(* The application layer of the fiscal authorising device (src/src/daf.cpp)*)
(* as a state machine over its non-volatile memory.                        *)
(*                                                                         *)
(* main.cpp runs one loop: it takes one JSON request, calls processaPedido *)
(* and sends the answer before it reads the next request, so every handler *)
(* is one action.  The PAF (point-of-sale program) and the SEF (tax office)*)
(* are the environment: any request may arrive in any order, repeated or   *)
(* late.  MemoriaSegura (NVSRAM) survives a power cycle, the members of    *)
(* the DAF object (last_msg, nonce) do not; Queda is a power cycle between *)
(* two requests.  MemoriaDeTrabalho is seen here through its public        *)
(* functions only; module MemoriaDeTrabalho models its sectors.            *)
(***************************************************************************)
EXTENDS Integers, FiniteSets

CONSTANTS
    MaxDFE,       \* guard MAX_DFE: the DAF blocks at this number of retained documents
    MaxDFEModel,  \* guard MAX_DFE_MODEL: what the working memory accepts
    LimContador,  \* bound of the model: authorisations numbered before a factory reset
    ChavesSEF,    \* keys the SEF may give the device (chave_SEF)
    ChavesPAF,    \* keys it may share with the PAF (chave_PAF)
    ChavesDAF,    \* private keys gera_chave_ECC may return (chave_priv)
    ChavesCert,   \* public keys that may be stored as chave_do_certificado
    CertFabrica,  \* the one that PADRAO_DE_FABRICA stores
    ChaveZero,    \* an all-zero key: never written, or erased by a removal
    Modos,        \* operation modes the SEF may set (mop)
    Nonces,       \* values of the challenge
    Resumos       \* digests of fiscal documents (hdf)

ASSUME LimitesAssumption ==
    /\ MaxDFE \in Nat \ {0}
    /\ MaxDFEModel \in Nat
    /\ MaxDFE <= MaxDFEModel
    /\ LimContador \in Nat

ASSUME ChavesAssumption ==
    /\ ChaveZero \notin ChavesSEF \cup ChavesPAF \cup ChavesDAF
    /\ CertFabrica \in ChavesCert
    /\ 0 \in Modos

\* States of daf.h (4 and 5 exist in the type and are never assigned)
INATIVO   == 1
PRONTO    == 2
BLOQUEADO == 3

\* Request codes (MensagensDAF)
REGISTRAR             == 1
CONFIRMAR_REGISTRO    == 2
SOLICITAR             == 3
AUTORIZAR             == 4
APAGAR                == 5
REMOVER               == 6
CONFIRMAR_REMOCAO     == 7
CONSULTAR             == 8
ATUALIZAR_SB          == 9
ATUALIZAR_CERTIFICADO == 10
DESCARREGAR           == 11
ALTERAR_MODO          == 12
CONFIRMAR_MODO        == 13
CANCELAR              == 14
PADRAO_DE_FABRICA     == 9999
Codigos == 1..14 \cup {PADRAO_DE_FABRICA}

\* What the PAF reads as "res".  FALHA is the status with which processaPedido
\* makes main send nothing, VAZIA an answer without "res".
Respostas == {"SUCESSO", "ESTADO_INCORRETO", "PEDIDO_MAL_FORMADO",
              "ASSINATURA_INVALIDA", "PAF_DESCONHECIDO",
              "HMAC_NAO_CORRESPONDENTE", "AUTORIZACAO_NAO_ENCONTRADA",
              "AUTORIZACAO_RETIDA", "FALHA", "VAZIA"}

VARIABLES
    estado, emProcesso, regOK, numDFE,        \* guards in NVSRAM
    contador, modo,                           \* counter and operation mode in NVSRAM
    chaveSEF, chavePAF, chavePriv, chaveCert, \* keys in NVSRAM
    retidas,                                  \* authorisations in the working memory
    lastMsg, nonce,                           \* members of the DAF object, in RAM
    resp,                                     \* last answer
    iniciado                                  \* history: process started and not ended

guardas == <<estado, emProcesso, regOK, numDFE>>
chaves  == <<chaveSEF, chavePAF, chavePriv, chaveCert>>
nv      == <<guardas, contador, modo, chaves, retidas>>
vars    == <<nv, lastMsg, nonce, resp, iniciado>>

\* An authorisation keeps what identifies it (idAut is the HMAC, under the SEF
\* key, of counter and document) and the mode it was given in.
Autorizacoes == [chave : ChavesSEF \cup {ChaveZero}, cnt : 1..LimContador,
                 hdf : Resumos, mop : Modos]

\* A JWT: the key it was signed with and whether it parses ("token": not a JWT,
\* "json": payload is not JSON, "campos": a field is missing or out of range)
Formas == {"ok", "token", "json", "campos"}

TipoGuardas ==
    /\ estado \in {INATIVO, PRONTO, BLOQUEADO}
    /\ emProcesso \in BOOLEAN /\ regOK \in BOOLEAN
    /\ numDFE \in Nat /\ contador \in 0..LimContador /\ modo \in Modos

TipoChaves ==
    /\ chaveSEF \in ChavesSEF \cup {ChaveZero}
    /\ chavePAF \in ChavesPAF \cup {ChaveZero}
    /\ chavePriv \in ChavesDAF \cup {ChaveZero}
    /\ chaveCert \in ChavesCert

TipoRAM ==
    /\ lastMsg \in 0..14 /\ nonce \in Nonces
    /\ iniciado \in {0, REGISTRAR, REMOVER, ALTERAR_MODO}

TipoResp == resp \in [cod : Codigos \cup {0}, res : Respostas]

TypeOK == /\ TipoGuardas /\ TipoChaves /\ TipoRAM /\ TipoResp
          /\ retidas \subseteq Autorizacoes /\ IsFiniteSet(retidas)

\* A device with the factory settings, just powered on: nonce has no initialiser.
Init ==
    /\ estado = INATIVO /\ emProcesso = FALSE /\ regOK = FALSE /\ numDFE = 0
    /\ contador = 0 /\ modo = 0
    /\ chaveSEF = ChaveZero /\ chavePAF = ChaveZero /\ chavePriv = ChaveZero
    /\ chaveCert = CertFabrica
    /\ retidas = {}
    /\ lastMsg = 0 /\ nonce \in Nonces
    /\ resp = [cod |-> 0, res |-> "VAZIA"]
    /\ iniciado = 0

-----------------------------------------------------------------------------
\* The gate of processaPedido: while EM_PROCESSO is set and last_msg opened an
\* exchange, only its second message or a cancellation is dispatched.
Seguinte(c) ==
    CASE c = REGISTRAR    -> CONFIRMAR_REGISTRO
      [] c = SOLICITAR    -> AUTORIZAR
      [] c = REMOVER      -> CONFIRMAR_REMOCAO
      [] c = ALTERAR_MODO -> CONFIRMAR_MODO

BarradoMut(c) == FALSE  \* mutant: no gate

Barrado(c) == /\ emProcesso
              /\ lastMsg \in {REGISTRAR, SOLICITAR, REMOVER, ALTERAR_MODO}
              /\ c \notin {Seguinte(lastMsg), CANCELAR}

Responde(c, r) == resp' = [cod |-> c, res |-> r]
Nega(c, r)     == Responde(c, r) /\ UNCHANGED <<nv, lastMsg, nonce, iniciado>>

\* getMensagemJSON refuses the text: no answer leaves the device.
PedidoInvalido == Nega(0, "FALHA")

ForaDeOrdem(c) == Barrado(c) /\ Nega(c, "PEDIDO_MAL_FORMADO")

\* What a JWT check answers, in the order of the code: structure, signature,
\* payload (naoJSON is what the handler returns when it does not parse).
ResToken(t, chave, invalida, naoJSON) ==
    IF t.forma = "token" THEN "PEDIDO_MAL_FORMADO"
    ELSE IF t.chave # chave THEN invalida
    ELSE IF t.forma = "json" THEN naoJSON
    ELSE IF t.forma = "campos" THEN "PEDIDO_MAL_FORMADO"
    ELSE "SUCESSO"

-----------------------------------------------------------------------------
\* Registration

ResRegistrar(t) ==
    IF estado # INATIVO THEN "ESTADO_INCORRETO"
    ELSE ResToken(t, chaveCert, "ASSINATURA_INVALIDA", "PEDIDO_MAL_FORMADO")

\* The key pair is stored before the answer is signed: "falha" loses the answer
\* and leaves the new key.
Registrar(t, k, falha) ==
    LET r == ResRegistrar(t) IN
    /\ ~Barrado(REGISTRAR)
    /\ \/ r # "SUCESSO" /\ Nega(REGISTRAR, r)
       \/ /\ r = "SUCESSO"
          /\ chavePriv' = k
          /\ IF falha
             THEN /\ Responde(REGISTRAR, "FALHA")
                  /\ UNCHANGED <<emProcesso, lastMsg, iniciado>>
             ELSE /\ emProcesso' = TRUE
                  /\ Responde(REGISTRAR, "SUCESSO")
                  /\ lastMsg' = REGISTRAR
                  /\ iniciado' = REGISTRAR
          /\ UNCHANGED <<estado, regOK, numDFE, contador, modo, chaveSEF,
                         chavePAF, chaveCert, retidas, nonce>>

\* mutant: EM_PROCESSO is not asked for
ResConfirmarRegistroMut(t) == ResToken(t, chaveCert, "ASSINATURA_INVALIDA", "FALHA")

ResConfirmarRegistro(t) ==
    IF ~emProcesso THEN "PEDIDO_MAL_FORMADO"
    ELSE ResToken(t, chaveCert, "ASSINATURA_INVALIDA", "FALHA")

\* The token carries chs (the SEF key inside a JWE, which may not decode), chp
\* (the PAF key in base64, which may not decode either) and mop.  chave_SEF is
\* stored before chp is decoded.
ConfirmarRegistro(t, chs, chp, mop) ==
    LET r == ResConfirmarRegistro(t) IN
    /\ ~Barrado(CONFIRMAR_REGISTRO)
    /\ \/ r # "SUCESSO" /\ Nega(CONFIRMAR_REGISTRO, r)
       \/ r = "SUCESSO" /\ chs = ChaveZero /\ Nega(CONFIRMAR_REGISTRO, "ASSINATURA_INVALIDA")
       \/ /\ r = "SUCESSO" /\ chs # ChaveZero /\ chp = ChaveZero
          /\ chaveSEF' = chs
          /\ Responde(CONFIRMAR_REGISTRO, "FALHA")
          /\ UNCHANGED <<guardas, contador, modo, chavePAF, chavePriv, chaveCert,
                         retidas, lastMsg, nonce, iniciado>>
       \/ /\ r = "SUCESSO" /\ chs # ChaveZero /\ chp # ChaveZero
          /\ chaveSEF' = chs /\ chavePAF' = chp
          /\ estado' = PRONTO /\ regOK' = TRUE /\ emProcesso' = FALSE
          /\ modo' = mop
          /\ Responde(CONFIRMAR_REGISTRO, "SUCESSO")
          /\ lastMsg' = CONFIRMAR_REGISTRO
          /\ iniciado' = 0
          /\ UNCHANGED <<numDFE, contador, chavePriv, chaveCert, retidas, nonce>>

\* mutant: retained authorisations are not asked for
ResRemoverRegistroMut(t) ==
    IF estado # PRONTO THEN "ESTADO_INCORRETO"
    ELSE ResToken(t, chaveCert, "ASSINATURA_INVALIDA", "FALHA")

ResRemoverRegistro(t) ==
    IF estado # PRONTO THEN "ESTADO_INCORRETO"
    ELSE IF numDFE > 0 THEN "AUTORIZACAO_RETIDA"
    ELSE ResToken(t, chaveCert, "ASSINATURA_INVALIDA", "FALHA")

\* The nonce of the token overwrites the one of the authentication; a failure to
\* sign the answer returns SUCESSO with an empty document.
RemoverRegistro(t, n, falha) ==
    LET r == ResRemoverRegistro(t) IN
    /\ ~Barrado(REMOVER)
    /\ \/ r # "SUCESSO" /\ Nega(REMOVER, r)
       \/ /\ r = "SUCESSO"
          /\ nonce' = n
          /\ IF falha
             THEN /\ Responde(REMOVER, "VAZIA")
                  /\ UNCHANGED <<emProcesso, lastMsg, iniciado>>
             ELSE /\ emProcesso' = TRUE
                  /\ Responde(REMOVER, "SUCESSO")
                  /\ lastMsg' = REMOVER
                  /\ iniciado' = REMOVER
          /\ UNCHANGED <<estado, regOK, numDFE, contador, modo, chaves, retidas>>

ResConfirmarRemocao(t) ==
    IF ~emProcesso THEN "PEDIDO_MAL_FORMADO"
    ELSE ResToken(t, chaveCert, "ASSINATURA_INVALIDA", "FALHA")

ConfirmarRemocao(t) ==
    LET r == ResConfirmarRemocao(t) IN
    /\ ~Barrado(CONFIRMAR_REMOCAO)
    /\ \/ r # "SUCESSO" /\ Nega(CONFIRMAR_REMOCAO, r)
       \/ /\ r = "SUCESSO"
          /\ chavePAF' = ChaveZero /\ chaveSEF' = ChaveZero /\ chavePriv' = ChaveZero
          /\ estado' = INATIVO /\ regOK' = FALSE /\ emProcesso' = FALSE
          /\ Responde(CONFIRMAR_REMOCAO, "SUCESSO")
          /\ lastMsg' = CONFIRMAR_REMOCAO
          /\ iniciado' = 0
          /\ UNCHANGED <<numDFE, contador, modo, chaveCert, retidas, nonce>>

-----------------------------------------------------------------------------
\* Operation mode: tokens are HMACs under the SEF key

\* mutant: retained authorisations are not asked for
ResAlterarModoMut(t) ==
    IF estado # PRONTO THEN "ESTADO_INCORRETO"
    ELSE ResToken(t, chaveSEF, "HMAC_NAO_CORRESPONDENTE", "PEDIDO_MAL_FORMADO")

ResAlterarModo(t) ==
    IF estado # PRONTO THEN "ESTADO_INCORRETO"
    ELSE IF numDFE > 0 THEN "AUTORIZACAO_RETIDA"
    ELSE ResToken(t, chaveSEF, "HMAC_NAO_CORRESPONDENTE", "PEDIDO_MAL_FORMADO")

\* Here EM_PROCESSO is set last: a failure to sign the answer leaves nothing behind.
AlterarModo(t, falha) ==
    LET r == ResAlterarModo(t) IN
    /\ ~Barrado(ALTERAR_MODO)
    /\ \/ r # "SUCESSO" /\ Nega(ALTERAR_MODO, r)
       \/ r = "SUCESSO" /\ falha /\ Nega(ALTERAR_MODO, "FALHA")
       \/ /\ r = "SUCESSO" /\ ~falha
          /\ emProcesso' = TRUE
          /\ Responde(ALTERAR_MODO, "SUCESSO")
          /\ lastMsg' = ALTERAR_MODO
          /\ iniciado' = ALTERAR_MODO
          /\ UNCHANGED <<estado, regOK, numDFE, contador, modo, chaves, retidas, nonce>>

ResConfirmarModo(t) ==
    IF ~emProcesso THEN "PEDIDO_MAL_FORMADO"
    ELSE ResToken(t, chaveSEF, "HMAC_NAO_CORRESPONDENTE", "FALHA")

ConfirmarAlterarModo(t, mop) ==
    LET r == ResConfirmarModo(t) IN
    /\ ~Barrado(CONFIRMAR_MODO)
    /\ \/ r # "SUCESSO" /\ Nega(CONFIRMAR_MODO, r)
       \/ /\ r = "SUCESSO"
          /\ modo' = mop /\ emProcesso' = FALSE
          /\ Responde(CONFIRMAR_MODO, "SUCESSO")
          /\ lastMsg' = CONFIRMAR_MODO
          /\ iniciado' = 0
          /\ UNCHANGED <<estado, regOK, numDFE, contador, chaves, retidas, nonce>>

-----------------------------------------------------------------------------
\* Authorisations

\* A failure of the random generator may leave a new nonce behind.
SolicitarAutenticacao(n, falha) ==
    /\ ~Barrado(SOLICITAR)
    /\ \/ estado # PRONTO /\ Nega(SOLICITAR, "ESTADO_INCORRETO")
       \/ /\ estado = PRONTO
          /\ nonce' = n
          /\ IF falha
             THEN Responde(SOLICITAR, "FALHA") /\ UNCHANGED lastMsg
             ELSE Responde(SOLICITAR, "SUCESSO") /\ lastMsg' = SOLICITAR
          /\ UNCHANGED <<nv, iniciado>>

\* p: digest of the document, and the nonce and key its HMAC (red) was made with;
\* forma tells whether red and hdf ("b64") or the document itself ("fdf") decode.
PedidosAutorizar == [hdf : Resumos, nnc : Nonces, chave : ChavesPAF \cup {ChaveZero},
                     forma : {"ok", "b64", "fdf"}]

ResAutorizar(p) ==
    IF estado # PRONTO THEN "ESTADO_INCORRETO"
    ELSE IF p.forma = "b64" THEN "FALHA"
    ELSE IF p.nnc # nonce \/ p.chave # chavePAF THEN "PAF_DESCONHECIDO"
    ELSE "SUCESSO"

RetidaMut(h) == FALSE  \* mutant: the working memory is not asked for the digest
Retida(h) == \E a \in retidas : a.hdf = h

\* The working memory: add, remove by identifier (after existe), reseta.
MTAdiciona(a) == retidas' = retidas \cup {a} /\ numDFE' = numDFE + 1

MTRemoveMut(a) == retidas' = retidas \ {a} /\ UNCHANGED numDFE  \* mutant: not counted
MTRemove(a)    == retidas' = retidas \ {a} /\ numDFE' = numDFE - 1

MTResetaMut == UNCHANGED <<retidas, numDFE>>  \* mutant: reseta is not called
MTReseta    == retidas' = {} /\ numDFE' = 0

\* BLOQUEADO when NUM_DFE reaches MAX_DFE.
EstadoComMut(n) == IF n > MaxDFE THEN BLOQUEADO ELSE estado  \* mutant: > for >=
EstadoCom(n)    == IF n >= MaxDFE THEN BLOQUEADO ELSE estado

AutorizacaoNova(h) == [chave |-> chaveSEF, cnt |-> contador + 1, hdf |-> h, mop |-> modo]

\* A document already retained is answered from the working memory.  A new one
\* takes the next counter value first; a document that does not decode or a full
\* memory then ends the request without an answer.
AutorizarDFE(p) ==
    LET r == ResAutorizar(p) IN
    /\ ~Barrado(AUTORIZAR)
    /\ \/ r # "SUCESSO" /\ Nega(AUTORIZAR, r)
       \/ /\ r = "SUCESSO" /\ Retida(p.hdf)
          /\ Responde(AUTORIZAR, "SUCESSO")
          /\ lastMsg' = AUTORIZAR
          /\ UNCHANGED <<nv, nonce, iniciado>>
       \/ /\ r = "SUCESSO" /\ ~Retida(p.hdf)
          /\ contador < LimContador
          /\ contador' = contador + 1
          /\ IF p.forma = "fdf" \/ numDFE >= MaxDFEModel
             THEN /\ Responde(AUTORIZAR, "FALHA")
                  /\ UNCHANGED <<estado, numDFE, retidas, lastMsg>>
             ELSE /\ MTAdiciona(AutorizacaoNova(p.hdf))
                  /\ estado' = EstadoCom(numDFE + 1)
                  /\ Responde(AUTORIZAR, "SUCESSO")
                  /\ lastMsg' = AUTORIZAR
          /\ UNCHANGED <<emProcesso, regOK, modo, chaves, nonce, iniciado>>

ComAutorizacoes == estado \in {PRONTO, BLOQUEADO}

\* existe_autorizacao_DFE finds the identifier; apg is the HMAC of it under chave.
ResApagar(chave, legivel) ==
    IF ~ComAutorizacoes THEN "ESTADO_INCORRETO"
    ELSE IF ~legivel THEN "FALHA"
    ELSE IF chave # chaveSEF THEN "HMAC_NAO_CORRESPONDENTE"
    ELSE "SUCESSO"

ApagarAutorizacaoRetida(a, chave, legivel) ==
    LET r == ResApagar(chave, legivel) IN
    /\ ~Barrado(APAGAR)
    /\ \/ r # "SUCESSO" /\ Nega(APAGAR, r)
       \/ /\ r = "SUCESSO"
          /\ MTRemove(a)
          /\ estado' = PRONTO
          /\ Responde(APAGAR, "SUCESSO")
          /\ lastMsg' = APAGAR
          /\ UNCHANGED <<emProcesso, regOK, contador, modo, chaves, nonce, iniciado>>

\* mutant: the guard is counted down before the search
ApagarDesconhecidaMut ==
    /\ ~Barrado(APAGAR)
    /\ ComAutorizacoes /\ numDFE' = numDFE - 1
    /\ Responde(APAGAR, "AUTORIZACAO_NAO_ENCONTRADA")
    /\ UNCHANGED <<estado, emProcesso, regOK, contador, modo, chaves, retidas,
                   lastMsg, nonce, iniciado>>

\* An identifier that the working memory does not hold.
ApagarDesconhecida ==
    /\ ~Barrado(APAGAR)
    /\ Nega(APAGAR, IF ComAutorizacoes THEN "AUTORIZACAO_NAO_ENCONTRADA"
                                       ELSE "ESTADO_INCORRETO")

\* Requests that only answer: the state they need, and last_msg.  A fragment too small for
\* the size that its encoding is given (daf.cpp:1091) ends the request without an answer.
DescarregarRetidos(encontrada, falha) ==
    /\ ~Barrado(DESCARREGAR)
    /\ encontrada => retidas # {}
    /\ IF estado = PRONTO /\ encontrada /\ ~falha
       THEN /\ Responde(DESCARREGAR, "SUCESSO") /\ lastMsg' = DESCARREGAR
            /\ UNCHANGED <<nv, nonce, iniciado>>
       ELSE Nega(DESCARREGAR, IF estado # PRONTO THEN "ESTADO_INCORRETO"
                              ELSE IF ~encontrada THEN "AUTORIZACAO_NAO_ENCONTRADA"
                              ELSE "FALHA")

ConsultarInformacoes ==
    /\ ~Barrado(CONSULTAR)
    /\ Responde(CONSULTAR, "SUCESSO") /\ lastMsg' = CONSULTAR
    /\ UNCHANGED <<nv, nonce, iniciado>>

ResAtualizar ==
    IF estado \notin {INATIVO, PRONTO} THEN "ESTADO_INCORRETO"
    ELSE IF numDFE >= 1 THEN "AUTORIZACAO_RETIDA"
    ELSE "SUCESSO"

AtualizarSB ==
    /\ ~Barrado(ATUALIZAR_SB)
    /\ \/ ResAtualizar # "SUCESSO" /\ Nega(ATUALIZAR_SB, ResAtualizar)
       \/ /\ ResAtualizar = "SUCESSO"
          /\ Responde(ATUALIZAR_SB, "SUCESSO") /\ lastMsg' = ATUALIZAR_SB
          /\ UNCHANGED <<nv, nonce, iniciado>>

\* getMensagemJSON never sets the size of the certificate: sz is whatever the
\* stack held, and grande says whether it passes the comparison.
AtualizarCertificado(k, grande, legivel) ==
    /\ ~Barrado(ATUALIZAR_CERTIFICADO)
    /\ IF ResAtualizar = "SUCESSO" /\ grande /\ legivel
       THEN /\ chaveCert' = k
            /\ Responde(ATUALIZAR_CERTIFICADO, "SUCESSO")
            /\ lastMsg' = ATUALIZAR_CERTIFICADO
            /\ UNCHANGED <<guardas, contador, modo, chaveSEF, chavePAF, chavePriv,
                           retidas, nonce, iniciado>>
       ELSE Nega(ATUALIZAR_CERTIFICADO,
                 IF ResAtualizar # "SUCESSO" THEN ResAtualizar
                 ELSE IF ~grande THEN "PEDIDO_MAL_FORMADO" ELSE "FALHA")

-----------------------------------------------------------------------------
\* Cancellation, factory reset, power

\* mutant: EM_PROCESSO stays set
CancelarProcessoMut ==
    \/ estado = BLOQUEADO /\ Nega(CANCELAR, "ESTADO_INCORRETO")
    \/ /\ estado # BLOQUEADO
       /\ Responde(CANCELAR, "SUCESSO")
       /\ lastMsg' = CANCELAR
       /\ iniciado' = 0
       /\ UNCHANGED <<nv, nonce>>

\* Both from the gate and from the dispatch.
CancelarProcesso ==
    \/ estado = BLOQUEADO /\ Nega(CANCELAR, "ESTADO_INCORRETO")
    \/ /\ estado # BLOQUEADO
       /\ emProcesso' = FALSE
       /\ Responde(CANCELAR, "SUCESSO")
       /\ lastMsg' = CANCELAR
       /\ iniciado' = 0
       /\ UNCHANGED <<estado, regOK, numDFE, contador, modo, chaves, retidas, nonce>>

\* Leaves EM_PROCESSO, REGOK, the SEF, PAF and private keys and last_msg alone.
PadraoDeFabrica ==
    /\ ~Barrado(PADRAO_DE_FABRICA)
    /\ chaveCert' = CertFabrica
    /\ contador' = 0 /\ estado' = INATIVO /\ modo' = 0
    /\ MTReseta
    /\ Responde(PADRAO_DE_FABRICA, "SUCESSO")
    /\ iniciado' = 0
    /\ UNCHANGED <<emProcesso, regOK, chaveSEF, chavePAF, chavePriv, lastMsg, nonce>>

\* The constructor clears last_msg and leaves nonce as the stack had it.
Queda ==
    /\ lastMsg' = 0 /\ nonce' \in Nonces
    /\ resp' = [cod |-> 0, res |-> "VAZIA"]
    /\ UNCHANGED <<nv, iniciado>>

-----------------------------------------------------------------------------
TokensES == [chave : ChavesCert, forma : Formas]
TokensHS == [chave : ChavesSEF \cup {ChaveZero}, forma : Formas]

Registro ==
    \/ \E t \in TokensES, k \in ChavesDAF, falha \in BOOLEAN : Registrar(t, k, falha)
    \/ \E t \in TokensES, chs \in ChavesSEF \cup {ChaveZero},
          chp \in ChavesPAF \cup {ChaveZero}, mop \in Modos :
            ConfirmarRegistro(t, chs, chp, mop)
    \/ \E t \in TokensES, n \in Nonces, falha \in BOOLEAN : RemoverRegistro(t, n, falha)
    \/ \E t \in TokensES : ConfirmarRemocao(t)

Modo ==
    \/ \E t \in TokensHS, falha \in BOOLEAN : AlterarModo(t, falha)
    \/ \E t \in TokensHS, mop \in Modos : ConfirmarAlterarModo(t, mop)

Documentos ==
    \/ \E n \in Nonces, falha \in BOOLEAN : SolicitarAutenticacao(n, falha)
    \/ \E p \in PedidosAutorizar : AutorizarDFE(p)
    \/ \E a \in retidas, chave \in ChavesSEF \cup {ChaveZero}, legivel \in BOOLEAN :
            ApagarAutorizacaoRetida(a, chave, legivel)
    \/ ApagarDesconhecida
    \/ \E encontrada, falha \in BOOLEAN : DescarregarRetidos(encontrada, falha)
    \/ ConsultarInformacoes

Manutencao ==
    \/ AtualizarSB
    \/ \E k \in ChavesCert, grande \in BOOLEAN, legivel \in BOOLEAN :
            AtualizarCertificado(k, grande, legivel)
    \/ CancelarProcesso
    \/ PadraoDeFabrica
    \/ PedidoInvalido
    \/ \E c \in Codigos : ForaDeOrdem(c)

Pedido == Registro \/ Modo \/ Documentos \/ Manutencao

\* Without power cycles, and with them.
Next      == Pedido
NextQueda == Pedido \/ Queda

Spec      == Init /\ [][Next]_vars
SpecQueda == Init /\ [][NextQueda]_vars

-----------------------------------------------------------------------------
(* Properties that need the device to stay powered during a process.  The
   second message of each process checks EM_PROCESSO and no state or nonce
   (daf.cpp:246-253, 412-421, 850-858): what makes it safe is the gate of
   processaPedido together with the checks of the first message.             *)

\* While EM_PROCESSO is set, the process that last_msg names is the one that the
\* state of the device allows, and nothing is retained: a confirmation can only
\* meet the situation its first message checked.
ProcessoCoerente ==
    emProcesso => \/ lastMsg = REGISTRAR /\ estado = INATIVO
                  \/ lastMsg \in {REMOVER, ALTERAR_MODO} /\ estado = PRONTO
                     /\ retidas = {}

\* A device without registration holds no authorisation: none is orphaned by a
\* removal (ConfirmarRemocao does not look at NUM_DFE again).
InativoNaoRetem == estado = INATIVO => retidas = {}

\* The device is blocked exactly while it retains MAX_DFE documents, never more,
\* although ConfirmarRegistro and ApagarAutorizacaoRetida write PRONTO without
\* comparing.
BloqueioCoerente ==
    /\ estado = PRONTO => Cardinality(retidas) < MaxDFE
    /\ estado = BLOQUEADO => Cardinality(retidas) = MaxDFE

\* Every retained authorisation was made with the SEF key now in force, so the
\* SEF can still release it, and in the operation mode now in force.
RetidasDoRegistroAtual == \A a \in retidas : a.chave = chaveSEF /\ a.mop = modo

\* A confirmation that succeeds ends the process of its own kind, started and
\* neither cancelled nor ended since ("verifica se o processo foi iniciado").
ConfirmacaoDoProcessoIniciado ==
    [][resp'.res = "SUCESSO" =>
          /\ resp'.cod = CONFIRMAR_REGISTRO => iniciado = REGISTRAR
          /\ resp'.cod = CONFIRMAR_REMOCAO  => iniciado = REMOVER
          /\ resp'.cod = CONFIRMAR_MODO     => iniciado = ALTERAR_MODO]_vars

-----------------------------------------------------------------------------
(* Properties that survive power cycles.                                     *)

\* NUM_DFE, kept apart from the working memory, is the number of authorisations
\* retained and never passes what the memory accepts, whatever the states that
\* confirmations after a power cycle lead to.
ContagemCorreta == numDFE = Cardinality(retidas) /\ numDFE <= MaxDFEModel

\* A document is retained once however often its request is repeated, and no two
\* authorisations share a counter value, given or lost.
NumeracaoUnica ==
    /\ \A a, b \in retidas : a.cnt = b.cnt \/ a.hdf = b.hdf => a = b
    /\ \A a \in retidas : a.cnt <= contador

\* A device in PRONTO or BLOQUEADO is registered and holds the three keys that
\* its handlers use without checking, even if a confirmation ended another
\* process than the one that was started.
RegistradoTemChaves ==
    estado # INATIVO => regOK /\ ChaveZero \notin {chaveSEF, chavePAF, chavePriv}

\* An authorisation is numbered above every number taken before it, also those
\* of requests that failed, and the counter goes back only with nothing retained.
NumeracaoCrescente ==
    [][/\ \A a \in retidas' \ retidas : a.cnt > contador
       /\ contador' < contador => retidas' = {}]_vars

-----------------------------------------------------------------------------
(* Statements of the documentation and comments.                             *)

\* README.md:96: the device can be put in the factory state "a qualquer momento".
FabricaAQualquerMomento == resp.cod = PADRAO_DE_FABRICA => resp.res = "SUCESSO"

\* README.md:96: there it behaves as a newly acquired device, which refuses every
\* confirmation because it has no process open.
FabricaSemProcesso ==
    resp = [cod |-> PADRAO_DE_FABRICA, res |-> "SUCESSO"] => ~emProcesso

=============================================================================
