------------------------------ MODULE CortesDAF ------------------------------
(***************************************************************************)
(* DAF with the power going away inside a handler, and over the sectors of *)
(* its working memory.  The handlers write one value at a time, and each   *)
(* write is in NVSRAM at once (src/src/memoria/memoria_segura.cpp): what is *)
(* cut is the rest of the list.  Only the write of a flash sector, which   *)
(* takes long, can itself be cut.  Nobody sees the device between the last *)
(* write and the next start, so a cut and the start after it are one step. *)
(*                                                                         *)
(* An addition, a removal and a reset of the working memory are several    *)
(* writes (memoria_de_trabalho.cpp), so the three handlers that make them  *)
(* are stated here anew, complete and cut; the others are those of DAF.    *)
(* What DAF calls retidas is the content of the marked sectors, and may    *)
(* then differ from what NUM_DFE counts.                                   *)
(***************************************************************************)
EXTENDS DAF, Sequences

CONSTANTS
    NSetores, \* sectors of the flash (4096 in the code)
    ModNum,   \* NUM_DFE is an unsigned integer modulo this (2^32 in the code)
    Ruido,    \* what a sector holds that was never or only partly written
    LimCortes \* bound of the model: cuts inside a handler

ASSUME SetoresAssumption ==
    /\ NSetores \in Nat /\ ModNum \in Nat
    /\ MaxDFEModel < NSetores /\ NSetores < ModNum
    /\ Ruido \notin Autorizacoes
    /\ LimCortes \in Nat

VARIABLES
    temDado,      \* bitmap: sector_has_data, in NVSRAM
    flash,        \* content of the sectors: a removal leaves it there
    iSectorWrite, \* position of the next attempt to write, in NVSRAM
    escritos,     \* history: sectors written since the counter was last cleared
    interrompida, \* history: confirmation that was cut, until another request has an effect
    cortes        \* history: cuts so far

setores    == <<temDado, flash, iSectorWrite>>
varsCortes == <<vars, setores, escritos, interrompida, cortes>>

Setores == 0..(NSetores - 1)
Nenhuma == [cod |-> 0]

\* The authorisations that existe_autorizacao_DFE finds.
Conteudo(td, fl) == {fl[i] : i \in {j \in Setores : td[j]}} \ {Ruido}

-----------------------------------------------------------------------------
\* The order of the writes of each handler

OrdemRegistrar == <<"chavePriv", "emProcesso">>

\* mutant: the process is ended first
OrdemRegistroMut == <<"emProcesso", "chaveSEF", "chavePAF", "estado", "regOK", "modo">>
OrdemRegistro    == <<"chaveSEF", "chavePAF", "estado", "regOK", "emProcesso", "modo">>

\* mutant: the SEF key is erased first
OrdemRemocaoMut == <<"chaveSEF", "chavePAF", "chavePriv", "estado", "regOK", "emProcesso">>
OrdemRemocao    == <<"chavePAF", "chaveSEF", "chavePriv", "estado", "regOK", "emProcesso">>

OrdemModo == <<"modo", "emProcesso">>

\* The counter, then add_autorizacao_DFE (position, bit, flash, NUM_DFE), then the state.
\* mutant: the counter is stored with the authorisation already retained
OrdemAutorizarMut == <<"iSectorWrite", "temDado", "flash", "numDFE", "contador", "estado">>
OrdemAutorizar    == <<"contador", "iSectorWrite", "temDado", "flash", "numDFE", "estado">>
OrdemProcura      == <<"contador", "iSectorWrite">>

OrdemApagar  == <<"temDado", "numDFE", "estado">>
OrdemFabrica == <<"chaveCert", "contador", "estado", "temDado", "iSectorWrite", "numDFE", "modo">>

\* The first k writes of an order are done, with the values of novo.
Escreve(ordem, k, novo) ==
    LET feitas == {ordem[i] : i \in 1..k}
        Vale(campo, velho) == IF campo \in feitas THEN novo[campo] ELSE velho
    IN  /\ estado' = Vale("estado", estado) /\ emProcesso' = Vale("emProcesso", emProcesso)
        /\ regOK' = Vale("regOK", regOK) /\ numDFE' = Vale("numDFE", numDFE)
        /\ contador' = Vale("contador", contador) /\ modo' = Vale("modo", modo)
        /\ chaveSEF' = Vale("chaveSEF", chaveSEF) /\ chavePAF' = Vale("chavePAF", chavePAF)
        /\ chavePriv' = Vale("chavePriv", chavePriv) /\ chaveCert' = Vale("chaveCert", chaveCert)
        /\ temDado' = Vale("temDado", temDado) /\ flash' = Vale("flash", flash)
        /\ iSectorWrite' = Vale("iSectorWrite", iSectorWrite)
        /\ retidas' = Conteudo(temDado', flash')

\* All of them are, and the request is answered.
Completa(ordem, novo, cod, res, ultima) ==
    /\ ~Barrado(cod)
    /\ Escreve(ordem, Len(ordem), novo)
    /\ Responde(cod, res) /\ lastMsg' = ultima /\ UNCHANGED <<nonce, cortes>>

\* Or the power goes away, and the device starts.
Corta(cod, ordem, k, novo) ==
    /\ ~Barrado(cod)
    /\ cortes < LimCortes /\ cortes' = cortes + 1
    /\ Escreve(ordem, k, novo)
    /\ lastMsg' = 0 /\ nonce' \in Nonces
    /\ resp' = [cod |-> 0, res |-> "VAZIA"]
    /\ UNCHANGED iniciado

\* Not before the first of the writes, nor after the last.
Interrompe(cod, ordem, novo) == \E k \in 1..(Len(ordem) - 1) : Corta(cod, ordem, k, novo)

-----------------------------------------------------------------------------
\* Handlers that do not write the working memory, cut

CortaRegistrar(t, c) ==
    /\ ResRegistrar(t) = "SUCESSO"
    /\ Interrompe(REGISTRAR, OrdemRegistrar, [chavePriv |-> c, emProcesso |-> TRUE])
    /\ interrompida' = Nenhuma

CortaRegistro(t, chs, chp, mop) ==
    /\ ResConfirmarRegistro(t) = "SUCESSO" /\ ChaveZero \notin {chs, chp}
    /\ Interrompe(CONFIRMAR_REGISTRO, OrdemRegistro,
                  [chaveSEF |-> chs, chavePAF |-> chp, estado |-> PRONTO, regOK |-> TRUE,
                   emProcesso |-> FALSE, modo |-> mop])
    /\ interrompida' = [cod |-> CONFIRMAR_REGISTRO, token |-> t, chs |-> chs, chp |-> chp]

CortaRemocao(t) ==
    /\ ResConfirmarRemocao(t) = "SUCESSO"
    /\ Interrompe(CONFIRMAR_REMOCAO, OrdemRemocao,
                  [chavePAF |-> ChaveZero, chaveSEF |-> ChaveZero, chavePriv |-> ChaveZero,
                   estado |-> INATIVO, regOK |-> FALSE, emProcesso |-> FALSE])
    /\ interrompida' = [cod |-> CONFIRMAR_REMOCAO, token |-> t]

CortaModo(t, mop) ==
    /\ ResConfirmarModo(t) = "SUCESSO"
    /\ Interrompe(CONFIRMAR_MODO, OrdemModo, [modo |-> mop, emProcesso |-> FALSE])
    /\ interrompida' = [cod |-> CONFIRMAR_MODO, token |-> t]

CortesDePedidos ==
    \/ \E t \in TokensES, c \in ChavesDAF : CortaRegistrar(t, c)
    \/ \E t \in TokensES, chs \in ChavesSEF, chp \in ChavesPAF, mop \in Modos :
            CortaRegistro(t, chs, chp, mop)
    \/ \E t \in TokensES : CortaRemocao(t)
    \/ \E t \in TokensHS, mop \in Modos : CortaModo(t, mop)

-----------------------------------------------------------------------------
\* AUTORIZAR of a new document.  add_autorizacao_DFE moves the position past the sectors in
\* use, NSetores - 1 times at most, and takes the first that is free.
SetorApos(d) == (iSectorWrite + d) % NSetores
EmUso(d)     == \A e \in 0..(d - 1) : temDado[SetorApos(e)]

PodeAdicionar(p) ==
    /\ ResAutorizar(p) = "SUCESSO" /\ ~Retida(p.hdf) /\ p.forma = "ok"
    /\ contador < LimContador /\ numDFE < MaxDFEModel
    /\ interrompida' = Nenhuma

\* What is written in sector s: the authorisation, or what a cut leaves of it.
Adicao(s, registro) ==
    [contador |-> contador + 1, iSectorWrite |-> s,
     temDado |-> [temDado EXCEPT ![s] = TRUE], flash |-> [flash EXCEPT ![s] = registro],
     numDFE |-> numDFE + 1, estado |-> EstadoCom(numDFE + 1)]

Autoriza(p) ==
    /\ PodeAdicionar(p)
    /\ \E d \in 0..(NSetores - 2) :
          /\ EmUso(d) /\ ~temDado[SetorApos(d)]
          /\ Completa(OrdemAutorizar, Adicao(SetorApos(d), AutorizacaoNova(p.hdf)),
                      AUTORIZAR, "SUCESSO", AUTORIZAR)
          /\ escritos' = escritos \cup {SetorApos(d)}
    /\ UNCHANGED iniciado

CortaAutorizar(p) ==
    /\ PodeAdicionar(p)
    /\ \E d \in 0..(NSetores - 2), k \in 3..(Len(OrdemAutorizar) - 1),
          registro \in {AutorizacaoNova(p.hdf), Ruido} :
          /\ EmUso(d) /\ ~temDado[SetorApos(d)]
          /\ registro = Ruido => OrdemAutorizar[k] = "flash"
          /\ Corta(AUTORIZAR, OrdemAutorizar, k, Adicao(SetorApos(d), registro))
          /\ escritos' = IF "flash" \in {OrdemAutorizar[i] : i \in 1..k}
                         THEN escritos \cup {SetorApos(d)} ELSE escritos

Procurado(d) == [contador |-> contador + 1, iSectorWrite |-> SetorApos(d)]

\* Additions that were cut leave sectors marked that NUM_DFE does not count: the loop may end
\* without a sector.
AutorizaSemSetor(p) ==
    /\ PodeAdicionar(p) /\ EmUso(NSetores - 1)
    /\ Completa(OrdemProcura, Procurado(NSetores - 1), AUTORIZAR, "FALHA", lastMsg)
    /\ UNCHANGED <<escritos, iniciado>>

CortaProcura(p) ==
    /\ PodeAdicionar(p)
    /\ \E d \in 0..(NSetores - 1) :
          EmUso(d) /\ Corta(AUTORIZAR, OrdemProcura, Len(OrdemProcura), Procurado(d))
    /\ UNCHANGED escritos

-----------------------------------------------------------------------------
\* APAGAR of an authorisation that existe_autorizacao_DFE finds.  Its identifier is the HMAC of
\* key, number and document; remove_autorizacao_DFE cleans the lowest sector that has it, be it
\* marked or not.
ComId(a) == {i \in Setores : /\ flash[i] # Ruido
                             /\ <<flash[i].chave, flash[i].cnt, flash[i].hdf>>
                                    = <<a.chave, a.cnt, a.hdf>>}

Remocao(s) ==
    [temDado |-> [temDado EXCEPT ![s] = FALSE], numDFE |-> (numDFE - 1) % ModNum,
     estado |-> PRONTO]

PodeApagar(a, s) ==
    /\ ResApagar(chaveSEF, TRUE) = "SUCESSO"
    /\ s \in ComId(a) /\ \A i \in ComId(a) : s <= i
    /\ interrompida' = Nenhuma /\ UNCHANGED escritos

Apaga(a, s) ==
    /\ PodeApagar(a, s)
    /\ Completa(OrdemApagar, Remocao(s), APAGAR, "SUCESSO", APAGAR)
    /\ UNCHANGED iniciado

CortaApagar(a, s) == PodeApagar(a, s) /\ Interrompe(APAGAR, OrdemApagar, Remocao(s))

-----------------------------------------------------------------------------
\* PADRAO_DE_FABRICA: reseta clears the bitmap byte by byte (memset), up to sector n, then the
\* position and the guard.
ValoresDeFabrica(n) ==
    [chaveCert |-> CertFabrica, contador |-> 0, estado |-> INATIVO,
     temDado |-> [i \in Setores |-> i >= n /\ temDado[i]], iSectorWrite |-> 0, numDFE |-> 0,
     modo |-> 0]

Fabrica ==
    /\ Completa(OrdemFabrica, ValoresDeFabrica(NSetores), PADRAO_DE_FABRICA, "SUCESSO", lastMsg)
    /\ iniciado' = 0 /\ interrompida' = Nenhuma /\ escritos' = {}

CortaFabrica ==
    /\ \E k \in 1..(Len(OrdemFabrica) - 1), n \in 0..NSetores :
          /\ n < NSetores => OrdemFabrica[k] = "temDado"
          /\ Corta(PADRAO_DE_FABRICA, OrdemFabrica, k, ValoresDeFabrica(n))
          /\ escritos' = IF "contador" \in {OrdemFabrica[i] : i \in 1..k} THEN {} ELSE escritos
    /\ interrompida' = Nenhuma

-----------------------------------------------------------------------------
NaMemoria ==
    \/ \E p \in PedidosAutorizar :
            Autoriza(p) \/ CortaAutorizar(p) \/ AutorizaSemSetor(p) \/ CortaProcura(p)
    \/ \E a \in retidas, s \in Setores : Apaga(a, s) \/ CortaApagar(a, s)
    \/ Fabrica \/ CortaFabrica

\* A request that changes what the device keeps, but not its working memory: the others,
\* refused, only answer.
PedidoQueMuda ==
    /\ UNCHANGED <<retidas, numDFE>>
    /\ Pedido
    /\ resp'.cod # PADRAO_DE_FABRICA
    /\ <<nv, nonce>>' # <<nv, nonce>> \/ \E c \in Codigos : Barrado(c)' # Barrado(c)

InitCortes ==
    /\ Init /\ interrompida = Nenhuma /\ escritos = {} /\ cortes = 0
    /\ temDado = [i \in Setores |-> FALSE] /\ flash = [i \in Setores |-> Ruido]
    /\ iSectorWrite = 0

NextCortes ==
    \/ PedidoQueMuda /\ interrompida' = Nenhuma /\ UNCHANGED <<setores, escritos, cortes>>
    \/ Queda /\ UNCHANGED <<setores, escritos, interrompida, cortes>>
    \/ CortesDePedidos /\ UNCHANGED escritos
    \/ NaMemoria

SpecCortes == InitCortes /\ [][NextCortes]_varsCortes

-----------------------------------------------------------------------------
\* What each confirmation answers to a token, and what it leaves when it ends.
ResConfirmacao(i) ==
    CASE i.cod = CONFIRMAR_REGISTRO -> ResConfirmarRegistro(i.token)
      [] i.cod = CONFIRMAR_REMOCAO  -> ResConfirmarRemocao(i.token)
      [] i.cod = CONFIRMAR_MODO     -> ResConfirmarModo(i.token)

RegistroFeito(i) ==
    /\ i.cod = CONFIRMAR_REGISTRO
    /\ estado = PRONTO /\ regOK /\ chaveSEF = i.chs /\ chavePAF = i.chp

\* A confirmation in which the power went away can be sent again when the device starts, and
\* is processed: EM_PROCESSO is still set and what it is verified with is still there,
\* although keys were overwritten.  The one exception is a registration, whose keys and
\* guards are then all in place (daf.cpp:474-492: only the mode may be missing).
ConfirmacaoRepetivel ==
    interrompida # Nenhuma =>
        \/ ~Barrado(interrompida.cod) /\ ResConfirmacao(interrompida) = "SUCESSO"
        \/ RegistroFeito(interrompida)

\* Whenever the power goes away, of the authorisations numbered since the counter was last
\* cleared no two that are retained share a number and none is above the counter: also those
\* that had been removed, and that a cut between the bit and the flash of an addition
\* (memoria_de_trabalho.cpp:43-45) has made valid again.  A number is taken for good before
\* it is used (daf.cpp:588-651).  Those numbered before are the exception: the factory reset
\* clears the counter first (daf.cpp:1219) and never the flash.
NumeracaoComCortes ==
    \A i, j \in escritos :
        temDado[i] /\ temDado[j] /\ Ruido \notin {flash[i], flash[j]} =>
            /\ flash[i].cnt <= contador
            /\ flash[i].cnt = flash[j].cnt => i = j

\* Wherever a registration or a removal was cut, no document is authorised with an erased SEF
\* key for a PAF whose key is in force: the SEF could never release it (daf.cpp:892-896
\* erase the PAF key, which every authorisation needs, before the SEF key).
AutorizaComChaveSEF ==
    [][\A i \in Setores :
          flash'[i] \notin {flash[i], Ruido} /\ flash'[i].chave = ChaveZero
              => chavePAF = ChaveZero]_varsCortes

=============================================================================
