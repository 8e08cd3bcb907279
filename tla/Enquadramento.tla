---------------------------- MODULE Enquadramento ----------------------------
(***************************************************************************)
(* The framing layer (src/src/com/enquadramento.cpp) as PDAFCDC::possuiJson *)
(* drives it: each pass handles an expired timer, reads at most one chunk  *)
(* of the bytes that USB holds, feeds every byte to the state machine and, *)
(* if a frame is complete, hands it to ARQ.                                *)
(*                                                                         *)
(* A frame is a command, the size in two or four bytes and the data.  The  *)
(* timer that watches a frame expires in an interrupt, between any two     *)
(* steps of the loop.  What is assumed of the PAF and of the pace of the   *)
(* loop is `ambiente', chosen at the start and never changed.              *)
(***************************************************************************)
EXTENDS Integers, Sequences, SequencesExt, FiniteSetsExt

CONSTANTS
    Base,       \* values of a byte (256 in the code)
    Mensagens,  \* data of the whole frames: control byte and message, never empty
    LimQuadros, \* bound of the model: frames that the PAF writes, in any environment
    LimUsb,     \* bound of the model: bytes that USB holds
    Lote,       \* bytes read in a pass: size of dados_raw (128 in the code)
    NTimers,    \* hardware timers
    Ambientes   \* assumptions on the PAF and on the loop, one of which holds, each
                \* with its own bound on the frames

ASSUME EnquadramentoAssumption ==
    /\ Base \in Nat /\ Base > 2 /\ LimQuadros \in Nat /\ LimUsb \in Nat
    /\ Lote \in Nat \ {0} /\ NTimers \in Nat
    /\ Mensagens \subseteq Seq(0..(Base - 1)) \ {<<>>}
    /\ \A m \in Mensagens : Len(m) < Base * Base   \* the size of a message has two bytes
    /\ Ambientes \subseteq [contido : BOOLEAN, pontual : BOOLEAN, quadros : 0..LimQuadros]

\* Commands (PDAFCDC_Utils::COMANDO_t)
INVALIDO        == 0
ENVIAR_MENSAGEM == 1
ENVIAR_BINARIO  == 2
Comandos == {ENVIAR_MENSAGEM, ENVIAR_BINARIO}

Bytes    == 0..(Base - 1)
Timers   == 0..(NTimers - 1)
SemTimer == -1
Mod32    == Base * Base * Base * Base

VARIABLES
    enq,       \* members of the Enquadramento object, and the pool of timers
    gTimeout,  \* g_timeout, set by the interrupt
    passo,     \* what the main loop does next
    usb,       \* bytes received and not read
    ambiente,
    enviados,  \* history: number of frames that the PAF wrote, cut ones included
    inteiros,  \* history: the frames it wrote whole
    entregues  \* history: the frames that ARQ received

vars == <<enq, gTimeout, passo, usb, ambiente, enviados, inteiros, entregues>>

\* buffer_dados is kept up to the last byte written: the rest is zero.
TipoEnq ==
    /\ enq.estado \in {"IDLE", "TAMANHO", "RX"} /\ enq.tamTam \in {2, 4}
    /\ enq.nTam \in 0..3 /\ enq.bufTam \in [1..4 -> Bytes]
    /\ enq.comando \in Comandos \cup {INVALIDO}
    /\ enq.campoTamanho \in 0..(Mod32 - 1)
    /\ enq.dadosSz \in Nat /\ enq.dados \in Seq(Bytes) /\ enq.recebida \in Seq(Bytes)
    /\ enq.completo \in BOOLEAN
    /\ enq.timerId \in Timers \cup {SemTimer}
    /\ enq.timers \in [Timers -> {"livre", "contando", "expirado"}]

TypeOK ==
    /\ TipoEnq /\ gTimeout \in BOOLEAN /\ passo \in {"temporizador", "leitura", "entrega"}
    /\ usb \in Seq(Bytes) /\ ambiente \in Ambientes /\ enviados \in 0..LimQuadros

-----------------------------------------------------------------------------
\* The hardware timers, by TimerMaxim: the lowest free one is taken; closing the id
\* that stands for none does nothing.
Habilita(s) ==
    LET livres == {t \in Timers : s.timers[t] = "livre"} IN
    IF livres = {} THEN [s EXCEPT !.timerId = SemTimer]
    ELSE [s EXCEPT !.timerId = Min(livres), !.timers[Min(livres)] = "contando"]

Fecha(s) ==
    [s EXCEPT !.timers = [t \in Timers |-> IF t = s.timerId THEN "livre" ELSE s.timers[t]]]

\* mutant: the timer in course is not closed
RearmaMut(s) == Habilita(s)
Rearma(s)    == Habilita(Fecha(s))

\* The object before any byte, with the timers as ts.
Zerada(ts, r) ==
    [estado |-> "IDLE", tamTam |-> 2, nTam |-> 0, bufTam |-> [i \in 1..4 |-> 0],
     comando |-> INVALIDO, campoTamanho |-> 0, dadosSz |-> 0, dados |-> <<>>,
     completo |-> FALSE, timerId |-> SemTimer, timers |-> ts, recebida |-> r]

\* mutant: the counters of the frame are kept
ZeraVariaveisMut(s) == [s EXCEPT !.estado = "IDLE", !.completo = FALSE, !.timerId = SemTimer]

\* zeraVariaveis forgets the timer and does not close it.
ZeraVariaveis(s) == Zerada(s.timers, s.recebida)

-----------------------------------------------------------------------------
\* The state machine, a byte at a time

Idle(s, b) ==
    IF b \in Comandos
    THEN Habilita([s EXCEPT !.comando = b, !.estado = "TAMANHO",
                            !.tamTam = IF b = ENVIAR_MENSAGEM THEN 2 ELSE 4])
    ELSE s

\* mutant: the bytes of the size taken in the other order
ValorMut(bt, n) == bt[1] + bt[2] * Base
Valor(bt, n) ==
    IF n = 2 THEN bt[1] * Base + bt[2]
    ELSE ((bt[1] * Base + bt[2]) * Base + bt[3]) * Base + bt[4]

\* mutant: the last byte is recognised, the others are all counted
TamanhoMut(s, b) ==
    LET lido == [s EXCEPT !.bufTam[s.nTam + 1] = b] IN
    Rearma(CASE s.nTam = s.tamTam - 1 ->
                    [lido EXCEPT !.estado = "RX",
                                 !.campoTamanho = Valor(lido.bufTam, s.tamTam)]
             [] OTHER -> [lido EXCEPT !.nTam = @ + 1])

\* The count of size bytes is not reset when the size is complete.
Tamanho(s, b) ==
    LET lido == [s EXCEPT !.bufTam[s.nTam + 1] = b] IN
    Rearma(CASE s.nTam < s.tamTam - 1 -> [lido EXCEPT !.nTam = @ + 1]
             [] s.nTam = s.tamTam - 1 ->
                    [lido EXCEPT !.estado = "RX",
                                 !.campoTamanho = Valor(lido.bufTam, s.tamTam)]
             [] OTHER -> s)

\* mutant: a frame of one byte of data less
UltimoMut(s) == (s.campoTamanho - 2) % Mod32
Ultimo(s)    == (s.campoTamanho - 1) % Mod32

\* dados_sz and the count of size bytes stay as they are when the frame completes; a
\* byte beyond the last is ignored.  Zero is read as the largest size.  The sequence has
\* no bound: the code does not compare dados_sz with the 4000 bytes of buffer_dados, nor
\* campoTamanho with the 3500 of dados_arq (pdafcdc.cpp:36), and what it does past their
\* ends is not modelled.
Rx(s, b) ==
    LET gravado == [s EXCEPT !.dados = Append(SubSeq(@, 1, s.dadosSz), b)] IN
    CASE s.dadosSz < Ultimo(s) -> Rearma([gravado EXCEPT !.dadosSz = @ + 1])
      [] s.dadosSz = Ultimo(s) -> [Fecha(gravado) EXCEPT !.estado = "IDLE", !.completo = TRUE,
                                                         !.recebida = gravado.dados]
      [] OTHER -> s

HandleFsm(s, b) ==
    CASE s.estado = "IDLE"    -> Idle(s, b)
      [] s.estado = "TAMANHO" -> Tamanho(s, b)
      [] s.estado = "RX"      -> Rx(s, b)

\* The machine after the bytes of a chunk, one by one.
Alimenta(s, bs) ==
    LET depois[i \in 0..Len(bs)] == IF i = 0 THEN s ELSE HandleFsm(depois[i - 1], bs[i])
    IN  depois[Len(bs)]

-----------------------------------------------------------------------------
\* A pass of possuiJson

\* timeout_handler closes the timer that zeraVariaveis has just forgotten.
Temporizador ==
    /\ passo = "temporizador" /\ passo' = "leitura"
    /\ enq' = IF gTimeout THEN Fecha(ZeraVariaveis(enq)) ELSE enq
    /\ gTimeout' = FALSE
    /\ UNCHANGED <<usb, ambiente, enviados, inteiros, entregues>>

\* le_usb feeds the whole chunk; what is still on its way comes in a later one.
Leitura(n) ==
    /\ passo = "leitura"
    /\ n <= Len(usb) /\ n <= Lote /\ (n = 0 => usb = <<>>)
    /\ usb' = SubSeq(usb, n + 1, Len(usb))
    /\ enq' = Alimenta(enq, SubSeq(usb, 1, n))
    /\ passo' = IF n > 0 /\ enq'.completo THEN "entrega" ELSE "temporizador"
    /\ UNCHANGED <<gTimeout, ambiente, enviados, inteiros, entregues>>

\* getLenDados and sendToArq: as many bytes of buffer_dados as campoTamanho says.
Entregue(s) ==
    [comando |-> s.comando,
     dados |-> [i \in 1..s.campoTamanho |-> IF i <= Len(s.dados) THEN s.dados[i] ELSE 0]]

Entrega ==
    /\ passo = "entrega" /\ passo' = "temporizador"
    /\ entregues' = Append(entregues, Entregue(enq))
    /\ enq' = ZeraVariaveis(enq)
    /\ UNCHANGED <<gTimeout, usb, ambiente, enviados, inteiros>>

\* mutant: the interrupt closes its timer and does not tell
ExpiraMut(t) ==
    /\ enq.timers[t] = "contando"
    /\ ambiente.pontual /\ t = enq.timerId => usb = <<>>
    /\ enq' = Fecha([enq EXCEPT !.timers[t] = "expirado"])
    /\ UNCHANGED <<gTimeout, passo, usb, ambiente, enviados, inteiros, entregues>>

\* The interrupt closes the timer that timer_id names, whichever expired.  If the loop
\* is punctual, the timer of a frame expires only when the PAF is silent.
Expira(t) ==
    /\ enq.timers[t] = "contando"
    /\ ambiente.pontual /\ t = enq.timerId => usb = <<>>
    /\ gTimeout' = TRUE
    /\ enq' = Fecha([enq EXCEPT !.timers[t] = "expirado"])
    /\ UNCHANGED <<passo, usb, ambiente, enviados, inteiros, entregues>>

-----------------------------------------------------------------------------
\* The PAF frames its messages as receiveFromArq does; a binary has a longer size.
EnquadraMut(m) == <<ENVIAR_MENSAGEM, Len(m) % Base, Len(m) \div Base>> \o m  \* mutant: swapped
Enquadra(m)    == <<ENVIAR_MENSAGEM, Len(m) \div Base, Len(m) % Base>> \o m
EnquadraBinario(m) == <<ENVIAR_BINARIO, 0, 0, Len(m) \div Base, Len(m) % Base>> \o m

Quadro(c, m) == IF c = ENVIAR_MENSAGEM THEN Enquadra(m) ELSE EnquadraBinario(m)

\* A contained PAF writes when the device has taken what came before, or when it has
\* been silent for as long as the device needs to forget it.
PodeEscrever(bytes) ==
    /\ enviados < ambiente.quadros
    /\ Len(usb) + Len(bytes) <= LimUsb
    /\ ambiente.contido => usb = <<>> /\ enq.estado = "IDLE" /\ passo # "entrega"

PafEscreve(c, m) ==
    /\ PodeEscrever(Quadro(c, m))
    /\ usb' = usb \o Quadro(c, m)
    /\ enviados' = enviados + 1
    /\ inteiros' = Append(inteiros, [comando |-> c, dados |-> m])
    /\ UNCHANGED <<enq, gTimeout, passo, ambiente, entregues>>

\* It is unplugged or stopped in the middle of a frame.
PafInterrompe(c, m, n) ==
    /\ PodeEscrever(Quadro(c, m)) /\ n < Len(Quadro(c, m))
    /\ usb' = usb \o SubSeq(Quadro(c, m), 1, n)
    /\ enviados' = enviados + 1
    /\ UNCHANGED <<enq, gTimeout, passo, ambiente, inteiros, entregues>>

\* It announces a frame of size zero and sends no data; a contained PAF announces the
\* size of what it sends.
PafVazio(c) ==
    /\ ~ambiente.contido /\ PodeEscrever(Quadro(c, <<>>))
    /\ usb' = usb \o Quadro(c, <<>>)
    /\ enviados' = enviados + 1
    /\ UNCHANGED <<enq, gTimeout, passo, ambiente, inteiros, entregues>>

-----------------------------------------------------------------------------
Init ==
    /\ enq = Zerada([t \in Timers |-> "livre"], <<>>)
    /\ gTimeout = FALSE /\ passo = "temporizador"
    /\ usb = <<>> /\ ambiente \in Ambientes
    /\ enviados = 0 /\ inteiros = <<>> /\ entregues = <<>>

Next ==
    \/ Temporizador
    \/ \E n \in 0..Lote : Leitura(n)
    \/ Entrega
    \/ \E t \in Timers : Expira(t)
    \/ \E c \in Comandos, m \in Mensagens : PafEscreve(c, m)
    \/ \E c \in Comandos, m \in Mensagens, n \in 1..LimUsb : PafInterrompe(c, m, n)
    \/ \E c \in Comandos : PafVazio(c)

\* The main loop never blocks and the timers count by themselves; nothing is asked of
\* the PAF.
Justica ==
    /\ WF_vars(Temporizador) /\ WF_vars(\E n \in 0..Lote : Leitura(n)) /\ WF_vars(Entrega)
    /\ \A t \in Timers : WF_vars(Expira(t))

Spec      == Init /\ [][Next]_vars
SpecJusta == Spec /\ Justica

-----------------------------------------------------------------------------
Ordeira == ambiente.contido /\ ambiente.pontual

\* With a contained PAF and a punctual loop, ARQ receives the frames that were written
\* whole, as they were written and in order, whatever the chunks and however many
\* frames were cut short before (a frame that stops is forgotten, not completed with
\* the bytes of the next).
QuadrosFieis ==
    Ordeira => IsPrefix(entregues, inteiros) /\ Len(inteiros) <= Len(entregues) + 1

\* And every one of them reaches ARQ.
QuadrosChegam ==
    \A k \in 1..LimQuadros :
        Ordeira /\ Len(inteiros) >= k ~> Len(entregues) >= k

\* There, framing never holds more than one timer of the pool it shares with ARQ, and
\* none between frames, although zeraVariaveis forgets its timer (enquadramento.cpp:110).
SemVazamento ==
    Ordeira => \A t \in Timers :
        enq.timers[t] # "livre" => t = enq.timerId /\ enq.estado # "IDLE"

\* In any environment, the machine does not stay in the middle of a frame that stopped,
\* a frame that announces size zero, which completes only after 2^32 bytes
\* (enquadramento.cpp:259), and the leftovers of the previous frame included, unless the
\* pool had no timer.
VoltaAoRepouso == enq.estado # "IDLE" ~> enq.estado = "IDLE" \/ enq.timerId = SemTimer

\* "obtem o tamanho do campo dados da mensagem recebida" (enquadramento.h:126): when a
\* complete frame is handed to ARQ, getLenDados is the size of that frame.
TamanhoDaMensagemRecebida == passo = "entrega" => enq.campoTamanho = Len(enq.recebida)

=============================================================================
