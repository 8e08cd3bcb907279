-------------------------------- MODULE Arq --------------------------------
(***************************************************************************)
(* The stop-and-wait layer of the device (src/src/com/arq.cpp), as the main*)
(* loop drives it: each pass of PDAFCDC::possuiJson handles an expired     *)
(* timer first and then at most one frame; a request that the frame        *)
(* delivers is processed and its answer handed back in the same pass.      *)
(*                                                                         *)
(* Timers expire in an interrupt, between any two steps of the loop.  The  *)
(* other side is a PAF that numbers, repeats and acknowledges as stop and  *)
(* wait asks, and repeats until it is acknowledged.  USB keeps the order;  *)
(* frames are lost when the framing of either side discards them.          *)
(***************************************************************************)
EXTENDS Integers, Sequences, FiniteSets

CONSTANTS
    NPedidos,       \* bound of the model: requests of the PAF
    LimCanal,       \* bound of the model: frames in transit in each direction
    TENTATIVAS_MAX, \* retransmissions before the device gives up (3 in the code)
    Timers,         \* hardware timers that TimerMaxim may take
    SemTimer        \* what enable_callback returns when none is free

ASSUME LimitesAssumption ==
    /\ NPedidos \in Nat /\ LimCanal \in Nat /\ TENTATIVAS_MAX \in Nat
    /\ IsFiniteSet(Timers) /\ SemTimer \notin Timers

VARIABLES
    estado,      \* "IDLE" or "WAIT"
    seqTx, seqRx,
    tentativas,  \* tentativasDeRetransmissao
    enviada,     \* buffer_mensagem_enviada, with its control byte
    timers,      \* hardware timers: free, counting, or expired and not closed
    timerId,     \* ARQ::timer_id
    gTimeout,    \* g_timeout, set by the interrupt
    passo,       \* what the main loop does next
    pafDaf, dafPaf,                 \* frames in transit
    enviados, pafEspera, pafTx, pafRx, \* the PAF: requests sent, waiting, its numbers
    processados, \* history: requests that the DAF processed
    entregues,   \* history: answers that the PAF received
    desistiu     \* history: an answer was given up

temporizacao == <<timers, timerId, gTimeout>>
daf  == <<estado, seqTx, seqRx, tentativas, enviada, temporizacao, passo, processados, desistiu>>
paf  == <<enviados, pafEspera, pafTx, pafRx, entregues>>
vars == <<daf, paf, pafDaf, dafPaf>>

\* An answer carries the number of its request.
DATA(s, n) == [tipo |-> "DATA", seq |-> s, num |-> n]
ACK(s)     == [tipo |-> "ACK", seq |-> s]
Quadros == {DATA(s, n) : s \in BOOLEAN, n \in 1..NPedidos} \cup {ACK(s) : s \in BOOLEAN}

TypeOK ==
    /\ estado \in {"IDLE", "WAIT"} /\ seqTx \in BOOLEAN /\ seqRx \in BOOLEAN
    /\ tentativas \in 0..TENTATIVAS_MAX
    /\ enviada \in {DATA(s, n) : s \in BOOLEAN, n \in 0..NPedidos}
    /\ timers \in [Timers -> {"livre", "contando", "expirado"}]
    /\ timerId \in Timers \cup {SemTimer} /\ gTimeout \in BOOLEAN
    /\ passo \in {"temporizador", "leitura"}
    /\ pafDaf \in Seq(Quadros) /\ dafPaf \in Seq(Quadros)
    /\ enviados \in 0..NPedidos /\ pafEspera \in BOOLEAN
    /\ pafTx \in BOOLEAN /\ pafRx \in BOOLEAN
    /\ processados \in Seq(1..NPedidos) /\ entregues \in Seq(1..NPedidos)
    /\ desistiu \in BOOLEAN

Init ==
    /\ estado = "IDLE" /\ seqTx = FALSE /\ seqRx = FALSE
    /\ tentativas = 0 /\ enviada = DATA(FALSE, 0)
    /\ timers = [t \in Timers |-> "livre"] /\ timerId = SemTimer /\ gTimeout = FALSE
    /\ passo = "temporizador"
    /\ pafDaf = <<>> /\ dafPaf = <<>>
    /\ enviados = 0 /\ pafEspera = FALSE /\ pafTx = FALSE /\ pafRx = FALSE
    /\ processados = <<>> /\ entregues = <<>> /\ desistiu = FALSE

-----------------------------------------------------------------------------
\* Any of the frames given to a channel may be lost.
Transmite(canal, quadros) ==
    {canal \o s : s \in {<<>>, quadros} \cup {<<quadros[i]>> : i \in DOMAIN quadros}}

CabeEm(canal) == Len(canal) <= LimCanal

EnviaAoPaf(quadros) == dafPaf' \in Transmite(dafPaf, quadros) /\ CabeEm(dafPaf')

\* TimerMaxim::disable_callback closes a timer whatever its state; the id that
\* stands for none is no timer.
Fecha(ts, t) == [x \in Timers |-> IF x = t THEN "livre" ELSE ts[x]]

\* TimerMaxim::enable_callback, with the timers as ts.
Habilita(ts) ==
    LET livres == {t \in Timers : ts[t] = "livre"} IN
    \/ livres = {} /\ timers' = ts /\ timerId' = SemTimer
    \/ \E t \in livres : timers' = [ts EXCEPT ![t] = "contando"] /\ timerId' = t

\* mutants: one attempt too many; attempts not counted; the timer not enabled again;
\* the number of the message taken from seq_tx
PodeRepetirMut == tentativas <= TENTATIVAS_MAX
PodeRepetir    == tentativas < TENTATIVAS_MAX
MaisUmaMut == UNCHANGED tentativas
MaisUma    == tentativas' = tentativas + 1
RearmaMut == timers' = Fecha(timers, timerId) /\ UNCHANGED timerId
Rearma    == Habilita(Fecha(timers, timerId))
RepetidaMut == [enviada EXCEPT !.seq = seqTx]
Repetida    == enviada

\* mecanismoDeRetransmissao: giving up leaves seq_tx as it was.
Retransmite ==
    /\ UNCHANGED <<seqTx, seqRx, enviada, processados>>
    /\ \/ /\ PodeRepetir /\ MaisUma
          /\ EnviaAoPaf(<<Repetida>>)
          /\ Rearma
          /\ UNCHANGED <<estado, desistiu>>
       \/ /\ ~PodeRepetir
          /\ estado' = "IDLE" /\ tentativas' = 0
          /\ timers' = Fecha(timers, timerId)
          /\ desistiu' = (desistiu \/ estado = "WAIT")
          /\ UNCHANGED <<timerId, dafPaf>>

\* The interrupt closes the timer that ARQ::timer_id names, whichever expired.
Expira(t) ==
    /\ timers[t] = "contando"
    /\ gTimeout' = TRUE
    /\ timers' = Fecha([timers EXCEPT ![t] = "expirado"], timerId)
    /\ UNCHANGED <<estado, seqTx, seqRx, tentativas, enviada, timerId, passo, processados,
                   desistiu, paf, pafDaf, dafPaf>>

\* timeout_handler, first thing of each pass and in either state
Temporizador ==
    /\ passo = "temporizador" /\ passo' = "leitura"
    /\ \/ gTimeout /\ gTimeout' = FALSE /\ Retransmite
       \/ /\ ~gTimeout
          /\ UNCHANGED <<estado, seqTx, seqRx, tentativas, enviada, temporizacao, processados,
                         desistiu, dafPaf>>
    /\ UNCHANGED <<paf, pafDaf>>

-----------------------------------------------------------------------------
\* Frames that arrive (wait and idle)

\* mutant: any ACK ends the wait
RecebeAckMut(s) ==
    IF estado = "WAIT"
    THEN /\ seqTx' = ~seqTx /\ estado' = "IDLE" /\ tentativas' = 0
         /\ timers' = Fecha(timers, timerId)
         /\ UNCHANGED <<seqRx, enviada, timerId, processados, desistiu, dafPaf>>
    ELSE UNCHANGED <<estado, seqTx, seqRx, tentativas, enviada, timers, timerId, processados,
                     desistiu, dafPaf>>

\* An ACK in IDLE is ignored.
RecebeAck(s) ==
    \/ estado = "IDLE" /\ UNCHANGED <<estado, seqTx, seqRx, tentativas, enviada, timers,
                                      timerId, processados, desistiu, dafPaf>>
    \/ /\ estado = "WAIT" /\ s = seqTx
       /\ seqTx' = ~seqTx /\ estado' = "IDLE" /\ tentativas' = 0
       /\ timers' = Fecha(timers, timerId)
       /\ UNCHANGED <<seqRx, enviada, timerId, processados, desistiu, dafPaf>>
    \/ estado = "WAIT" /\ s # seqTx /\ Retransmite

\* The wanted number flips before the ACK in WAIT and after it in IDLE, so in WAIT
\* the ACK has the wrong number; there the answer is also refused
\* (receiveFromAPIDAF).  Some requests have no answer.
RecebeNovo(q) ==
    /\ seqRx' = ~seqRx
    /\ processados' = Append(processados, q.num)
    /\ UNCHANGED <<seqTx, tentativas, desistiu>>
    /\ \/ /\ estado = "IDLE"
          /\ EnviaAoPaf(<<ACK(seqRx)>>)
          /\ UNCHANGED <<estado, enviada, timers, timerId>>
       \/ /\ estado = "IDLE"
          /\ estado' = "WAIT" /\ enviada' = DATA(seqTx, q.num)
          /\ EnviaAoPaf(<<ACK(seqRx), DATA(seqTx, q.num)>>)
          /\ Habilita(timers)
       \/ /\ estado = "WAIT"
          /\ EnviaAoPaf(<<ACK(seqRx')>>)
          /\ UNCHANGED <<estado, enviada, timers, timerId>>

RecebeRepetido ==
    /\ EnviaAoPaf(<<ACK(~seqRx)>>)
    /\ UNCHANGED <<estado, seqTx, seqRx, tentativas, enviada, timers, timerId, processados,
                   desistiu>>

\* mutant: what was received before is not told apart
NovoMut(q) == TRUE
Novo(q)    == q.seq = seqRx

Leitura ==
    /\ passo = "leitura" /\ passo' = "temporizador"
    /\ \/ pafDaf = <<>> /\ UNCHANGED <<estado, seqTx, seqRx, tentativas, enviada, timers, timerId,
                                       processados, desistiu, pafDaf, dafPaf>>
       \/ /\ pafDaf # <<>> /\ pafDaf' = Tail(pafDaf)
          /\ LET q == Head(pafDaf) IN
             \/ q.tipo = "ACK" /\ RecebeAck(q.seq)
             \/ q.tipo = "DATA" /\ Novo(q) /\ RecebeNovo(q)
             \/ q.tipo = "DATA" /\ ~Novo(q) /\ RecebeRepetido
    /\ UNCHANGED <<gTimeout, paf>>

-----------------------------------------------------------------------------
\* The PAF
EnviaAoDaf(q) == pafDaf' \in Transmite(pafDaf, <<q>>) /\ CabeEm(pafDaf')

PafEnvia ==
    /\ ~pafEspera /\ enviados < NPedidos
    /\ enviados' = enviados + 1 /\ pafEspera' = TRUE
    /\ EnviaAoDaf(DATA(pafTx, enviados'))
    /\ UNCHANGED <<pafTx, pafRx, entregues, daf, dafPaf>>

PafRepete ==
    /\ pafEspera /\ EnviaAoDaf(DATA(pafTx, enviados))
    /\ UNCHANGED <<paf, daf, dafPaf>>

PafRecebeAck(s) ==
    /\ \/ pafEspera /\ s = pafTx /\ pafEspera' = FALSE /\ pafTx' = ~pafTx
       \/ ~(pafEspera /\ s = pafTx) /\ UNCHANGED <<pafEspera, pafTx>>
    /\ UNCHANGED <<pafRx, entregues, pafDaf>>

PafRecebeResposta(q) ==
    /\ EnviaAoDaf(ACK(q.seq))
    /\ \/ q.seq = pafRx /\ pafRx' = ~pafRx /\ entregues' = Append(entregues, q.num)
       \/ q.seq # pafRx /\ UNCHANGED <<pafRx, entregues>>
    /\ UNCHANGED <<pafEspera, pafTx>>

PafRecebe ==
    /\ dafPaf # <<>> /\ dafPaf' = Tail(dafPaf)
    /\ LET q == Head(dafPaf) IN
       \/ q.tipo = "ACK" /\ PafRecebeAck(q.seq)
       \/ q.tipo = "DATA" /\ PafRecebeResposta(q)
    /\ UNCHANGED <<enviados, daf>>

-----------------------------------------------------------------------------
Next ==
    \/ Temporizador \/ Leitura
    \/ \E t \in Timers : Expira(t)
    \/ PafEnvia \/ PafRepete \/ PafRecebe

\* The main loop never blocks (TimerMaxim's timers count by themselves); nothing is
\* asked of the PAF or of the channels.
Justica ==
    /\ WF_vars(Temporizador) /\ WF_vars(Leitura)
    /\ \A t \in Timers : WF_vars(Expira(t))

Spec      == Init /\ [][Next]_vars
SpecJusta == Spec /\ Justica

-----------------------------------------------------------------------------
\* Requests reach the DAF once each and in order, and the PAF sees one confirmed only
\* after it was processed, although the ACKs sent in WAIT have the wrong number
\* (arq.cpp:163-164).
Pedidos == INSTANCE EntregaEmOrdem
              WITH enviadas <- enviados, entregues <- processados, pendente <- pafEspera
ImplementaEntrega == Pedidos!Spec

\* The PAF never receives an answer twice or an older one after a newer, whatever the
\* retransmissions, those that a late timeout makes in IDLE included.
RespostaUmaVez ==
    \A i, j \in DOMAIN entregues : i < j => entregues[i] < entregues[j]

\* As long as the device has given up no answer, back in IDLE the last one has arrived.
RespostaConfirmadaChegou ==
    estado = "IDLE" /\ ~desistiu /\ enviada.num # 0
        => entregues # <<>> /\ entregues[Len(entregues)] = enviada.num

\* While the device waits, a timer counts or its expiry is about to be handled, although
\* the interrupt may close another timer than the one that expired (arq.cpp:88-89).
EsperaVigiada ==
    estado = "WAIT" /\ timerId # SemTimer
        => gTimeout \/ \E t \in Timers : timers[t] = "contando"

\* The device does not wait for ever: the ACK comes or it gives up, unless it ran out
\* of hardware timers.
EsperaTermina == estado = "WAIT" ~> (estado = "IDLE" \/ timerId = SemTimer)

\* enable_callback returns a timer (test_timer_maxim.cpp:30-31 asserts that its id is
\* not negative), so a device that waits has one.
EsperaTemTimer == estado = "WAIT" => timerId # SemTimer

=============================================================================
