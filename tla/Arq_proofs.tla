----------------------------- MODULE Arq_proofs -----------------------------
(***************************************************************************)
(* Proofs about the stop-and-wait layer, for any number of requests, frames *)
(* in transit, attempts and timers: types; requests are processed once, in *)
(* order, and confirmed only then (refinement of EntregaEmOrdem); answers  *)
(* never arrive twice; a wait is watched by a timer.                       *)
(***************************************************************************)
EXTENDS Arq, SequenceTheorems, TLAPS

-----------------------------------------------------------------------------
(* Frames and channels                                                       *)

\* What a frame of each kind carries.
LEMMA TipoDoDado ==
    ASSUME NEW q \in Quadros, q.tipo = "DATA"
    PROVE  q.seq \in BOOLEAN /\ q.num \in 1..NPedidos /\ q = DATA(q.seq, q.num)
  BY DEF Quadros, DATA, ACK

\* The same for an ACK.
LEMMA TipoDoAck ==
    ASSUME NEW q \in Quadros, q.tipo # "DATA"
    PROVE  q.tipo = "ACK" /\ q.seq \in BOOLEAN /\ q = ACK(q.seq)
  BY DEF Quadros, DATA, ACK

\* The frames that either side builds.
LEMMA UmDado ==
    ASSUME NEW s \in BOOLEAN, NEW n \in 1..NPedidos
    PROVE  DATA(s, n) \in Quadros /\ DATA(s, n).tipo = "DATA" /\ DATA(s, n).seq = s
           /\ DATA(s, n).num = n
  BY DEF Quadros, DATA, ACK

\* And the ACKs.
LEMMA UmAck ==
    ASSUME NEW s \in BOOLEAN
    PROVE  ACK(s) \in Quadros /\ ACK(s).tipo = "ACK" /\ ACK(s).seq = s
  BY DEF Quadros, DATA, ACK

\* A frame that is sent is lost or comes last.
LEMMA EnvioDeUm ==
    ASSUME NEW c \in Seq(Quadros), NEW q \in Quadros, NEW d \in Transmite(c, <<q>>)
    PROVE  d \in Seq(Quadros) /\ (d = c \/ d = Append(c, q))
<1>0. Append(c, q) \in Seq(Quadros)
  BY AppendProperties
<1>1. c \o <<>> = c /\ c \o <<q>> = Append(c, q)
  BY ConcatEmptySeq, AppendIsConcat
<1>2. PICK s \in {<<>>, <<q>>} \cup {<< <<q>>[i] >> : i \in DOMAIN <<q>>} : d = c \o s
  BY DEF Transmite
<1>3. s = <<>> \/ s = <<q>>
  BY <1>2
<1> QED
  BY <1>0, <1>1, <1>2, <1>3

\* Of two frames that are sent together each may be lost, and they keep their order.
LEMMA EnvioDeDois ==
    ASSUME NEW c \in Seq(Quadros), NEW a \in Quadros, NEW q \in Quadros,
           NEW d \in Transmite(c, <<a, q>>)
    PROVE  /\ d \in Seq(Quadros)
           /\ \/ d = c \/ d = Append(c, a)
              \/ d = Append(c, q) \/ d = Append(Append(c, a), q)
<1>0. /\ Append(c, a) \in Seq(Quadros) /\ Append(c, q) \in Seq(Quadros)
      /\ Append(Append(c, a), q) \in Seq(Quadros)
  BY AppendProperties
<1>1. c \o <<>> = c /\ c \o <<a>> = Append(c, a) /\ c \o <<q>> = Append(c, q)
  BY ConcatEmptySeq, AppendIsConcat
<1>2. c \o <<a, q>> = Append(Append(c, a), q)
  <2>1. Append(c, a) \in Seq(Quadros) /\ <<a>> \in Seq(Quadros) /\ <<q>> \in Seq(Quadros)
        /\ <<a, q>> \in Seq(Quadros) /\ Len(<<a, q>>) = 2 /\ Len(<<a>>) = 1
    BY AppendProperties
  <2>2. Append(Append(c, a), q) = (c \o <<a>>) \o <<q>>
    BY <1>1, <2>1, AppendIsConcat
  <2>3. <<a>> \o <<q>> = <<a, q>>
    <3>1. Append(<<a>>, q) \in Seq(Quadros) /\ Len(Append(<<a>>, q)) = 2
          /\ Append(<<a>>, q)[1] = a /\ Append(<<a>>, q)[2] = q
      BY <2>1, AppendProperties
    <3>2. \A i \in 1..2 : Append(<<a>>, q)[i] = <<a, q>>[i]
      BY <3>1
    <3>3. Append(<<a>>, q) = <<a, q>>
      BY <2>1, <3>1, <3>2, SeqEqual
    <3> QED
      BY <2>1, <3>3, AppendIsConcat
  <2>4. (c \o <<a>>) \o <<q>> = c \o (<<a>> \o <<q>>)
    BY <2>1, ConcatAssociative
  <2> QED
    BY <2>2, <2>3, <2>4
<1>3. PICK s \in {<<>>, <<a, q>>} \cup {<< <<a, q>>[i] >> : i \in DOMAIN <<a, q>>} : d = c \o s
  BY DEF Transmite
<1>4. s = <<>> \/ s = <<a, q>> \/ s = <<a>> \/ s = <<q>>
  BY <1>3
<1> QED
  BY <1>0, <1>1, <1>2, <1>3, <1>4

\* The frames of a channel after one was sent, and after one was received.
LEMMA DepoisDoEnvio ==
    ASSUME NEW c \in Seq(Quadros), NEW q \in Quadros
    PROVE  /\ Append(c, q) \in Seq(Quadros) /\ Len(Append(c, q)) = Len(c) + 1 /\ Len(c) \in Nat
           /\ \A i \in 1..Len(Append(c, q)) :
                 Append(c, q)[i] = IF i <= Len(c) THEN c[i] ELSE q
  BY AppendProperties, LenProperties

\* The ones left after the first was received.
LEMMA DepoisDaRecepcao ==
    ASSUME NEW c \in Seq(Quadros), c # <<>>
    PROVE  /\ Tail(c) \in Seq(Quadros) /\ Len(c) \in Nat \ {0} /\ Len(Tail(c)) = Len(c) - 1
           /\ Head(c) = c[1] /\ c[1] \in Quadros
           /\ \A i \in 1..Len(Tail(c)) : i + 1 \in 1..Len(c) /\ Tail(c)[i] = c[i + 1]
  BY HeadTailProperties, LenProperties, EmptySeq

\* Predicates on a channel: the numbers of the requests or answers in it do not go down;
\* the ACKs have number s; none with another number comes after one with number s.
EmOrdem(c) == \A i, j \in 1..Len(c) :
    i < j /\ c[i].tipo = "DATA" /\ c[j].tipo = "DATA" => c[i].num <= c[j].num
AcksSao(c, s) == \A i \in 1..Len(c) : c[i].tipo = "ACK" => c[i].seq = s
AcksAte(c, s) == \A i, j \in 1..Len(c) :
    i < j /\ c[i].tipo = "ACK" /\ c[j].tipo = "ACK" /\ c[i].seq = s => c[j].seq = s

\* Receiving the first frame keeps them.
LEMMA Recepcao ==
    ASSUME NEW c \in Seq(Quadros), c # <<>>, NEW s \in BOOLEAN
    PROVE  /\ EmOrdem(c) => EmOrdem(Tail(c))
           /\ AcksSao(c, s) => AcksSao(Tail(c), s)
           /\ AcksAte(c, s) => AcksAte(Tail(c), s)
           /\ AcksAte(c, s) /\ c[1].tipo = "ACK" /\ c[1].seq = s => AcksSao(Tail(c), s)
<1>1. /\ Tail(c) \in Seq(Quadros) /\ Len(c) \in Nat \ {0} /\ Len(Tail(c)) = Len(c) - 1
      /\ \A i \in 1..Len(Tail(c)) : i + 1 \in 1..Len(c) /\ Tail(c)[i] = c[i + 1]
  BY DepoisDaRecepcao
<1> DEFINE d == Tail(c)
<1>2. /\ Len(c) \in Nat \ {0} /\ Len(d) = Len(c) - 1
      /\ \A i \in 1..Len(d) : i + 1 \in 1..Len(c) /\ d[i] = c[i + 1]
  BY <1>1
<1> HIDE DEF d
<1>3. EmOrdem(c) => EmOrdem(d)
  BY <1>2 DEF EmOrdem
<1>5. AcksSao(c, s) => AcksSao(d, s)
  BY <1>2 DEF AcksSao
<1>6. AcksAte(c, s) => AcksAte(d, s)
  BY <1>2 DEF AcksAte
<1>7. AcksAte(c, s) /\ c[1].tipo = "ACK" /\ c[1].seq = s => AcksSao(d, s)
  BY <1>2 DEF AcksAte, AcksSao
<1> QED
  BY <1>3, <1>5, <1>6, <1>7 DEF d

\* Sending a request or an answer keeps the order if it is not older than those before.
LEMMA EnvioDeDado ==
    ASSUME NEW c \in Seq(Quadros), NEW q \in Quadros, q.tipo = "DATA", NEW s \in BOOLEAN
    PROVE  /\ EmOrdem(c) /\ (\A i \in 1..Len(c) : c[i].tipo = "DATA" => c[i].num <= q.num)
                => EmOrdem(Append(c, q))
           /\ AcksSao(c, s) => AcksSao(Append(c, q), s)
           /\ AcksAte(c, s) => AcksAte(Append(c, q), s)
<1> DEFINE d == Append(c, q)
<1>1. /\ Len(d) = Len(c) + 1 /\ Len(c) \in Nat
      /\ \A i \in 1..Len(d) : d[i] = IF i <= Len(c) THEN c[i] ELSE q
  BY DepoisDoEnvio
<1> HIDE DEF d
<1>2. EmOrdem(c) /\ (\A i \in 1..Len(c) : c[i].tipo = "DATA" => c[i].num <= q.num) => EmOrdem(d)
  BY <1>1 DEF EmOrdem
<1>4. AcksSao(c, s) => AcksSao(d, s)
  BY <1>1 DEF AcksSao
<1>5. AcksAte(c, s) => AcksAte(d, s)
  BY <1>1 DEF AcksAte
<1> QED
  BY <1>2, <1>4, <1>5 DEF d

\* Sending an ACK keeps the order of the others, and its own if it has number s or none has.
LEMMA EnvioDeAck ==
    ASSUME NEW c \in Seq(Quadros), NEW x \in BOOLEAN, NEW s \in BOOLEAN
    PROVE  /\ EmOrdem(c) => EmOrdem(Append(c, ACK(x)))
           /\ AcksSao(c, s) /\ x = s => AcksSao(Append(c, ACK(x)), s)
           /\ AcksAte(c, s) /\ x = s => AcksAte(Append(c, ACK(x)), s)
           /\ AcksSao(c, ~s) => AcksAte(Append(c, ACK(x)), s)
<1> DEFINE d == Append(c, ACK(x))
<1>1. /\ Len(d) = Len(c) + 1 /\ Len(c) \in Nat
      /\ \A i \in 1..Len(d) : d[i] = IF i <= Len(c) THEN c[i] ELSE ACK(x)
      /\ ACK(x).tipo = "ACK" /\ ACK(x).seq = x
  BY UmAck, DepoisDoEnvio
<1> HIDE DEF d
<1>2. EmOrdem(c) => EmOrdem(d)
  BY <1>1 DEF EmOrdem
<1>4. AcksSao(c, s) /\ x = s => AcksSao(d, s)
  BY <1>1 DEF AcksSao
<1>5. AcksAte(c, s) /\ x = s => AcksAte(d, s)
  BY <1>1 DEF AcksAte
<1>6. AcksSao(c, ~s) => AcksAte(d, s)
  BY <1>1 DEF AcksAte, AcksSao
<1> QED
  BY <1>2, <1>4, <1>5, <1>6 DEF d

-----------------------------------------------------------------------------
(* Types                                                                     *)

\* A timer counts, or an expiry waits, only after an answer was sent: what is
\* retransmitted is an answer.
HaResposta ==
    estado = "WAIT" \/ gTimeout \/ (\E t \in Timers : timers[t] # "livre") => enviada.num # 0

InvTipo == TypeOK /\ HaResposta /\ (pafEspera => enviados # 0)

Estados == {"livre", "contando", "expirado"}

\* Closing a timer frees it and leaves the others.
LEMMA TimersAoFechar ==
    ASSUME NEW ts \in [Timers -> Estados], NEW t
    PROVE  /\ Fecha(ts, t) \in [Timers -> Estados]
           /\ \A x \in Timers : Fecha(ts, t)[x] = IF x = t THEN "livre" ELSE ts[x]
  BY DEF Fecha, Estados

\* Enabling a timer makes one that was free count, if there is one.
LEMMA TimersAoHabilitar ==
    ASSUME NEW ts \in [Timers -> Estados], Habilita(ts)
    PROVE  /\ timers' \in [Timers -> Estados] /\ timerId' \in Timers \cup {SemTimer}
           /\ \A x \in Timers : ts[x] = "contando" => timers'[x] = "contando"
           /\ timerId' # SemTimer => \E x \in Timers : timers'[x] = "contando"
<1>1. CASE {t \in Timers : ts[t] = "livre"} = {} /\ timers' = ts /\ timerId' = SemTimer
  BY <1>1 DEF Estados
<1>2. CASE \E t \in {t \in Timers : ts[t] = "livre"} :
              timers' = [ts EXCEPT ![t] = "contando"] /\ timerId' = t
  BY <1>2 DEF Estados
<1> QED
  BY <1>1, <1>2 DEF Habilita

\* A retransmission repeats the last answer, which may be lost, or gives it up.
LEMMA EfeitoDaRetransmissao ==
    ASSUME TypeOK, enviada.num # 0, Retransmite
    PROVE  /\ UNCHANGED <<seqTx, seqRx, enviada, processados>>
           /\ timers' \in [Timers -> Estados] /\ timerId' \in Timers \cup {SemTimer}
           /\ tentativas' \in 0..TENTATIVAS_MAX
           /\ enviada \in Quadros /\ enviada.tipo = "DATA"
           /\ dafPaf' \in Seq(Quadros) /\ estado' \in {"IDLE", "WAIT"} /\ desistiu' \in BOOLEAN
           /\ \/ /\ UNCHANGED <<estado, desistiu>>
                 /\ dafPaf' = dafPaf \/ dafPaf' = Append(dafPaf, enviada)
              \/ estado' = "IDLE" /\ desistiu' = (desistiu \/ estado = "WAIT") /\ dafPaf' = dafPaf
           /\ estado' = "WAIT" /\ timerId' # SemTimer => \E t \in Timers : timers'[t] = "contando"
<1>1. timers \in [Timers -> Estados] /\ timerId \in Timers \cup {SemTimer}
  BY DEF TypeOK, Estados
<1>2. enviada \in Quadros /\ enviada.tipo = "DATA"
  <2>1. PICK s \in BOOLEAN, n \in 0..NPedidos : enviada = DATA(s, n)
    BY DEF TypeOK
  <2>2. n \in 1..NPedidos
    BY <2>1, LimitesAssumption DEF DATA
  <2> QED
    BY <2>1, <2>2, UmDado
<1>3. Fecha(timers, timerId) \in [Timers -> Estados]
  BY <1>1, TimersAoFechar
<1>4. UNCHANGED <<seqTx, seqRx, enviada, processados>>
  BY DEF Retransmite
<1>5. CASE PodeRepetir /\ MaisUma /\ EnviaAoPaf(<<Repetida>>) /\ Rearma
           /\ UNCHANGED <<estado, desistiu>>
  <2>1. tentativas' \in 0..TENTATIVAS_MAX
    BY <1>5, LimitesAssumption DEF TypeOK, PodeRepetir, MaisUma
  <2>2. dafPaf' \in Transmite(dafPaf, <<enviada>>)
    BY <1>5 DEF EnviaAoPaf, Repetida
  <2>3. dafPaf' \in Seq(Quadros) /\ (dafPaf' = dafPaf \/ dafPaf' = Append(dafPaf, enviada))
    BY <1>2, <2>2, EnvioDeUm DEF TypeOK
  <2>4. /\ timers' \in [Timers -> Estados] /\ timerId' \in Timers \cup {SemTimer}
        /\ timerId' # SemTimer => \E t \in Timers : timers'[t] = "contando"
    BY <1>3, <1>5, TimersAoHabilitar DEF Rearma
  <2> QED
    BY <1>2, <1>4, <1>5, <2>1, <2>3, <2>4 DEF TypeOK
<1>6. CASE ~PodeRepetir /\ estado' = "IDLE" /\ tentativas' = 0
           /\ timers' = Fecha(timers, timerId)
           /\ desistiu' = (desistiu \/ estado = "WAIT")
           /\ UNCHANGED <<timerId, dafPaf>>
  BY <1>1, <1>2, <1>3, <1>4, <1>6, LimitesAssumption DEF TypeOK
<1> QED
  BY <1>5, <1>6 DEF Retransmite

\* The device starts with no answer, no timer and nothing in transit.
LEMMA TipoInicial == Init => InvTipo
<1> SUFFICES ASSUME Init PROVE InvTipo
  OBVIOUS
<1>1. enviada \in {DATA(s, n) : s \in BOOLEAN, n \in 0..NPedidos}
  <2>1. 0 \in 0..NPedidos
    BY LimitesAssumption
  <2>2. enviada = DATA(FALSE, 0)
    BY DEF Init
  <2>3. \E s \in BOOLEAN, n \in 0..NPedidos : enviada = DATA(s, n)
    BY <2>1, <2>2
  <2> QED
    BY <2>3
<1>2. timers \in [Timers -> {"livre", "contando", "expirado"}]
  BY DEF Init
<1>3. ~gTimeout /\ estado # "WAIT" /\ \A t \in Timers : timers[t] = "livre"
  BY DEF Init
<1>4. /\ pafDaf \in Seq(Quadros) /\ dafPaf \in Seq(Quadros)
      /\ processados \in Seq(1..NPedidos) /\ entregues \in Seq(1..NPedidos)
  BY DEF Init
<1>5. TypeOK
  <2>1. 0 \in 0..NPedidos /\ 0 \in 0..TENTATIVAS_MAX
    BY LimitesAssumption
  <2>2. /\ estado \in {"IDLE", "WAIT"} /\ seqTx \in BOOLEAN /\ seqRx \in BOOLEAN
        /\ timerId \in Timers \cup {SemTimer} /\ gTimeout \in BOOLEAN
        /\ passo \in {"temporizador", "leitura"} /\ pafEspera \in BOOLEAN
        /\ pafTx \in BOOLEAN /\ pafRx \in BOOLEAN /\ desistiu \in BOOLEAN
    BY DEF Init
  <2>3. tentativas \in 0..TENTATIVAS_MAX /\ enviados \in 0..NPedidos
    BY <2>1 DEF Init
  <2> QED
    BY <1>1, <1>2, <1>4, <2>2, <2>3 DEF TypeOK
<1> QED
  BY <1>3, <1>5 DEF Init, InvTipo, HaResposta

\* The types after each action.
LEMMA TipoAoPassar ==
    ASSUME InvTipo, [Next]_vars
    PROVE  InvTipo'
<1> USE LimitesAssumption DEF InvTipo
<1>a. timers \in [Timers -> Estados] /\ timerId \in Timers \cup {SemTimer}
  BY DEF TypeOK, Estados
<1>b. ASSUME timers' \in [Timers -> Estados]
      PROVE  timers' \in [Timers -> {"livre", "contando", "expirado"}]
  BY <1>b DEF Estados
<1>1. ASSUME Temporizador PROVE InvTipo'
  <2>1. CASE gTimeout /\ gTimeout' = FALSE /\ Retransmite
    <3>1. enviada.num # 0
      BY <2>1 DEF HaResposta
    <3>2. TypeOK'
      <4>1. /\ dafPaf' \in Seq(Quadros) /\ estado' \in {"IDLE", "WAIT"} /\ desistiu' \in BOOLEAN
            /\ timers' \in [Timers -> Estados] /\ timerId' \in Timers \cup {SemTimer}
            /\ tentativas' \in 0..TENTATIVAS_MAX
            /\ UNCHANGED <<seqTx, seqRx, enviada, processados>>
        BY <2>1, <3>1, EfeitoDaRetransmissao
      <4>2. /\ passo' = "leitura" /\ gTimeout' = FALSE
            /\ UNCHANGED <<enviados, pafEspera, pafTx, pafRx, entregues, pafDaf>>
        BY <1>1, <2>1 DEF Temporizador, paf
      <4>3. timers' \in [Timers -> {"livre", "contando", "expirado"}] /\ gTimeout' \in BOOLEAN
        BY <4>1, <4>2 DEF Estados
      <4> QED
        BY <4>1, <4>2, <4>3 DEF TypeOK
    <3>3. HaResposta' /\ (pafEspera => enviados # 0)'
      BY <1>1, <2>1, <3>1, EfeitoDaRetransmissao DEF HaResposta, Temporizador, paf
    <3> QED
      BY <3>2, <3>3
  <2>2. CASE /\ ~gTimeout
             /\ UNCHANGED <<estado, seqTx, seqRx, tentativas, enviada, temporizacao, processados,
                            desistiu, dafPaf>>
    BY <1>1, <2>2 DEF TypeOK, HaResposta, Temporizador, temporizacao, paf
  <2> QED
    BY <1>1, <2>1, <2>2 DEF Temporizador
<1>2. ASSUME Leitura PROVE InvTipo'
  <2>1. CASE pafDaf = <<>> /\ UNCHANGED <<estado, seqTx, seqRx, tentativas, enviada, timers, timerId,
                                       processados, desistiu, pafDaf, dafPaf>>
    BY <1>2, <2>1 DEF TypeOK, HaResposta, Leitura, paf
  <2>2. CASE pafDaf # <<>> /\ pafDaf' = Tail(pafDaf)
    <3> DEFINE q == Head(pafDaf)
    <3>1. q \in Quadros /\ pafDaf' \in Seq(Quadros)
      BY <2>2, DepoisDaRecepcao DEF TypeOK
    <3>2. /\ passo' = "temporizador"
          /\ UNCHANGED <<gTimeout, enviados, pafEspera, pafTx, pafRx, entregues>>
      BY <1>2 DEF Leitura, paf
    <3> HIDE DEF q
    <3>3. ASSUME q.tipo = "ACK", RecebeAck(q.seq) PROVE InvTipo'
      <4>1. CASE estado = "IDLE" /\ UNCHANGED <<estado, seqTx, seqRx, tentativas, enviada, timers,
                                      timerId, processados, desistiu, dafPaf>>
        BY <3>1, <3>2, <4>1 DEF TypeOK, HaResposta
      <4>2. CASE /\ estado = "WAIT" /\ q.seq = seqTx
                 /\ seqTx' = ~seqTx /\ estado' = "IDLE" /\ tentativas' = 0
                 /\ timers' = Fecha(timers, timerId)
                 /\ UNCHANGED <<seqRx, enviada, timerId, processados, desistiu, dafPaf>>
        <5>1. timers' \in [Timers -> Estados]
          BY <1>a, <4>2, TimersAoFechar
        <5> QED
          BY <1>b, <3>1, <3>2, <4>2, <5>1 DEF TypeOK, HaResposta
      <4>3. CASE estado = "WAIT" /\ q.seq # seqTx /\ Retransmite
        <5>1. enviada.num # 0
          BY <4>3 DEF HaResposta
        <5>2. dafPaf' \in Seq(Quadros) /\ estado' \in {"IDLE", "WAIT"} /\ desistiu' \in BOOLEAN
          BY <4>3, <5>1, EfeitoDaRetransmissao
        <5>3. /\ timers' \in [Timers -> Estados] /\ timerId' \in Timers \cup {SemTimer}
              /\ tentativas' \in 0..TENTATIVAS_MAX
              /\ UNCHANGED <<seqTx, seqRx, enviada, processados>>
          BY <4>3, <5>1, EfeitoDaRetransmissao
        <5> QED
          BY <1>b, <3>1, <3>2, <5>1, <5>2, <5>3 DEF TypeOK, HaResposta
      <4> QED
        BY <3>3, <4>1, <4>2, <4>3 DEF RecebeAck
    <3>4. ASSUME q.tipo = "DATA", Novo(q), RecebeNovo(q) PROVE InvTipo'
      <4>1. q.num \in 1..NPedidos
        BY <3>1, <3>4, TipoDoDado
      <4>2. /\ seqRx' \in BOOLEAN /\ processados' \in Seq(1..NPedidos)
            /\ UNCHANGED <<seqTx, tentativas, desistiu>>
        BY <3>4, <4>1, AppendProperties DEF RecebeNovo, TypeOK
      <4>3. CASE /\ estado = "IDLE"
                 /\ EnviaAoPaf(<<ACK(seqRx)>>)
                 /\ UNCHANGED <<estado, enviada, timers, timerId>>
        <5>1. dafPaf' \in Seq(Quadros)
          BY <4>3, UmAck, EnvioDeUm DEF EnviaAoPaf, TypeOK
        <5> QED
          BY <3>1, <3>2, <4>2, <4>3, <5>1 DEF TypeOK, HaResposta
      <4>4. CASE /\ estado = "IDLE"
                 /\ estado' = "WAIT" /\ enviada' = DATA(seqTx, q.num)
                 /\ EnviaAoPaf(<<ACK(seqRx), DATA(seqTx, q.num)>>)
                 /\ Habilita(timers)
        <5>0. ACK(seqRx) \in Quadros /\ DATA(seqTx, q.num) \in Quadros
          BY <4>1, UmAck, UmDado DEF TypeOK
        <5>1. dafPaf' \in Seq(Quadros)
          BY <4>4, <5>0, EnvioDeDois DEF EnviaAoPaf, TypeOK
        <5>2. timers' \in [Timers -> Estados] /\ timerId' \in Timers \cup {SemTimer}
          BY <1>a, <4>4, TimersAoHabilitar
        <5>3. enviada' \in {DATA(s, n) : s \in BOOLEAN, n \in 0..NPedidos} /\ enviada'.num # 0
          BY <4>1, <4>4 DEF TypeOK, DATA
        <5> QED
          BY <1>b, <3>1, <3>2, <4>2, <4>4, <5>1, <5>2, <5>3 DEF TypeOK, HaResposta
      <4>5. CASE /\ estado = "WAIT"
                 /\ EnviaAoPaf(<<ACK(seqRx')>>)
                 /\ UNCHANGED <<estado, enviada, timers, timerId>>
        <5>1. dafPaf' \in Seq(Quadros)
          BY <4>2, <4>5, UmAck, EnvioDeUm DEF EnviaAoPaf, TypeOK
        <5> QED
          BY <3>1, <3>2, <4>2, <4>5, <5>1 DEF TypeOK, HaResposta
      <4> QED
        BY <3>4, <4>3, <4>4, <4>5 DEF RecebeNovo
    <3>5. ASSUME RecebeRepetido PROVE InvTipo'
      <4>1. dafPaf' \in Seq(Quadros)
        <5>1. ACK(~seqRx) \in Quadros
          BY UmAck
        <5> QED
          BY <3>5, <5>1, EnvioDeUm DEF RecebeRepetido, EnviaAoPaf, TypeOK
      <4> QED
        BY <3>1, <3>2, <3>5, <4>1 DEF RecebeRepetido, TypeOK, HaResposta
    <3> QED
      BY <1>2, <2>2, <3>3, <3>4, <3>5 DEF Leitura, q
  <2> QED
    BY <1>2, <2>1, <2>2 DEF Leitura
<1>3. ASSUME NEW t \in Timers, Expira(t) PROVE InvTipo'
  <2>1. timers' \in [Timers -> Estados]
    <3>1. [timers EXCEPT ![t] = "expirado"] \in [Timers -> Estados]
      BY <1>a DEF Estados
    <3> QED
      BY <1>3, <3>1, TimersAoFechar DEF Expira
  <2>2. enviada.num # 0
    BY <1>3 DEF Expira, HaResposta
  <2>3. /\ gTimeout' = TRUE
        /\ UNCHANGED <<estado, seqTx, seqRx, tentativas, enviada, timerId, passo, processados,
                       desistiu, enviados, pafEspera, pafTx, pafRx, entregues, pafDaf, dafPaf>>
    BY <1>3 DEF Expira, paf
  <2> QED
    BY <1>b, <2>1, <2>2, <2>3 DEF TypeOK, HaResposta
<1>4. ASSUME PafEnvia PROVE InvTipo'
  <2>1. enviados' \in 1..NPedidos
    BY <1>4 DEF PafEnvia, TypeOK
  <2>2. pafDaf' \in Seq(Quadros)
    BY <1>4, <2>1, UmDado, EnvioDeUm DEF PafEnvia, EnviaAoDaf, TypeOK
  <2> QED
    BY <1>4, <2>1, <2>2 DEF PafEnvia, TypeOK, HaResposta, daf, temporizacao
<1>5. ASSUME PafRepete PROVE InvTipo'
  <2>1. enviados \in 1..NPedidos
    BY <1>5 DEF PafRepete, TypeOK
  <2>2. pafDaf' \in Seq(Quadros)
    BY <1>5, <2>1, UmDado, EnvioDeUm DEF PafRepete, EnviaAoDaf, TypeOK
  <2> QED
    BY <1>5, <2>1, <2>2 DEF PafRepete, TypeOK, HaResposta, daf, paf, temporizacao
<1>6. ASSUME PafRecebe PROVE InvTipo'
  <2> DEFINE q == Head(dafPaf)
  <2>1. q \in Quadros /\ dafPaf' \in Seq(Quadros)
    BY <1>6, DepoisDaRecepcao DEF PafRecebe, TypeOK
  <2>2. UNCHANGED <<enviados, daf>>
    BY <1>6 DEF PafRecebe
  <2> HIDE DEF q
  <2>3. ASSUME q.tipo = "ACK", PafRecebeAck(q.seq) PROVE InvTipo'
    <3>1. /\ pafTx' \in BOOLEAN /\ pafEspera' \in BOOLEAN /\ (pafEspera' => pafEspera)
          /\ UNCHANGED <<pafRx, entregues, pafDaf>>
      <4>1. pafTx \in BOOLEAN /\ pafEspera \in BOOLEAN
        BY DEF TypeOK
      <4>2. CASE pafEspera /\ q.seq = pafTx /\ pafEspera' = FALSE /\ pafTx' = ~pafTx
        BY <2>3, <4>1, <4>2 DEF PafRecebeAck
      <4>3. CASE UNCHANGED <<pafEspera, pafTx>>
        BY <2>3, <4>1, <4>3 DEF PafRecebeAck
      <4> QED
        BY <2>3, <4>2, <4>3 DEF PafRecebeAck
    <3> QED
      BY <2>1, <2>2, <3>1 DEF TypeOK, HaResposta, daf, temporizacao
  <2>4. ASSUME q.tipo = "DATA", PafRecebeResposta(q) PROVE InvTipo'
    <3>1. q.num \in 1..NPedidos /\ q.seq \in BOOLEAN
      BY <2>1, <2>4, TipoDoDado
    <3>2. pafDaf' \in Seq(Quadros)
      BY <2>4, <3>1, UmAck, EnvioDeUm DEF PafRecebeResposta, EnviaAoDaf, TypeOK
    <3>3. entregues' \in Seq(1..NPedidos) /\ pafRx' \in BOOLEAN
      <4>1. Append(entregues, q.num) \in Seq(1..NPedidos)
        BY <3>1, AppendProperties DEF TypeOK
      <4>2. CASE q.seq = pafRx /\ pafRx' = ~pafRx /\ entregues' = Append(entregues, q.num)
        BY <4>1, <4>2
      <4>3. CASE q.seq # pafRx /\ UNCHANGED <<pafRx, entregues>>
        BY <4>3 DEF TypeOK
      <4> QED
        BY <2>4, <4>2, <4>3 DEF PafRecebeResposta
    <3> QED
      BY <2>1, <2>2, <2>4, <3>2, <3>3 DEF PafRecebeResposta, TypeOK, HaResposta, daf, temporizacao
  <2> QED
    BY <1>6, <2>3, <2>4 DEF PafRecebe, q
<1>7. ASSUME UNCHANGED vars PROVE InvTipo'
  BY <1>7 DEF vars, daf, paf, temporizacao, TypeOK, HaResposta
<1> QED
  BY <1>1, <1>2, <1>3, <1>4, <1>5, <1>6, <1>7 DEF Next

\* Every state of the link is well typed, and a wait or a running timer stands for an
\* answer that was sent (ARQ::idle, arq.cpp:176-200).
THEOREM InvarianteDeTipo == Spec => []InvTipo
  BY TipoInicial, TipoAoPassar, PTL DEF Spec

THEOREM TiposDaLigacao == Spec => []TypeOK
<1>1. InvTipo => TypeOK
  BY DEF InvTipo
<1> QED
  BY <1>1, InvarianteDeTipo, PTL

-----------------------------------------------------------------------------
(* A wait is watched                                                         *)

\* A step keeps a counting timer, or leaves an expiry to be handled, or ends the wait.
LEMMA VigiaAoPassar ==
    ASSUME InvTipo, EsperaVigiada, [Next]_vars
    PROVE  EsperaVigiada'
<1>a. timers \in [Timers -> Estados] /\ TypeOK
  BY DEF InvTipo, TypeOK, Estados
<1>b. ASSUME Retransmite, enviada.num # 0 PROVE EsperaVigiada'
  BY <1>a, <1>b, EfeitoDaRetransmissao DEF EsperaVigiada
<1>c. ASSUME UNCHANGED <<estado, timers, timerId, gTimeout>> PROVE EsperaVigiada'
  BY <1>c DEF EsperaVigiada
<1>d. ASSUME estado' = "IDLE" PROVE EsperaVigiada'
  BY <1>d DEF EsperaVigiada
<1>1. ASSUME Temporizador PROVE EsperaVigiada'
  BY <1>1, <1>b, <1>c DEF Temporizador, InvTipo, HaResposta, temporizacao
<1>2. ASSUME Leitura PROVE EsperaVigiada'
  <2>1. ASSUME NEW s, RecebeAck(s) PROVE EsperaVigiada'
    BY <1>2, <2>1, <1>b, <1>c, <1>d DEF Leitura, RecebeAck, InvTipo, HaResposta
  <2>2. ASSUME NEW q, RecebeNovo(q) PROVE EsperaVigiada'
    <3>1. CASE UNCHANGED <<estado, timers, timerId>>
      BY <1>2, <3>1, <1>c DEF Leitura
    <3>2. CASE Habilita(timers)
      BY <1>a, <3>2, TimersAoHabilitar DEF EsperaVigiada
    <3> QED
      BY <2>2, <3>1, <3>2 DEF RecebeNovo
  <2>3. ASSUME RecebeRepetido PROVE EsperaVigiada'
    BY <1>2, <2>3, <1>c DEF Leitura, RecebeRepetido
  <2> QED
    BY <1>2, <1>c, <2>1, <2>2, <2>3 DEF Leitura
<1>3. ASSUME NEW t \in Timers, Expira(t) PROVE EsperaVigiada'
  BY <1>3 DEF Expira, EsperaVigiada
<1>4. ASSUME PafEnvia \/ PafRepete \/ PafRecebe \/ UNCHANGED vars PROVE EsperaVigiada'
  BY <1>4, <1>c DEF PafEnvia, PafRepete, PafRecebe, vars, daf, temporizacao
<1> QED
  BY <1>1, <1>2, <1>3, <1>4 DEF Next

\* While the device waits with a timer of its own, a timer counts or its expiry is about to
\* be handled, although the interrupt closes the timer that timer_id names and not the one
\* that expired (arq.cpp:82-91), so that the wait cannot be forgotten.
THEOREM EsperaSempreVigiada == Spec => []EsperaVigiada
<1>1. Init => EsperaVigiada
  BY DEF Init, EsperaVigiada
<1> QED
  BY <1>1, InvarianteDeTipo, VigiaAoPassar, PTL DEF Spec

-----------------------------------------------------------------------------
(* Steps of the link, told by what they do to both conversations             *)

PafQuieta == UNCHANGED <<enviados, pafEspera, pafTx, pafRx, entregues>>
DafQuieto == UNCHANGED <<estado, seqTx, seqRx, enviada, processados, desistiu>>
DafRecebe(tipo) == pafDaf # <<>> /\ pafDaf' = Tail(pafDaf) /\ pafDaf[1].tipo = tipo
PafRecebeQuadro(tipo) == dafPaf # <<>> /\ dafPaf' = Tail(dafPaf) /\ dafPaf[1].tipo = tipo

\* The last answer is repeated, perhaps lost, or given up.
RepeteOuDesiste ==
    \/ DafQuieto /\ dafPaf' = dafPaf
    \/ /\ DafQuieto /\ dafPaf' = Append(dafPaf, enviada)
       /\ enviada \in Quadros /\ enviada.tipo = "DATA"
    \/ /\ UNCHANGED <<seqTx, seqRx, enviada, processados, dafPaf>>
       /\ estado' = "IDLE" /\ desistiu' = (desistiu \/ estado = "WAIT")

PassoDoTempo == RepeteOuDesiste /\ PafQuieta /\ pafDaf' = pafDaf

DafLeAck ==
    /\ DafRecebe("ACK") /\ PafQuieta
    /\ \/ estado = "IDLE" /\ DafQuieto /\ dafPaf' = dafPaf
       \/ /\ estado = "WAIT" /\ pafDaf[1].seq = seqTx /\ seqTx' = ~seqTx /\ estado' = "IDLE"
          /\ UNCHANGED <<seqRx, enviada, processados, desistiu, dafPaf>>
       \/ estado = "WAIT" /\ pafDaf[1].seq # seqTx /\ RepeteOuDesiste

DafLeNovo ==
    /\ DafRecebe("DATA") /\ PafQuieta /\ pafDaf[1].seq = seqRx
    /\ seqRx' = ~seqRx /\ processados' = Append(processados, pafDaf[1].num)
    /\ UNCHANGED <<seqTx, desistiu>>
    /\ \/ /\ UNCHANGED <<estado, enviada>>
          /\ dafPaf' = dafPaf \/ \E x \in BOOLEAN : dafPaf' = Append(dafPaf, ACK(x))
       \/ /\ estado = "IDLE" /\ estado' = "WAIT" /\ enviada' = DATA(seqTx, pafDaf[1].num)
          /\ \/ dafPaf' = dafPaf \/ dafPaf' = Append(dafPaf, ACK(seqRx))
             \/ dafPaf' = Append(dafPaf, enviada')
             \/ dafPaf' = Append(Append(dafPaf, ACK(seqRx)), enviada')

DafLeRepetido ==
    /\ DafRecebe("DATA") /\ PafQuieta /\ pafDaf[1].seq # seqRx /\ DafQuieto
    /\ dafPaf' = dafPaf \/ dafPaf' = Append(dafPaf, ACK(~seqRx))

PafPede ==
    /\ DafQuieto /\ UNCHANGED <<pafTx, pafRx, entregues, dafPaf>>
    /\ \/ ~pafEspera /\ enviados' = enviados + 1 /\ pafEspera' = TRUE
       \/ pafEspera /\ UNCHANGED <<enviados, pafEspera>>
    /\ enviados' \in 1..NPedidos
    /\ pafDaf' = pafDaf \/ pafDaf' = Append(pafDaf, DATA(pafTx, enviados'))

PafLeAck ==
    /\ PafRecebeQuadro("ACK") /\ DafQuieto /\ UNCHANGED <<enviados, pafRx, entregues, pafDaf>>
    /\ \/ pafEspera /\ dafPaf[1].seq = pafTx /\ pafEspera' = FALSE /\ pafTx' = ~pafTx
       \/ UNCHANGED <<pafEspera, pafTx>>

PafLeResposta ==
    /\ PafRecebeQuadro("DATA") /\ DafQuieto /\ UNCHANGED <<enviados, pafEspera, pafTx>>
    /\ pafDaf' = pafDaf \/ pafDaf' = Append(pafDaf, ACK(dafPaf[1].seq))
    /\ \/ /\ dafPaf[1].seq = pafRx /\ pafRx' = ~pafRx
          /\ entregues' = Append(entregues, dafPaf[1].num)
       \/ dafPaf[1].seq # pafRx /\ UNCHANGED <<pafRx, entregues>>

\* Leaving the timers and the attempts aside, every step is one of these.
LEMMA PassosDaLigacao ==
    ASSUME InvTipo, [Next]_vars
    PROVE  \/ PassoDoTempo \/ DafLeAck \/ DafLeNovo \/ DafLeRepetido
           \/ PafPede \/ PafLeAck \/ PafLeResposta
<1> USE DEF InvTipo
<1>a. ASSUME Retransmite, enviada.num # 0 PROVE RepeteOuDesiste
  BY <1>a, EfeitoDaRetransmissao DEF RepeteOuDesiste, DafQuieto
<1>1. ASSUME Temporizador PROVE PassoDoTempo
  <2>1. CASE gTimeout /\ Retransmite
    BY <1>1, <2>1, <1>a DEF Temporizador, HaResposta, PassoDoTempo, PafQuieta, paf
  <2>2. CASE UNCHANGED <<estado, seqTx, seqRx, enviada, processados, desistiu, dafPaf>>
    BY <1>1, <2>2 DEF Temporizador, PassoDoTempo, RepeteOuDesiste, DafQuieto, PafQuieta, paf
  <2> QED
    BY <1>1, <2>1, <2>2 DEF Temporizador
<1>2. ASSUME Leitura PROVE PassoDoTempo \/ DafLeAck \/ DafLeNovo \/ DafLeRepetido
  <2>0. PafQuieta
    BY <1>2 DEF Leitura, PafQuieta, paf
  <2>1. CASE UNCHANGED <<estado, seqTx, seqRx, enviada, processados, desistiu, pafDaf, dafPaf>>
    BY <2>0, <2>1 DEF PassoDoTempo, RepeteOuDesiste, DafQuieto
  <2>2. CASE pafDaf # <<>> /\ pafDaf' = Tail(pafDaf)
    <3> DEFINE q == Head(pafDaf)
    <3>1. q \in Quadros /\ q = pafDaf[1]
      BY <2>2, DepoisDaRecepcao DEF TypeOK
    <3> HIDE DEF q
    <3>2. ASSUME q.tipo = "ACK", RecebeAck(q.seq) PROVE DafLeAck
      <4>1. DafRecebe("ACK")
        BY <2>2, <3>1, <3>2 DEF DafRecebe
      <4> QED
        BY <1>a, <2>0, <3>1, <3>2, <4>1 DEF RecebeAck, DafLeAck, DafQuieto, HaResposta
    <3>3. ASSUME q.tipo = "DATA", Novo(q), RecebeNovo(q) PROVE DafLeNovo
      <4>1. DafRecebe("DATA") /\ q.num \in 1..NPedidos /\ q.seq = seqRx
        BY <2>2, <3>1, <3>3, TipoDoDado DEF DafRecebe, Novo
      <4>2. seqRx \in BOOLEAN /\ seqTx \in BOOLEAN /\ dafPaf \in Seq(Quadros)
        BY DEF TypeOK
      <4>3. CASE EnviaAoPaf(<<ACK(seqRx)>>) /\ UNCHANGED <<estado, enviada>>
        <5>1. dafPaf' = dafPaf \/ dafPaf' = Append(dafPaf, ACK(seqRx))
          BY <4>2, <4>3, UmAck, EnvioDeUm DEF EnviaAoPaf
        <5> QED
          BY <2>0, <3>1, <3>3, <4>1, <4>2, <4>3, <5>1 DEF RecebeNovo, DafLeNovo
      <4>4. CASE EnviaAoPaf(<<ACK(seqRx')>>) /\ UNCHANGED <<estado, enviada>>
        <5>1. seqRx' \in BOOLEAN
          BY <3>3 DEF RecebeNovo
        <5>2. dafPaf' = dafPaf \/ dafPaf' = Append(dafPaf, ACK(seqRx'))
          BY <4>2, <4>4, <5>1, UmAck, EnvioDeUm DEF EnviaAoPaf
        <5> QED
          BY <2>0, <3>1, <3>3, <4>1, <4>4, <5>1, <5>2 DEF RecebeNovo, DafLeNovo
      <4>5. CASE /\ estado = "IDLE"
                 /\ estado' = "WAIT" /\ enviada' = DATA(seqTx, q.num)
                 /\ EnviaAoPaf(<<ACK(seqRx), DATA(seqTx, q.num)>>)
        <5>1. ACK(seqRx) \in Quadros /\ enviada' \in Quadros
          BY <4>1, <4>2, <4>5, UmAck, UmDado
        <5>2. \/ dafPaf' = dafPaf \/ dafPaf' = Append(dafPaf, ACK(seqRx))
              \/ dafPaf' = Append(dafPaf, enviada')
              \/ dafPaf' = Append(Append(dafPaf, ACK(seqRx)), enviada')
          BY <4>2, <4>5, <5>1, EnvioDeDois DEF EnviaAoPaf
        <5> QED
          BY <2>0, <3>1, <3>3, <4>1, <4>5, <5>2 DEF RecebeNovo, DafLeNovo
      <4> QED
        BY <3>3, <4>3, <4>4, <4>5 DEF RecebeNovo
    <3>4. ASSUME q.tipo = "DATA", ~Novo(q), RecebeRepetido PROVE DafLeRepetido
      <4>1. DafRecebe("DATA") /\ q.seq # seqRx
        BY <2>2, <3>1, <3>4 DEF DafRecebe, Novo
      <4>2. ACK(~seqRx) \in Quadros
        BY UmAck
      <4>3. dafPaf' = dafPaf \/ dafPaf' = Append(dafPaf, ACK(~seqRx))
        BY <3>4, <4>2, EnvioDeUm DEF RecebeRepetido, EnviaAoPaf, TypeOK
      <4> QED
        BY <2>0, <3>1, <3>4, <4>1, <4>3 DEF RecebeRepetido, DafLeRepetido, DafQuieto
    <3> QED
      BY <1>2, <2>2, <3>2, <3>3, <3>4 DEF Leitura, q
  <2> QED
    BY <1>2, <2>1, <2>2 DEF Leitura
<1>3. ASSUME NEW t \in Timers, Expira(t) PROVE PassoDoTempo
  BY <1>3 DEF Expira, PassoDoTempo, RepeteOuDesiste, DafQuieto, PafQuieta, paf
<1>4. ASSUME PafEnvia PROVE PafPede
  <2>1. enviados' \in 1..NPedidos
    BY <1>4, LimitesAssumption DEF PafEnvia, TypeOK
  <2>2. pafDaf' = pafDaf \/ pafDaf' = Append(pafDaf, DATA(pafTx, enviados'))
    BY <1>4, <2>1, UmDado, EnvioDeUm DEF PafEnvia, EnviaAoDaf, TypeOK
  <2> QED
    BY <1>4, <2>1, <2>2 DEF PafEnvia, PafPede, DafQuieto, daf
<1>5. ASSUME PafRepete PROVE PafPede
  <2>1. enviados' \in 1..NPedidos /\ enviados' = enviados
    BY <1>5 DEF PafRepete, TypeOK, paf
  <2>2. pafDaf' = pafDaf \/ pafDaf' = Append(pafDaf, DATA(pafTx, enviados))
    BY <1>5, <2>1, UmDado, EnvioDeUm DEF PafRepete, EnviaAoDaf, TypeOK
  <2> QED
    BY <1>5, <2>1, <2>2 DEF PafRepete, PafPede, DafQuieto, daf, paf
<1>6. ASSUME PafRecebe PROVE PafLeAck \/ PafLeResposta
  <2> DEFINE q == Head(dafPaf)
  <2>1. q \in Quadros /\ q = dafPaf[1] /\ dafPaf # <<>> /\ dafPaf' = Tail(dafPaf)
    BY <1>6, DepoisDaRecepcao DEF PafRecebe, TypeOK
  <2>2. DafQuieto /\ enviados' = enviados
    BY <1>6 DEF PafRecebe, DafQuieto, daf
  <2> HIDE DEF q
  <2>3. ASSUME q.tipo = "ACK", PafRecebeAck(q.seq) PROVE PafLeAck
    BY <2>1, <2>2, <2>3 DEF PafRecebeAck, PafLeAck, PafRecebeQuadro
  <2>4. ASSUME q.tipo = "DATA", PafRecebeResposta(q) PROVE PafLeResposta
    <3>1. ACK(q.seq) \in Quadros
      BY <2>1, <2>4, TipoDoDado, UmAck
    <3>2. pafDaf' = pafDaf \/ pafDaf' = Append(pafDaf, ACK(q.seq))
      BY <2>4, <3>1, EnvioDeUm DEF PafRecebeResposta, EnviaAoDaf, TypeOK
    <3> QED
      BY <2>1, <2>2, <2>4, <3>2 DEF PafRecebeResposta, PafLeResposta, PafRecebeQuadro
  <2> QED
    BY <1>6, <2>3, <2>4 DEF PafRecebe, q
<1>7. ASSUME UNCHANGED vars PROVE PassoDoTempo
  BY <1>7 DEF vars, daf, paf, PassoDoTempo, RepeteOuDesiste, DafQuieto, PafQuieta
<1> QED
  BY <1>1, <1>2, <1>3, <1>4, <1>5, <1>6, <1>7 DEF Next

-----------------------------------------------------------------------------
(* Requests                                                                  *)

\* How far a request has come: the PAF waits for its ACK and the DAF has not processed it,
\* or has.
PorProcessar == pafEspera /\ Len(processados) + 1 = enviados /\ seqRx = pafTx
PorConfirmar == pafEspera /\ Len(processados) = enviados /\ seqRx # pafTx
Confirmado   == ~pafEspera /\ Len(processados) = enviados /\ seqRx = pafTx

\* A request in transit is the last one, or a copy of the one before while the last one
\* was not processed; the copies come first.
PedidoEmTransito(q) ==
    \/ q.num = enviados /\ (q.seq = pafTx <=> pafEspera)
    \/ q.num + 1 = enviados /\ PorProcessar /\ q.seq # pafTx
PedidosEmTransito ==
    /\ \A i \in 1..Len(pafDaf) : pafDaf[i].tipo = "DATA" => PedidoEmTransito(pafDaf[i])
    /\ EmOrdem(pafDaf)

\* An ACK with the number that the PAF waits for is in transit only when the request was
\* processed, and then none with the other number comes after it.
AcksDePedidos == (~PorConfirmar => AcksSao(dafPaf, ~pafTx)) /\ AcksAte(dafPaf, pafTx)

InvPedidos == (PorProcessar \/ PorConfirmar \/ Confirmado) /\ PedidosEmTransito /\ AcksDePedidos

\* The first frame that the device reads, when it is the one that it waits for, is the
\* request that was not processed.
LEMMA PedidoEsperado ==
    ASSUME InvTipo, InvPedidos, pafDaf # <<>>, pafDaf[1].tipo = "DATA", pafDaf[1].seq = seqRx
    PROVE  PorProcessar /\ pafDaf[1].num = enviados
<1>1. Len(pafDaf) \in Nat \ {0}
  BY DepoisDaRecepcao DEF InvTipo, TypeOK
<1>2. PedidoEmTransito(pafDaf[1])
  BY <1>1 DEF InvPedidos, PedidosEmTransito
<1> QED
  BY <1>2 DEF InvPedidos, PedidoEmTransito, PorProcessar, PorConfirmar, Confirmado

\* Nothing changes for the requests when neither side moves to the next one, the device
\* receives or the PAF sends an ACK, and the device sends an answer.
LEMMA PedidosQuietos ==
    ASSUME InvTipo, InvPedidos,
           UNCHANGED <<seqRx, processados, enviados, pafEspera, pafTx>>,
           \/ pafDaf' = pafDaf
           \/ pafDaf # <<>> /\ pafDaf' = Tail(pafDaf)
           \/ \E x \in BOOLEAN : pafDaf' = Append(pafDaf, ACK(x)),
           \/ dafPaf' = dafPaf
           \/ dafPaf # <<>> /\ dafPaf' = Tail(dafPaf)
           \/ dafPaf' = Append(dafPaf, enviada) /\ enviada \in Quadros /\ enviada.tipo = "DATA"
    PROVE  InvPedidos'
<1>a. pafDaf \in Seq(Quadros) /\ dafPaf \in Seq(Quadros) /\ pafTx \in BOOLEAN
  BY DEF InvTipo, TypeOK
<1>b. (~pafTx) \in BOOLEAN
  OBVIOUS
<1>1. /\ UNCHANGED <<PorProcessar, PorConfirmar, Confirmado>>
      /\ \A m : PedidoEmTransito(m)' = PedidoEmTransito(m)
  BY DEF PorProcessar, PorConfirmar, Confirmado, PedidoEmTransito
<1>2. PedidosEmTransito'
  <2>1. CASE pafDaf' = pafDaf
    BY <1>1, <2>1 DEF InvPedidos, PedidosEmTransito
  <2>2. CASE pafDaf # <<>> /\ pafDaf' = Tail(pafDaf)
    <3>1. EmOrdem(Tail(pafDaf))
      BY <1>a, <2>2, Recepcao DEF InvPedidos, PedidosEmTransito
    <3>2. \A i \in 1..Len(pafDaf') : i + 1 \in 1..Len(pafDaf) /\ pafDaf'[i] = pafDaf[i + 1]
      BY <1>a, <2>2, DepoisDaRecepcao
    <3> QED
      BY <1>1, <2>2, <3>1, <3>2 DEF InvPedidos, PedidosEmTransito
  <2>3. ASSUME NEW x \in BOOLEAN, pafDaf' = Append(pafDaf, ACK(x)) PROVE PedidosEmTransito'
    <3>1. EmOrdem(Append(pafDaf, ACK(x)))
      BY <1>a, EnvioDeAck DEF InvPedidos, PedidosEmTransito
    <3>2. ACK(x) \in Quadros /\ ACK(x).tipo = "ACK"
      BY UmAck
    <3>3. /\ Len(pafDaf) \in Nat
          /\ \A i \in 1..Len(pafDaf') : pafDaf'[i] = IF i <= Len(pafDaf) THEN pafDaf[i] ELSE ACK(x)
          /\ Len(pafDaf') = Len(pafDaf) + 1
      BY <1>a, <2>3, <3>2, DepoisDoEnvio
    <3> QED
      BY <1>1, <2>3, <3>1, <3>2, <3>3 DEF InvPedidos, PedidosEmTransito
  <2> QED
    BY <2>1, <2>2, <2>3
<1>3. AcksDePedidos'
  BY <1>a, <1>b, <1>1, Recepcao, EnvioDeDado DEF InvPedidos, AcksDePedidos
<1> QED
  BY <1>1, <1>2, <1>3 DEF InvPedidos

\* The device reads a request: the ones left in transit.
LEMMA PedidoLido ==
    ASSUME InvTipo, InvPedidos, DafRecebe("DATA"), UNCHANGED <<enviados, pafEspera, pafTx>>,
           \/ UNCHANGED <<seqRx, processados>>
           \/ pafDaf[1].seq = seqRx /\ PorConfirmar'
    PROVE  PedidosEmTransito'
<1>a. pafDaf \in Seq(Quadros) /\ pafDaf # <<>> /\ pafDaf' = Tail(pafDaf) /\ pafDaf[1].tipo = "DATA"
  BY DEF InvTipo, TypeOK, DafRecebe
<1>1. EmOrdem(Tail(pafDaf))
  BY <1>a, Recepcao DEF InvPedidos, PedidosEmTransito
<1>2. /\ Len(pafDaf) \in Nat \ {0}
      /\ \A i \in 1..Len(pafDaf') : i + 1 \in 1..Len(pafDaf) /\ pafDaf'[i] = pafDaf[i + 1]
      /\ Len(pafDaf') = Len(pafDaf) - 1
  BY <1>a, DepoisDaRecepcao
<1>3. CASE UNCHANGED <<seqRx, processados>>
  <2>1. \A m : PedidoEmTransito(m)' = PedidoEmTransito(m)
    BY <1>3 DEF PorProcessar, PedidoEmTransito
  <2> QED
    BY <1>a, <1>1, <1>2, <2>1 DEF InvPedidos, PedidosEmTransito
<1>4. CASE pafDaf[1].seq = seqRx /\ PorConfirmar'
  <2>1. PorProcessar /\ pafDaf[1].num = enviados
    BY <1>a, <1>4, PedidoEsperado
  <2>2. ASSUME NEW i \in 1..Len(pafDaf'), pafDaf'[i].tipo = "DATA"
        PROVE  PedidoEmTransito(pafDaf[i])'
    <3>1. i + 1 \in 2..Len(pafDaf) /\ pafDaf'[i] = pafDaf[i + 1] /\ 1 \in 1..Len(pafDaf)
      BY <1>2
    <3>2. enviados <= pafDaf[i + 1].num
      BY <1>a, <2>1, <2>2, <3>1 DEF InvPedidos, PedidosEmTransito, EmOrdem
    <3>3. PedidoEmTransito(pafDaf[i + 1])
      BY <2>2, <3>1 DEF InvPedidos, PedidosEmTransito
    <3>4. pafDaf[i + 1].num \in Nat /\ enviados \in Nat
      BY <1>a, <2>2, <3>1, TipoDoDado, LimitesAssumption DEF InvTipo, TypeOK
    <3> QED
      BY <1>4, <3>1, <3>2, <3>3, <3>4 DEF PedidoEmTransito, PorConfirmar
  <2> QED
    BY <1>a, <1>1, <2>2 DEF PedidosEmTransito
<1> QED
  BY <1>3, <1>4

\* The first frame that the PAF reads, when it is the ACK that it waits for, confirms a
\* request that was processed.
LEMMA AckEsperado ==
    ASSUME InvTipo, InvPedidos, dafPaf # <<>>, dafPaf[1].tipo = "ACK", dafPaf[1].seq = pafTx
    PROVE  PorConfirmar
<1>1. Len(dafPaf) \in Nat \ {0} /\ pafTx \in BOOLEAN
  BY DepoisDaRecepcao DEF InvTipo, TypeOK
<1> QED
  BY <1>1 DEF InvPedidos, AcksDePedidos, AcksSao

\* Every step keeps requests and their ACKs consistent.
LEMMA PedidosAoPassar ==
    ASSUME InvTipo, InvTipo', InvPedidos, [Next]_vars
    PROVE  InvPedidos'
<1>a. /\ pafDaf \in Seq(Quadros) /\ dafPaf \in Seq(Quadros) /\ pafTx \in BOOLEAN
      /\ seqRx \in BOOLEAN /\ seqTx \in BOOLEAN /\ enviados \in Nat
      /\ processados \in Seq(1..NPedidos) /\ pafEspera \in BOOLEAN
  BY LimitesAssumption DEF InvTipo, TypeOK
<1>b. \A s \in BOOLEAN : (~s) \in BOOLEAN
  OBVIOUS
<1>c. Len(processados) \in Nat
  BY <1>a, LenProperties
<1>1. ASSUME PassoDoTempo PROVE InvPedidos'
  <2>1. UNCHANGED <<seqRx, processados, enviados, pafEspera, pafTx>> /\ pafDaf' = pafDaf
    BY <1>1 DEF PassoDoTempo, RepeteOuDesiste, PafQuieta, DafQuieto
  <2>2. \/ dafPaf' = dafPaf
        \/ dafPaf' = Append(dafPaf, enviada) /\ enviada \in Quadros /\ enviada.tipo = "DATA"
    BY <1>1 DEF PassoDoTempo, RepeteOuDesiste
  <2> QED
    BY <2>1, <2>2, PedidosQuietos
<1>2. ASSUME DafLeAck PROVE InvPedidos'
  <2>1. /\ UNCHANGED <<seqRx, processados, enviados, pafEspera, pafTx>>
        /\ pafDaf # <<>> /\ pafDaf' = Tail(pafDaf)
    BY <1>2 DEF DafLeAck, DafRecebe, RepeteOuDesiste, PafQuieta, DafQuieto
  <2>2. \/ dafPaf' = dafPaf
        \/ dafPaf' = Append(dafPaf, enviada) /\ enviada \in Quadros /\ enviada.tipo = "DATA"
    BY <1>2 DEF DafLeAck, RepeteOuDesiste
  <2> QED
    BY <2>1, <2>2, PedidosQuietos
<1>3. ASSUME DafLeNovo PROVE InvPedidos'
  <2>1. PorProcessar /\ pafDaf[1].num = enviados /\ UNCHANGED <<enviados, pafEspera, pafTx>>
    BY <1>3, PedidoEsperado DEF DafLeNovo, DafRecebe, PafQuieta
  <2>2. PorConfirmar'
    <3>1. pafDaf[1].num \in 1..NPedidos
      BY <1>a, <1>3, DepoisDaRecepcao, TipoDoDado DEF DafLeNovo, DafRecebe
    <3>2. Len(processados') = Len(processados) + 1
      BY <1>3, <1>a, <3>1, AppendProperties DEF DafLeNovo
    <3> QED
      BY <1>3, <1>a, <1>c, <2>1, <3>2 DEF DafLeNovo, PorProcessar, PorConfirmar
  <2>3. PedidosEmTransito'
    BY <1>3, <2>1, <2>2, PedidoLido DEF DafLeNovo
  <2>4. AcksAte(dafPaf', pafTx)
    <3>1. AcksSao(dafPaf, ~pafTx) /\ AcksAte(dafPaf, pafTx)
      BY <2>1 DEF InvPedidos, AcksDePedidos, PorProcessar, PorConfirmar
    <3>2. ASSUME NEW x \in BOOLEAN PROVE AcksAte(Append(dafPaf, ACK(x)), pafTx)
      BY <1>a, <3>1, EnvioDeAck
    <3>3. ASSUME NEW c \in Seq(Quadros), AcksAte(c, pafTx), NEW q \in Quadros, q.tipo = "DATA"
          PROVE  AcksAte(Append(c, q), pafTx)
      BY <1>a, <3>3, EnvioDeDado
    <3>4. pafDaf[1].num \in 1..NPedidos
      BY <1>a, <1>3, DepoisDaRecepcao, TipoDoDado DEF DafLeNovo, DafRecebe
    <3>5. CASE dafPaf' = dafPaf \/ \E x \in BOOLEAN : dafPaf' = Append(dafPaf, ACK(x))
      BY <3>1, <3>2, <3>5
    <3>6. CASE /\ enviada' = DATA(seqTx, pafDaf[1].num)
               /\ \/ dafPaf' = Append(dafPaf, enviada')
                  \/ dafPaf' = Append(Append(dafPaf, ACK(seqRx)), enviada')
      <4>1. enviada' \in Quadros /\ enviada'.tipo = "DATA"
        BY <1>a, <3>4, <3>6, UmDado
      <4>2. Append(dafPaf, ACK(seqRx)) \in Seq(Quadros) /\ AcksAte(Append(dafPaf, ACK(seqRx)), pafTx)
        BY <1>a, <3>2, UmAck, DepoisDoEnvio
      <4> QED
        BY <1>a, <3>1, <3>3, <3>6, <4>1, <4>2
    <3> QED
      BY <1>a, <1>3, <3>5, <3>6 DEF DafLeNovo
  <2> QED
    BY <2>1, <2>2, <2>3, <2>4 DEF InvPedidos, AcksDePedidos
<1>4. ASSUME DafLeRepetido PROVE InvPedidos'
  <2>0. UNCHANGED <<seqRx, processados, enviados, pafEspera, pafTx>>
    BY <1>4 DEF DafLeRepetido, DafQuieto, PafQuieta
  <2>1. UNCHANGED <<PorProcessar, PorConfirmar, Confirmado>>
    BY <2>0 DEF PorProcessar, PorConfirmar, Confirmado
  <2>2. PedidosEmTransito'
    BY <1>4, <2>0, PedidoLido DEF DafLeRepetido
  <2>3. CASE PorConfirmar
    <3>1. AcksAte(dafPaf, pafTx) /\ (~seqRx) = pafTx
      BY <1>a, <2>3 DEF InvPedidos, AcksDePedidos, PorConfirmar
    <3>2. AcksAte(Append(dafPaf, ACK(~seqRx)), pafTx)
      BY <1>a, <1>b, <3>1, EnvioDeAck
    <3>3. AcksAte(dafPaf', pafTx)
      BY <1>4, <3>1, <3>2 DEF DafLeRepetido
    <3> QED
      BY <2>0, <2>1, <2>2, <2>3, <3>3 DEF InvPedidos, AcksDePedidos
  <2>4. CASE ~PorConfirmar
    <3>1. AcksSao(dafPaf, ~pafTx) /\ AcksAte(dafPaf, pafTx) /\ seqRx = pafTx
      BY <1>a, <2>4 DEF InvPedidos, AcksDePedidos, PorProcessar, Confirmado
    <3>2. AcksSao(Append(dafPaf, ACK(~seqRx)), ~pafTx) /\ AcksAte(Append(dafPaf, ACK(~seqRx)), pafTx)
      BY <1>a, <1>b, <3>1, EnvioDeAck
    <3>3. AcksSao(dafPaf', ~pafTx) /\ AcksAte(dafPaf', pafTx)
      BY <1>4, <3>1, <3>2 DEF DafLeRepetido
    <3> QED
      BY <2>0, <2>1, <2>2, <3>3 DEF InvPedidos, AcksDePedidos
  <2> QED
    BY <2>3, <2>4
<1>5. ASSUME PafPede PROVE InvPedidos'
  <2>0. UNCHANGED <<seqRx, processados, pafTx, dafPaf>> /\ pafEspera' /\ enviados' \in 1..NPedidos
    BY <1>5 DEF PafPede, DafQuieto
  <2>1. /\ PorProcessar' \/ PorConfirmar'
        /\ PorConfirmar' <=> PorConfirmar
    <3>1. CASE ~pafEspera /\ enviados' = enviados + 1 /\ pafEspera' = TRUE
      BY <1>a, <1>c, <2>0, <3>1 DEF InvPedidos, PorProcessar, PorConfirmar, Confirmado
    <3>2. CASE pafEspera /\ UNCHANGED <<enviados, pafEspera>>
      BY <1>a, <2>0, <3>2 DEF InvPedidos, PorProcessar, PorConfirmar, Confirmado
    <3> QED
      BY <1>5, <3>1, <3>2 DEF PafPede
  <2>2. ASSUME NEW q \in Quadros, q.tipo = "DATA", PedidoEmTransito(q)
        PROVE  /\ q.num <= enviados'
               /\ \/ q.num = enviados' /\ (q.seq = pafTx <=> pafEspera')
                  \/ q.num + 1 = enviados' /\ PorProcessar' /\ q.seq # pafTx
    <3>0. q.num \in Nat
      BY <2>2, TipoDoDado, LimitesAssumption
    <3>1. CASE ~pafEspera /\ enviados' = enviados + 1 /\ pafEspera' = TRUE
      BY <1>a, <1>c, <2>0, <2>2, <3>0, <3>1
         DEF InvPedidos, PedidoEmTransito, PorProcessar, PorConfirmar, Confirmado
    <3>2. CASE pafEspera /\ UNCHANGED <<enviados, pafEspera>>
      <4>1. (PorProcessar' <=> PorProcessar) /\ enviados' = enviados /\ pafEspera' = pafEspera
        BY <2>0, <3>2 DEF PorProcessar
      <4> QED
        BY <1>a, <2>2, <3>0, <4>1 DEF PedidoEmTransito
    <3> QED
      BY <1>5, <3>1, <3>2 DEF PafPede
  <2>3. PedidosEmTransito'
    <3> DEFINE d == DATA(pafTx, enviados')
    <3>1. d \in Quadros /\ d.tipo = "DATA" /\ d.seq = pafTx /\ d.num = enviados' /\ enviados' \in Nat
      BY <1>a, <2>0, UmDado
    <3>2. pafDaf' = pafDaf \/ pafDaf' = Append(pafDaf, d)
      BY <1>5 DEF PafPede
    <3> HIDE DEF d
    <3>3. \A i \in 1..Len(pafDaf) : pafDaf[i].tipo = "DATA" => PedidoEmTransito(pafDaf[i])
      BY DEF InvPedidos, PedidosEmTransito
    <3>4. \A i \in 1..Len(pafDaf) : pafDaf[i] \in Quadros
      BY <1>a, LenProperties
    <3>5. \A i \in 1..Len(pafDaf) : pafDaf[i].tipo = "DATA" => pafDaf[i].num <= enviados'
      BY <2>2, <3>3, <3>4
    <3>6. EmOrdem(pafDaf')
      BY <1>a, <3>1, <3>2, <3>5, EnvioDeDado DEF InvPedidos, PedidosEmTransito
    <3>7. /\ Len(pafDaf) \in Nat
          /\ \A i \in 1..Len(pafDaf') :
                pafDaf'[i] = d \/ (i \in 1..Len(pafDaf) /\ pafDaf'[i] = pafDaf[i])
      <4>1. Len(pafDaf) \in Nat
        BY <1>a, LenProperties
      <4>2. CASE pafDaf' = Append(pafDaf, d)
        BY <1>a, <3>1, <4>1, <4>2, DepoisDoEnvio
      <4> QED
        BY <3>2, <4>1, <4>2
    <3>8. ASSUME NEW i \in 1..Len(pafDaf'), pafDaf'[i].tipo = "DATA"
          PROVE  PedidoEmTransito(pafDaf[i])'
      BY <2>0, <2>2, <3>1, <3>3, <3>4, <3>7, <3>8 DEF PedidoEmTransito
    <3> QED
      BY <3>6, <3>8 DEF PedidosEmTransito
  <2> QED
    BY <2>0, <2>1, <2>3 DEF InvPedidos, AcksDePedidos
<1>6. ASSUME PafLeAck PROVE InvPedidos'
  <2>1. CASE UNCHANGED <<pafEspera, pafTx>>
    <3>1. /\ UNCHANGED <<seqRx, processados, enviados, pafEspera, pafTx>> /\ pafDaf' = pafDaf
          /\ dafPaf # <<>> /\ dafPaf' = Tail(dafPaf)
      BY <1>6, <2>1 DEF PafLeAck, PafRecebeQuadro, DafQuieto
    <3> QED
      BY <3>1, PedidosQuietos
  <2>2. CASE pafEspera /\ dafPaf[1].seq = pafTx /\ pafEspera' = FALSE /\ pafTx' = ~pafTx
    <3>1. dafPaf # <<>> /\ dafPaf' = Tail(dafPaf) /\ dafPaf[1].tipo = "ACK"
      BY <1>6 DEF PafLeAck, PafRecebeQuadro
    <3>2. UNCHANGED <<seqRx, processados, enviados, pafDaf>>
      BY <1>6 DEF PafLeAck, DafQuieto
    <3>3. PorConfirmar
      BY <2>2, <3>1, AckEsperado
    <3>4. Confirmado'
      BY <1>a, <2>2, <3>2, <3>3 DEF PorConfirmar, Confirmado
    <3>5. PedidosEmTransito'
      BY <1>a, <2>2, <3>2, <3>3 DEF InvPedidos, PedidosEmTransito, PedidoEmTransito, PorConfirmar,
                               PorProcessar
    <3>6. AcksSao(dafPaf', pafTx)
      BY <1>a, <2>2, <3>1, Recepcao DEF InvPedidos, AcksDePedidos
    <3>7. AcksAte(dafPaf', ~pafTx)
      BY <1>a, <3>6 DEF AcksSao, AcksAte
    <3> QED
      BY <1>a, <2>2, <3>4, <3>5, <3>6, <3>7 DEF InvPedidos, AcksDePedidos
  <2> QED
    BY <1>6, <2>1, <2>2 DEF PafLeAck
<1>7. ASSUME PafLeResposta PROVE InvPedidos'
  <2>1. dafPaf # <<>> /\ dafPaf' = Tail(dafPaf) /\ dafPaf[1].seq \in BOOLEAN
    BY <1>7, <1>a, DepoisDaRecepcao, TipoDoDado DEF PafLeResposta, PafRecebeQuadro
  <2> QED
    <3>1. UNCHANGED <<seqRx, processados, enviados, pafEspera, pafTx>>
      BY <1>7 DEF PafLeResposta, DafQuieto
    <3>2. pafDaf' = pafDaf \/ \E x \in BOOLEAN : pafDaf' = Append(pafDaf, ACK(x))
      BY <1>7, <2>1 DEF PafLeResposta
    <3> QED
      BY <2>1, <3>1, <3>2, PedidosQuietos
<1> QED
  BY <1>1, <1>2, <1>3, <1>4, <1>5, <1>6, <1>7, PassosDaLigacao

\* Nothing was sent yet.
LEMMA PedidosNoInicio == Init => InvPedidos
<1> SUFFICES ASSUME Init PROVE InvPedidos
  OBVIOUS
<1>1. Len(processados) = 0 /\ Len(pafDaf) = 0 /\ Len(dafPaf) = 0
  BY DEF Init
<1>2. Confirmado
  BY <1>1 DEF Init, Confirmado
<1>3. PedidosEmTransito /\ AcksDePedidos
  BY <1>1 DEF PedidosEmTransito, AcksDePedidos, EmOrdem, AcksSao, AcksAte
<1> QED
  BY <1>2, <1>3 DEF InvPedidos

\* A request in transit is the last one or a copy of the one before it, and an ACK with the
\* number that the PAF waits for exists only for a request that was processed (ARQ::wait, idle,
\* arq.cpp:161-173, 205-230).
THEOREM InvarianteDePedidos == Spec => [](InvTipo /\ InvPedidos)
  BY TipoInicial, TipoAoPassar, PedidosNoInicio, PedidosAoPassar, PTL DEF Spec

\* Seen from the PAF, the link and the device refine an ordered channel that delivers each
\* request once and confirms it only after it was processed, although frames are lost, the
\* PAF repeats and the ACKs sent in WAIT carry the wrong number (ARQ::wait, idle,
\* arq.cpp:161-173, 205-230).
THEOREM EntregaImplementada == Spec => ImplementaEntrega
<1>1. Init => Pedidos!Init
  BY DEF Init, Pedidos!Init
<1>2. ASSUME InvTipo, InvPedidos, [Next]_vars
      PROVE  [Pedidos!Next]_(Pedidos!vars)
  <2>a. enviados \in Nat /\ Len(processados) \in Nat
    <3>1. processados \in Seq(1..NPedidos) /\ enviados \in 0..NPedidos
      BY <1>2 DEF InvTipo, TypeOK
    <3> QED
      BY <3>1, LimitesAssumption, LenProperties
  <2>1. CASE UNCHANGED <<enviados, processados, pafEspera>>
    BY <2>1 DEF Pedidos!vars
  <2>2. CASE PassoDoTempo \/ DafLeAck \/ DafLeRepetido \/ PafLeResposta
    BY <2>1, <2>2 DEF PassoDoTempo, DafLeAck, DafLeRepetido, PafLeResposta, RepeteOuDesiste,
                      PafQuieta, DafQuieto
  <2>3. CASE DafLeNovo
    <3>1. PorProcessar /\ pafDaf[1].num = enviados
      BY <1>2, <2>3, PedidoEsperado DEF DafLeNovo, DafRecebe
    <3>2. UNCHANGED <<enviados, pafEspera>> /\ processados' = Append(processados, enviados)
      BY <2>3, <3>1 DEF DafLeNovo, PafQuieta
    <3>3. Len(processados) < enviados
      BY <2>a, <3>1 DEF PorProcessar
    <3> QED
      BY <3>2, <3>3 DEF Pedidos!Next, Pedidos!Entregar
  <2>4. CASE PafPede
    <3>1. CASE ~pafEspera /\ enviados' = enviados + 1 /\ pafEspera' = TRUE
      BY <2>4, <3>1 DEF PafPede, DafQuieto, Pedidos!Next, Pedidos!Enviar
    <3>2. CASE UNCHANGED <<enviados, pafEspera>>
      BY <2>1, <2>4, <3>2 DEF PafPede, DafQuieto
    <3> QED
      BY <2>4, <3>1, <3>2 DEF PafPede
  <2>5. CASE PafLeAck
    <3>1. CASE pafEspera /\ dafPaf[1].seq = pafTx /\ pafEspera' = FALSE
      <4>1. PorConfirmar
        BY <1>2, <2>5, <3>1, AckEsperado DEF PafLeAck, PafRecebeQuadro
      <4> QED
        BY <2>5, <3>1, <4>1 DEF PafLeAck, DafQuieto, PorConfirmar, Pedidos!Next, Pedidos!Confirmar
    <3>2. CASE UNCHANGED pafEspera
      BY <2>1, <2>5, <3>2 DEF PafLeAck, DafQuieto
    <3> QED
      BY <2>5, <3>1, <3>2 DEF PafLeAck
  <2> QED
    BY <1>2, <2>2, <2>3, <2>4, <2>5, PassosDaLigacao
<1> QED
  BY <1>1, <1>2, InvarianteDePedidos, PTL DEF Spec, ImplementaEntrega, Pedidos!Spec

-----------------------------------------------------------------------------
(* Answers                                                                   *)

\* The requests or answers in a channel.
Dados(c) == {c[i] : i \in {j \in 1..Len(c) : c[j].tipo = "DATA"}}

\* What they carry.
LEMMA DadosDoCanal ==
    ASSUME NEW c \in Seq(Quadros)
    PROVE  \A q \in Dados(c) : q \in Quadros /\ q.tipo = "DATA" /\ q.seq \in BOOLEAN /\ q.num \in 1..NPedidos
<1>1. \A i \in 1..Len(c) : c[i] \in Quadros
  BY LenProperties
<1> QED
  BY <1>1, TipoDoDado DEF Dados

\* Sending adds one, or none.
LEMMA DadosDepoisDoEnvio ==
    ASSUME NEW c \in Seq(Quadros), NEW q \in Quadros
    PROVE  /\ q.tipo = "ACK" => Dados(Append(c, q)) = Dados(c)
           /\ q.tipo = "DATA" => Dados(Append(c, q)) = Dados(c) \cup {q}
<1> DEFINE d == Append(c, q)
<1>1. /\ Len(d) = Len(c) + 1 /\ Len(c) \in Nat
      /\ \A i \in 1..Len(d) : d[i] = IF i <= Len(c) THEN c[i] ELSE q
  BY DepoisDoEnvio
<1> HIDE DEF d
<1>2. 1..Len(d) = 1..Len(c) \cup {Len(d)} /\ d[Len(d)] = q
  BY <1>1
<1>3. \A i \in 1..Len(c) : i \in 1..Len(d) /\ d[i] = c[i]
  BY <1>1
<1>4. \A x : x \in Dados(d) <=> \E i \in 1..Len(d) : d[i].tipo = "DATA" /\ x = d[i]
  BY DEF Dados
<1>5. \A x : x \in Dados(c) <=> \E i \in 1..Len(c) : c[i].tipo = "DATA" /\ x = c[i]
  BY DEF Dados
<1>6. \A x : x \in Dados(d) <=> x \in Dados(c) \/ (q.tipo = "DATA" /\ x = q)
  BY <1>2, <1>3, <1>4, <1>5
<1> QED
  BY <1>6 DEF d

\* Receiving takes the first, and the ones left are not older.
LEMMA DadosDepoisDaRecepcao ==
    ASSUME NEW c \in Seq(Quadros), c # <<>>
    PROVE  /\ Dados(Tail(c)) \subseteq Dados(c)
           /\ c[1].tipo = "DATA" => c[1] \in Dados(c)
           /\ EmOrdem(c) /\ c[1].tipo = "DATA" => \A q \in Dados(Tail(c)) : c[1].num <= q.num
<1> DEFINE d == Tail(c)
<1>1. /\ Len(c) \in Nat \ {0} /\ Len(d) = Len(c) - 1
      /\ \A i \in 1..Len(d) : i + 1 \in 1..Len(c) /\ d[i] = c[i + 1]
  BY DepoisDaRecepcao
<1> HIDE DEF d
<1>2. Dados(d) \subseteq Dados(c)
  BY <1>1 DEF Dados
<1>3. c[1].tipo = "DATA" => c[1] \in Dados(c)
  BY <1>1 DEF Dados
<1>4. ASSUME EmOrdem(c), c[1].tipo = "DATA", NEW q \in Dados(d) PROVE c[1].num <= q.num
  <2>1. PICK i \in 1..Len(d) : q = d[i] /\ d[i].tipo = "DATA"
    BY DEF Dados
  <2>2. i + 1 \in 1..Len(c) /\ q = c[i + 1] /\ 1 < i + 1 /\ 1 \in 1..Len(c)
    BY <1>1, <2>1
  <2> QED
    BY <1>4, <2>1, <2>2 DEF EmOrdem
<1> QED
  BY <1>2, <1>3, <1>4 DEF d

\* What the PAF received is not newer than the answer, and if it is the answer, the PAF
\* would take this one for a repetition.
NaoRecebida(q) == \A k \in 1..Len(entregues) :
    \/ entregues[k] < q.num
    \/ entregues[k] = q.num /\ q.seq # pafRx

\* Answers in transit, and the one that may be repeated.
RespostasEmTransito ==
    /\ enviada.num <= Len(processados)
    /\ NaoRecebida(enviada)
    /\ \A q \in Dados(dafPaf) : NaoRecebida(q) /\ (q.num < enviada.num \/ q = enviada)
    /\ \A p, q \in Dados(dafPaf) : p.num = q.num => p = q
    /\ EmOrdem(dafPaf)

\* A list of answers where each is newer than the ones before.
Crescente(s) == \A i, j \in 1..Len(s) : i < j => s[i] < s[j]

\* Answers reach the PAF in order, and what is in transit does not break it.
InvRespostas == RespostasEmTransito /\ Crescente(entregues)

\* A list that grows by an answer newer than all of its own.
LEMMA RespostaRecebida ==
    ASSUME NEW s \in Seq(1..NPedidos), Crescente(s), NEW n \in 1..NPedidos,
           \A k \in 1..Len(s) : s[k] < n
    PROVE  /\ Crescente(Append(s, n)) /\ Len(Append(s, n)) = Len(s) + 1 /\ Len(s) \in Nat
           /\ Append(s, n)[Len(Append(s, n))] = n
           /\ \A k \in 1..Len(Append(s, n)) : Append(s, n)[k] <= n
<1> DEFINE d == Append(s, n)
<1>1. /\ Len(d) = Len(s) + 1 /\ Len(s) \in Nat
      /\ \A k \in 1..Len(d) : d[k] = IF k <= Len(s) THEN s[k] ELSE n
      /\ \A k \in 1..Len(s) : s[k] \in Int
  BY AppendProperties, LenProperties, LimitesAssumption
<1>2. n \in Int
  BY LimitesAssumption
<1> HIDE DEF d
<1>3. Crescente(d)
  BY <1>1, <1>2 DEF Crescente
<1>4. d[Len(d)] = n /\ \A k \in 1..Len(d) : d[k] <= n
  BY <1>1, <1>2
<1> QED
  BY <1>1, <1>3, <1>4 DEF d

\* Nothing changes for the answers when the PAF receives none and the device sends none
\* that is new.
LEMMA RespostasQuietas ==
    ASSUME InvTipo, InvRespostas, UNCHANGED <<enviada, entregues, pafRx>>,
           Len(processados) <= Len(processados'), Len(processados') \in Nat,
           EmOrdem(dafPaf'), Dados(dafPaf') \subseteq Dados(dafPaf) \cup {enviada}
    PROVE  InvRespostas'
<1>1. Len(processados) \in Nat /\ enviada.num \in Nat
  BY LenProperties, LimitesAssumption DEF InvTipo, TypeOK, DATA
<1>2. enviada'.num <= Len(processados') /\ NaoRecebida(enviada)'
  BY <1>1 DEF InvRespostas, RespostasEmTransito, NaoRecebida
<1>3. ASSUME NEW q \in Dados(dafPaf')
      PROVE  (\A k \in 1..Len(entregues') : \/ entregues'[k] < q.num
                                            \/ entregues'[k] = q.num /\ q.seq # pafRx')
             /\ (q.num < enviada'.num \/ q = enviada')
  BY <1>3 DEF InvRespostas, RespostasEmTransito, NaoRecebida
<1>4. ASSUME NEW p \in Dados(dafPaf'), NEW q \in Dados(dafPaf'), p.num = q.num PROVE p = q
  BY <1>1, <1>4 DEF InvRespostas, RespostasEmTransito
<1>5. RespostasEmTransito'
  BY <1>2, <1>3, <1>4 DEF RespostasEmTransito, NaoRecebida
<1> QED
  BY <1>5 DEF InvRespostas

\* Repeating the last answer, or any ACK, keeps the order.
LEMMA RepeticaoEmOrdem ==
    ASSUME InvTipo, InvRespostas
    PROVE  /\ enviada \in Quadros /\ enviada.tipo = "DATA"
                => EmOrdem(Append(dafPaf, enviada))
                   /\ Dados(Append(dafPaf, enviada)) \subseteq Dados(dafPaf) \cup {enviada}
           /\ \A x \in BOOLEAN : EmOrdem(Append(dafPaf, ACK(x)))
                                 /\ Dados(Append(dafPaf, ACK(x))) = Dados(dafPaf)
<1>a. dafPaf \in Seq(Quadros) /\ TRUE \in BOOLEAN /\ enviada.num \in Nat
  BY LimitesAssumption DEF InvTipo, TypeOK, DATA
<1>1. ASSUME enviada \in Quadros, enviada.tipo = "DATA"
      PROVE  EmOrdem(Append(dafPaf, enviada))
             /\ Dados(Append(dafPaf, enviada)) \subseteq Dados(dafPaf) \cup {enviada}
  <2>1. \A i \in 1..Len(dafPaf) : dafPaf[i].tipo = "DATA" => dafPaf[i] \in Dados(dafPaf)
    BY DEF Dados
  <2>2. \A q \in Dados(dafPaf) : q.num \in Nat /\ (q.num < enviada.num \/ q = enviada)
    BY <1>a, DadosDoCanal, LimitesAssumption DEF InvRespostas, RespostasEmTransito
  <2>3. \A i \in 1..Len(dafPaf) : dafPaf[i].tipo = "DATA" => dafPaf[i].num <= enviada.num
    BY <1>a, <2>1, <2>2
  <2>4. EmOrdem(Append(dafPaf, enviada))
    BY <1>a, <1>1, <2>3, EnvioDeDado DEF InvRespostas, RespostasEmTransito
  <2> QED
    BY <1>a, <1>1, <2>4, DadosDepoisDoEnvio
<1>2. ASSUME NEW x \in BOOLEAN
      PROVE  EmOrdem(Append(dafPaf, ACK(x))) /\ Dados(Append(dafPaf, ACK(x))) = Dados(dafPaf)
  BY <1>a, UmAck, EnvioDeAck, DadosDepoisDoEnvio DEF InvRespostas, RespostasEmTransito
<1> QED
  BY <1>1, <1>2

\* What the first answer that the PAF reads says of the ones that follow and of what it
\* received before.
LEMMA RespostaLida ==
    ASSUME InvTipo, InvRespostas, dafPaf # <<>>, dafPaf[1].tipo = "DATA", NEW q,
           q = enviada \/ q \in Dados(Tail(dafPaf)) \/ q = dafPaf[1]
    PROVE  /\ dafPaf[1].num \in 1..NPedidos /\ dafPaf[1].seq \in BOOLEAN /\ NaoRecebida(dafPaf[1])
           /\ q.num \in Nat /\ dafPaf[1].num <= q.num /\ (dafPaf[1].num = q.num => q = dafPaf[1])
<1>a. dafPaf \in Seq(Quadros) /\ enviada.num \in Nat /\ NPedidos \in Nat
  BY LimitesAssumption DEF InvTipo, TypeOK, DATA
<1>1. dafPaf[1] \in Dados(dafPaf) /\ EmOrdem(dafPaf)
  BY <1>a, DadosDepoisDaRecepcao DEF InvRespostas, RespostasEmTransito
<1>2. dafPaf[1].num \in 1..NPedidos /\ dafPaf[1].seq \in BOOLEAN /\ NaoRecebida(dafPaf[1])
  BY <1>a, <1>1, DadosDoCanal DEF InvRespostas, RespostasEmTransito
<1>3. CASE q = enviada
  BY <1>a, <1>1, <1>2, <1>3 DEF InvRespostas, RespostasEmTransito
<1>4. CASE q \in Dados(Tail(dafPaf))
  <2>1. q \in Dados(dafPaf) /\ dafPaf[1].num <= q.num
    BY <1>a, <1>1, <1>4, DadosDepoisDaRecepcao
  <2>2. q.num \in Nat
    BY <1>a, <2>1, DadosDoCanal
  <2> QED
    BY <1>1, <1>2, <2>1, <2>2 DEF InvRespostas, RespostasEmTransito
<1>5. CASE q = dafPaf[1]
  BY <1>a, <1>2, <1>5
<1> QED
  BY <1>3, <1>4, <1>5

\* Every step keeps the answers in order.
LEMMA RespostasAoPassar ==
    ASSUME InvTipo, InvTipo', InvPedidos, InvRespostas, [Next]_vars
    PROVE  InvRespostas'
<1>a. /\ pafDaf \in Seq(Quadros) /\ dafPaf \in Seq(Quadros) /\ seqTx \in BOOLEAN /\ pafRx \in BOOLEAN
      /\ processados \in Seq(1..NPedidos) /\ enviados \in Nat /\ NPedidos \in Nat
      /\ seqRx \in BOOLEAN /\ entregues \in Seq(1..NPedidos)
  BY LimitesAssumption DEF InvTipo, TypeOK
<1>b. /\ EmOrdem(dafPaf)
      /\ dafPaf # <<>> => EmOrdem(Tail(dafPaf)) /\ Dados(Tail(dafPaf)) \subseteq Dados(dafPaf)
  <2>1. TRUE \in BOOLEAN
    OBVIOUS
  <2> QED
    BY <1>a, <2>1, Recepcao, DadosDepoisDaRecepcao DEF InvRespostas, RespostasEmTransito
<1>c. Len(processados) \in Nat
  BY <1>a, LenProperties
<1>d. ASSUME UNCHANGED <<enviada, entregues, pafRx>>,
             Len(processados) <= Len(processados'), Len(processados') \in Nat,
             \/ dafPaf' = dafPaf
             \/ dafPaf # <<>> /\ dafPaf' = Tail(dafPaf)
             \/ dafPaf' = Append(dafPaf, enviada) /\ enviada \in Quadros /\ enviada.tipo = "DATA"
             \/ \E x \in BOOLEAN : dafPaf' = Append(dafPaf, ACK(x))
      PROVE  InvRespostas'
  <2>1. EmOrdem(dafPaf') /\ Dados(dafPaf') \subseteq Dados(dafPaf) \cup {enviada}
    BY <1>b, <1>d, RepeticaoEmOrdem
  <2> QED
    BY <1>d, <2>1, RespostasQuietas
<1>1. ASSUME PassoDoTempo PROVE InvRespostas'
  <2>1. UNCHANGED <<enviada, entregues, pafRx, processados>>
    BY <1>1 DEF PassoDoTempo, RepeteOuDesiste, PafQuieta, DafQuieto
  <2>2. \/ dafPaf' = dafPaf
        \/ dafPaf' = Append(dafPaf, enviada) /\ enviada \in Quadros /\ enviada.tipo = "DATA"
    BY <1>1 DEF PassoDoTempo, RepeteOuDesiste
  <2> QED
    BY <1>c, <1>d, <2>1, <2>2
<1>2. ASSUME DafLeAck PROVE InvRespostas'
  <2>1. UNCHANGED <<enviada, entregues, pafRx, processados>>
    BY <1>2 DEF DafLeAck, RepeteOuDesiste, PafQuieta, DafQuieto
  <2>2. \/ dafPaf' = dafPaf
        \/ dafPaf' = Append(dafPaf, enviada) /\ enviada \in Quadros /\ enviada.tipo = "DATA"
    BY <1>2 DEF DafLeAck, RepeteOuDesiste
  <2> QED
    BY <1>c, <1>d, <2>1, <2>2
<1>3. ASSUME DafLeNovo PROVE InvRespostas'
  <2>0. /\ PorProcessar /\ pafDaf[1].num = enviados /\ UNCHANGED <<entregues, pafRx, seqTx>>
        /\ pafDaf[1] \in Quadros /\ pafDaf[1].tipo = "DATA"
    BY <1>a, <1>3, PedidoEsperado, DepoisDaRecepcao DEF DafLeNovo, DafRecebe, PafQuieta
  <2>1. pafDaf[1].num \in 1..NPedidos
    BY <2>0, TipoDoDado
  <2>2. Len(processados') = Len(processados) + 1 /\ enviados = Len(processados')
    <3>1. Len(processados') = Len(processados) + 1
      BY <1>3, <1>a, <2>1, AppendProperties DEF DafLeNovo
    <3> QED
      BY <2>0, <3>1 DEF PorProcessar
  <2>3. CASE /\ UNCHANGED <<estado, enviada>>
             /\ dafPaf' = dafPaf \/ \E x \in BOOLEAN : dafPaf' = Append(dafPaf, ACK(x))
    BY <1>c, <1>d, <2>0, <2>2, <2>3
  <2>4. CASE /\ enviada' = DATA(seqTx, pafDaf[1].num)
             /\ \/ dafPaf' = dafPaf \/ dafPaf' = Append(dafPaf, ACK(seqRx))
                \/ dafPaf' = Append(dafPaf, enviada')
                \/ dafPaf' = Append(Append(dafPaf, ACK(seqRx)), enviada')
    <3> DEFINE m == enviada'
    <3>1. m \in Quadros /\ m.tipo = "DATA" /\ m.num = enviados /\ m.num \in Nat
      BY <1>a, <2>0, <2>1, <2>4, UmDado
    <3> HIDE DEF m
    <3>2. enviada.num \in Nat /\ enviada.num < m.num
      <4>1. enviada.num \in Nat
        BY LimitesAssumption DEF InvTipo, TypeOK, DATA
      <4> QED
        BY <1>c, <2>2, <3>1, <4>1 DEF InvRespostas, RespostasEmTransito
    <3>3. \A q \in Dados(dafPaf) : q.num \in Nat /\ q.num < m.num
      <4>1. \A q \in Dados(dafPaf) : q.num \in Nat
        BY <1>a, DadosDoCanal
      <4> QED
        BY <3>1, <3>2, <4>1 DEF InvRespostas, RespostasEmTransito
    <3>4. \A k \in 1..Len(entregues) : entregues[k] < m.num
      <4>1. \A k \in 1..Len(entregues) : entregues[k] \in Nat
        BY <1>a, LenProperties
      <4> QED
        BY <3>1, <3>2, <4>1 DEF InvRespostas, RespostasEmTransito, NaoRecebida
    <3>5. ASSUME NEW c \in Seq(Quadros), Dados(c) = Dados(dafPaf), EmOrdem(c)
          PROVE  EmOrdem(Append(c, m)) /\ Dados(Append(c, m)) = Dados(dafPaf) \cup {m}
      <4>1. \A i \in 1..Len(c) : c[i].tipo = "DATA" => c[i] \in Dados(c)
        BY DEF Dados
      <4>2. \A i \in 1..Len(c) : c[i].tipo = "DATA" => c[i].num <= m.num
        BY <3>1, <3>3, <3>5, <4>1
      <4>3. TRUE \in BOOLEAN
        OBVIOUS
      <4> QED
        BY <3>1, <3>5, <4>2, <4>3, EnvioDeDado, DadosDepoisDoEnvio
    <3>6. EmOrdem(dafPaf') /\ Dados(dafPaf') \subseteq Dados(dafPaf) \cup {m}
      <4>1. /\ Append(dafPaf, ACK(seqRx)) \in Seq(Quadros) /\ EmOrdem(Append(dafPaf, ACK(seqRx)))
            /\ Dados(Append(dafPaf, ACK(seqRx))) = Dados(dafPaf)
        BY <1>a, UmAck, DepoisDoEnvio, RepeticaoEmOrdem
      <4>2. EmOrdem(Append(dafPaf, m)) /\ Dados(Append(dafPaf, m)) = Dados(dafPaf) \cup {m}
        BY <1>a, <1>b, <3>5
      <4>3. /\ EmOrdem(Append(Append(dafPaf, ACK(seqRx)), m))
            /\ Dados(Append(Append(dafPaf, ACK(seqRx)), m)) = Dados(dafPaf) \cup {m}
        BY <3>5, <4>1
      <4> QED
        BY <1>b, <2>4, <4>1, <4>2, <4>3 DEF m
    <3>7. \A q \in Dados(dafPaf') :
             (\A k \in 1..Len(entregues) : \/ entregues[k] < q.num
                                           \/ entregues[k] = q.num /\ q.seq # pafRx)
             /\ (q.num < m.num \/ q = m)
      BY <3>3, <3>4, <3>6 DEF InvRespostas, RespostasEmTransito, NaoRecebida
    <3>8. \A p, q \in Dados(dafPaf') : p.num = q.num => p = q
      BY <3>1, <3>3, <3>6 DEF InvRespostas, RespostasEmTransito
    <3>9. enviada' = m /\ m.num <= Len(processados')
      BY <1>c, <2>2, <3>1 DEF m
    <3>10. NaoRecebida(enviada)'
      BY <2>0, <3>4, <3>9 DEF NaoRecebida
    <3>11. RespostasEmTransito'
      BY <2>0, <3>6, <3>7, <3>8, <3>9, <3>10 DEF RespostasEmTransito, NaoRecebida
    <3> QED
      BY <2>0, <3>11 DEF InvRespostas
  <2> QED
    BY <1>3, <2>3, <2>4 DEF DafLeNovo
<1>4. ASSUME DafLeRepetido PROVE InvRespostas'
  <2>1. UNCHANGED <<enviada, entregues, pafRx, processados>>
    BY <1>4 DEF DafLeRepetido, PafQuieta, DafQuieto
  <2>2. dafPaf' = dafPaf \/ \E x \in BOOLEAN : dafPaf' = Append(dafPaf, ACK(x))
    <3>1. (~seqRx) \in BOOLEAN
      OBVIOUS
    <3> QED
      BY <1>4, <3>1 DEF DafLeRepetido
  <2> QED
    BY <1>c, <1>d, <2>1, <2>2
<1>5. ASSUME PafPede PROVE InvRespostas'
  BY <1>c, <1>d, <1>5 DEF PafPede, DafQuieto
<1>6. ASSUME PafLeAck PROVE InvRespostas'
  BY <1>c, <1>d, <1>6 DEF PafLeAck, PafRecebeQuadro, DafQuieto
<1>7. ASSUME PafLeResposta PROVE InvRespostas'
  <2>0. /\ UNCHANGED <<enviada, processados>> /\ dafPaf # <<>> /\ dafPaf' = Tail(dafPaf)
        /\ dafPaf[1].tipo = "DATA"
    BY <1>7 DEF PafLeResposta, PafRecebeQuadro, DafQuieto
  <2>1. CASE UNCHANGED <<pafRx, entregues>>
    BY <1>c, <1>d, <2>0, <2>1
  <2>2. CASE /\ dafPaf[1].seq = pafRx /\ pafRx' = ~pafRx
             /\ entregues' = Append(entregues, dafPaf[1].num)
    <3> DEFINE n == dafPaf[1].num
    <3>0. n \in 1..NPedidos /\ NaoRecebida(dafPaf[1])
      BY <2>0, RespostaLida
    <3>1. \A k \in 1..Len(entregues) : entregues[k] < n
      BY <2>2, <3>0 DEF NaoRecebida
    <3>2. entregues' = Append(entregues, n)
      BY <2>2
    <3> HIDE DEF n
    <3>3. Crescente(entregues') /\ \A k \in 1..Len(entregues') : entregues'[k] <= n
      BY <1>a, <3>0, <3>1, <3>2, RespostaRecebida DEF InvRespostas
    <3>4. \A k \in 1..Len(entregues') : entregues'[k] \in Nat
      <4>1. entregues' \in Seq(1..NPedidos)
        BY DEF InvTipo, TypeOK
      <4> QED
        BY <1>a, <4>1, LenProperties
    <3>5. ASSUME NEW q, q = enviada \/ q \in Dados(Tail(dafPaf))
          PROVE  \A k \in 1..Len(entregues') : \/ entregues'[k] < q.num
                                               \/ entregues'[k] = q.num /\ q.seq # pafRx'
      <4>1. q.num \in Nat /\ n <= q.num /\ (n = q.num => q = dafPaf[1])
        BY <2>0, <3>5, RespostaLida DEF n
      <4>2. n = q.num => q.seq # pafRx'
        BY <1>a, <2>2, <4>1
      <4> QED
        BY <1>a, <3>0, <3>3, <3>4, <4>1, <4>2
    <3>6. NaoRecebida(enviada)'
      BY <2>0, <3>5 DEF NaoRecebida
    <3>7. RespostasEmTransito'
      BY <1>b, <2>0, <3>5, <3>6 DEF InvRespostas, RespostasEmTransito, NaoRecebida
    <3> QED
      BY <3>3, <3>7 DEF InvRespostas
  <2> QED
    BY <1>7, <2>1, <2>2 DEF PafLeResposta
<1> QED
  BY <1>1, <1>2, <1>3, <1>4, <1>5, <1>6, <1>7, PassosDaLigacao

-----------------------------------------------------------------------------
(* Answers as long as none was given up                                      *)

\* The answer in course was not received, or was, or its ACK came back; or there is none.
Chegou     == entregues # <<>> /\ entregues[Len(entregues)] = enviada.num
PorReceber == estado = "WAIT" /\ enviada.seq = seqTx /\ pafRx = seqTx
Recebida   == estado = "WAIT" /\ enviada.seq = seqTx /\ pafRx # seqTx /\ Chegou
Terminada  == estado = "IDLE" /\ enviada.seq # seqTx /\ pafRx = seqTx /\ Chegou
Nenhuma    == estado = "IDLE" /\ enviada.num = 0 /\ pafRx = seqTx /\ Dados(dafPaf) = {}

\* An ACK with the number that the device waits for is in transit only when the answer
\* was received.
AcksDeRespostas == (~Recebida => AcksSao(pafDaf, ~seqTx)) /\ AcksAte(pafDaf, seqTx)

\* Until an answer is given up.
SemDesistencia ==
    ~desistiu =>
        /\ PorReceber \/ Recebida \/ Terminada \/ Nenhuma
        /\ \A q \in Dados(dafPaf) : q.num < enviada.num => q.seq # seqTx
        /\ AcksDeRespostas

\* A step that neither sends a new answer nor receives one or its ACK.
LEMMA SemDesistenciaQuieta ==
    ASSUME InvTipo, InvRespostas, SemDesistencia, ~desistiu,
           UNCHANGED <<estado, seqTx, enviada, pafRx, entregues>>,
           \/ pafDaf' = pafDaf
           \/ pafDaf # <<>> /\ pafDaf' = Tail(pafDaf)
           \/ \E d \in Quadros : d.tipo = "DATA" /\ pafDaf' = Append(pafDaf, d),
           Dados(dafPaf') \subseteq Dados(dafPaf) \cup {enviada},
           enviada.num = 0 => Dados(dafPaf') \subseteq Dados(dafPaf)
    PROVE  SemDesistencia'
<1>a. pafDaf \in Seq(Quadros) /\ seqTx \in BOOLEAN /\ enviada.num \in Nat
  BY LimitesAssumption DEF InvTipo, TypeOK, DATA
<1>b. (~seqTx) \in BOOLEAN
  OBVIOUS
<1>1. /\ PorReceber' <=> PorReceber
      /\ Recebida' <=> Recebida
      /\ Terminada' <=> Terminada
      /\ Nenhuma => Nenhuma'
  BY DEF PorReceber, Recebida, Terminada, Nenhuma, Chegou
<1>2. \A q \in Dados(dafPaf') : q.num < enviada'.num => q.seq # seqTx'
  BY <1>a DEF SemDesistencia
<1>3. \A s \in BOOLEAN : /\ AcksSao(pafDaf, s) => AcksSao(pafDaf', s)
                         /\ AcksAte(pafDaf, s) => AcksAte(pafDaf', s)
  BY <1>a, Recepcao, EnvioDeDado
<1>4. AcksDeRespostas'
  BY <1>a, <1>b, <1>1, <1>3 DEF SemDesistencia, AcksDeRespostas
<1>5. PorReceber' \/ Recebida' \/ Terminada' \/ Nenhuma'
  BY <1>1 DEF SemDesistencia
<1> QED
  BY <1>2, <1>4, <1>5 DEF SemDesistencia

\* Every step keeps sequence numbers, answers and their ACKs consistent until one is given up.
LEMMA SemDesistenciaAoPassar ==
    ASSUME InvTipo, InvTipo', InvPedidos, InvRespostas, SemDesistencia, [Next]_vars
    PROVE  SemDesistencia'
<1> SUFFICES ASSUME ~desistiu' PROVE SemDesistencia'
  BY DEF SemDesistencia
<1>a. /\ pafDaf \in Seq(Quadros) /\ dafPaf \in Seq(Quadros) /\ seqTx \in BOOLEAN /\ pafRx \in BOOLEAN
      /\ seqRx \in BOOLEAN /\ entregues \in Seq(1..NPedidos) /\ NPedidos \in Nat
      /\ enviada.num \in Nat /\ estado \in {"IDLE", "WAIT"}
  BY LimitesAssumption DEF InvTipo, TypeOK, DATA
<1>b. (~seqTx) \in BOOLEAN
  OBVIOUS
<1>c. ASSUME UNCHANGED <<estado, seqTx, enviada, pafRx, entregues>>, ~desistiu,
             \/ pafDaf' = pafDaf
             \/ pafDaf # <<>> /\ pafDaf' = Tail(pafDaf)
             \/ \E d \in Quadros : d.tipo = "DATA" /\ pafDaf' = Append(pafDaf, d),
             \/ dafPaf' = dafPaf
             \/ dafPaf # <<>> /\ dafPaf' = Tail(dafPaf)
             \/ dafPaf' = Append(dafPaf, enviada) /\ enviada \in Quadros /\ enviada.tipo = "DATA"
             \/ \E x \in BOOLEAN : dafPaf' = Append(dafPaf, ACK(x))
      PROVE  SemDesistencia'
  <2>1. CASE dafPaf' = Append(dafPaf, enviada) /\ enviada \in Quadros /\ enviada.tipo = "DATA"
    <3>1. enviada.num # 0
      BY <2>1, TipoDoDado
    <3>2. Dados(dafPaf') \subseteq Dados(dafPaf) \cup {enviada}
      BY <2>1, RepeticaoEmOrdem
    <3> QED
      BY <1>c, <3>1, <3>2, SemDesistenciaQuieta
  <2>2. CASE dafPaf # <<>> /\ dafPaf' = Tail(dafPaf)
    <3>1. Dados(dafPaf') \subseteq Dados(dafPaf)
      BY <1>a, <2>2, DadosDepoisDaRecepcao
    <3> QED
      BY <1>c, <3>1, SemDesistenciaQuieta
  <2>3. CASE dafPaf' = dafPaf \/ \E x \in BOOLEAN : dafPaf' = Append(dafPaf, ACK(x))
    <3>1. Dados(dafPaf') = Dados(dafPaf)
      <4>1. \A x \in BOOLEAN : Dados(Append(dafPaf, ACK(x))) = Dados(dafPaf)
        BY RepeticaoEmOrdem
      <4>2. ASSUME NEW x \in BOOLEAN, dafPaf' = Append(dafPaf, ACK(x))
            PROVE  Dados(dafPaf') = Dados(dafPaf)
        BY <4>1, <4>2
      <4>3. CASE dafPaf' = dafPaf
        BY <4>3
      <4> QED
        BY <2>3, <4>2, <4>3
    <3> QED
      BY <1>c, <3>1, SemDesistenciaQuieta
  <2> QED
    BY <1>c, <2>1, <2>2, <2>3
<1>d. ASSUME RepeteOuDesiste
      PROVE  /\ ~desistiu /\ UNCHANGED <<estado, seqTx, enviada>>
             /\ \/ dafPaf' = dafPaf
                \/ dafPaf' = Append(dafPaf, enviada) /\ enviada \in Quadros /\ enviada.tipo = "DATA"
  <2>1. CASE DafQuieto
    BY <1>d, <2>1 DEF RepeteOuDesiste, DafQuieto
  <2>2. CASE /\ UNCHANGED <<seqTx, enviada, dafPaf>>
             /\ estado' = "IDLE" /\ desistiu' = (desistiu \/ estado = "WAIT")
    BY <1>a, <2>2
  <2> QED
    BY <1>d, <2>1, <2>2 DEF RepeteOuDesiste
<1>1. ASSUME PassoDoTempo PROVE SemDesistencia'
  BY <1>1, <1>c, <1>d DEF PassoDoTempo, PafQuieta
<1>2. ASSUME DafLeAck PROVE SemDesistencia'
  <2>0. /\ pafDaf # <<>> /\ pafDaf' = Tail(pafDaf) /\ pafDaf[1].tipo = "ACK"
        /\ UNCHANGED <<entregues, pafRx>>
    BY <1>2 DEF DafLeAck, DafRecebe, PafQuieta
  <2>1. CASE DafQuieto /\ dafPaf' = dafPaf
    BY <1>c, <2>0, <2>1 DEF DafQuieto
  <2>2. CASE RepeteOuDesiste
    BY <1>c, <1>d, <2>0, <2>2
  <2>3. CASE /\ estado = "WAIT" /\ pafDaf[1].seq = seqTx /\ seqTx' = ~seqTx /\ estado' = "IDLE"
             /\ UNCHANGED <<enviada, desistiu, dafPaf>>
    <3>0. ~desistiu /\ Len(pafDaf) \in Nat \ {0}
      BY <1>a, <2>0, <2>3, DepoisDaRecepcao
    <3>1. Recebida
      BY <1>a, <2>0, <2>3, <3>0 DEF SemDesistencia, AcksDeRespostas, AcksSao
    <3>2. Terminada'
      BY <1>a, <2>0, <2>3, <3>1 DEF Recebida, Terminada, Chegou
    <3>3. \A q \in Dados(dafPaf) : ~(q.num < enviada.num)
      <4>1. Len(entregues) \in 1..Len(entregues)
        BY <1>a, <3>1, LenProperties, EmptySeq DEF Recebida, Chegou
      <4>2. \A q \in Dados(dafPaf) : q.num \in Nat
        BY <1>a, DadosDoCanal
      <4> QED
        BY <1>a, <3>1, <4>1, <4>2 DEF InvRespostas, RespostasEmTransito, NaoRecebida, Recebida, Chegou
    <3>4. AcksSao(pafDaf', seqTx)
      BY <1>a, <2>0, <2>3, <3>0, Recepcao DEF SemDesistencia, AcksDeRespostas
    <3>5. AcksAte(pafDaf', ~seqTx)
      BY <1>a, <3>4 DEF AcksSao, AcksAte
    <3>6. AcksDeRespostas'
      BY <1>a, <2>3, <3>4, <3>5 DEF AcksDeRespostas
    <3> QED
      BY <2>3, <3>2, <3>3, <3>6 DEF SemDesistencia
  <2> QED
    BY <1>2, <2>1, <2>2, <2>3 DEF DafLeAck
<1>3. ASSUME DafLeNovo PROVE SemDesistencia'
  <2>0. /\ pafDaf # <<>> /\ pafDaf' = Tail(pafDaf) /\ ~desistiu
        /\ UNCHANGED <<entregues, pafRx, seqTx>>
        /\ pafDaf[1].num \in 1..NPedidos
    BY <1>3, <1>a, DepoisDaRecepcao, TipoDoDado DEF DafLeNovo, DafRecebe, PafQuieta
  <2>1. CASE /\ UNCHANGED <<estado, enviada>>
             /\ dafPaf' = dafPaf \/ \E x \in BOOLEAN : dafPaf' = Append(dafPaf, ACK(x))
    BY <1>c, <2>0, <2>1
  <2>2. CASE /\ estado = "IDLE" /\ estado' = "WAIT" /\ enviada' = DATA(seqTx, pafDaf[1].num)
             /\ \/ dafPaf' = dafPaf \/ dafPaf' = Append(dafPaf, ACK(seqRx))
                \/ dafPaf' = Append(dafPaf, enviada')
                \/ dafPaf' = Append(Append(dafPaf, ACK(seqRx)), enviada')
    <3>0. Terminada \/ Nenhuma
      BY <2>0, <2>2 DEF SemDesistencia, PorReceber, Recebida
    <3>1. enviada' \in Quadros /\ enviada'.tipo = "DATA" /\ enviada'.seq = seqTx
      BY <1>a, <2>0, <2>2, UmDado
    <3>2. PorReceber'
      BY <2>0, <2>2, <3>0, <3>1 DEF Terminada, Nenhuma, PorReceber
    <3>3. Dados(dafPaf') \subseteq Dados(dafPaf) \cup {enviada'}
      <4>1. /\ Append(dafPaf, ACK(seqRx)) \in Seq(Quadros)
            /\ Dados(Append(dafPaf, ACK(seqRx))) = Dados(dafPaf)
        BY <1>a, UmAck, DepoisDoEnvio, RepeticaoEmOrdem
      <4>2. Dados(Append(dafPaf, enviada')) = Dados(dafPaf) \cup {enviada'}
        BY <1>a, <3>1, DadosDepoisDoEnvio
      <4>3. Dados(Append(Append(dafPaf, ACK(seqRx)), enviada')) = Dados(dafPaf) \cup {enviada'}
        BY <3>1, <4>1, DadosDepoisDoEnvio
      <4> QED
        BY <2>2, <4>1, <4>2, <4>3
    <3>4. \A q \in Dados(dafPaf) : q.seq # seqTx
      BY <2>0, <3>0 DEF SemDesistencia, InvRespostas, RespostasEmTransito, Terminada, Nenhuma
    <3>5. \A q \in Dados(dafPaf') : q.num < enviada'.num => q.seq # seqTx
      <4>1. enviada'.num \in Nat
        BY <1>a, <2>0, <2>2 DEF DATA
      <4> QED
        BY <3>3, <3>4, <4>1
    <3>6. AcksSao(pafDaf, ~seqTx) /\ AcksAte(pafDaf, seqTx)
      BY <2>0, <2>2 DEF SemDesistencia, AcksDeRespostas, Recebida
    <3>7. AcksDeRespostas'
      BY <1>a, <1>b, <2>0, <3>6, Recepcao DEF AcksDeRespostas
    <3> QED
      BY <2>0, <3>2, <3>5, <3>7 DEF SemDesistencia
  <2> QED
    BY <1>3, <2>1, <2>2 DEF DafLeNovo
<1>4. ASSUME DafLeRepetido PROVE SemDesistencia'
  <2>1. /\ pafDaf # <<>> /\ pafDaf' = Tail(pafDaf) /\ ~desistiu
        /\ UNCHANGED <<estado, seqTx, enviada, pafRx, entregues>>
    BY <1>4 DEF DafLeRepetido, DafRecebe, PafQuieta, DafQuieto
  <2>2. dafPaf' = dafPaf \/ \E x \in BOOLEAN : dafPaf' = Append(dafPaf, ACK(x))
    <3>1. (~seqRx) \in BOOLEAN
      OBVIOUS
    <3> QED
      BY <1>4, <3>1 DEF DafLeRepetido
  <2> QED
    BY <1>c, <2>1, <2>2
<1>5. ASSUME PafPede PROVE SemDesistencia'
  <2>1. UNCHANGED <<estado, seqTx, enviada, pafRx, entregues, dafPaf>> /\ ~desistiu
    BY <1>5 DEF PafPede, DafQuieto
  <2>2. pafDaf' = pafDaf \/ \E d \in Quadros : d.tipo = "DATA" /\ pafDaf' = Append(pafDaf, d)
    <3>1. DATA(pafTx, enviados') \in Quadros /\ DATA(pafTx, enviados').tipo = "DATA"
      BY <1>5, UmDado DEF PafPede, InvTipo, TypeOK
    <3> QED
      BY <1>5, <3>1 DEF PafPede
  <2> QED
    BY <1>c, <2>1, <2>2
<1>6. ASSUME PafLeAck PROVE SemDesistencia'
  <2>1. /\ UNCHANGED <<estado, seqTx, enviada, pafRx, entregues, pafDaf>> /\ ~desistiu
        /\ dafPaf # <<>> /\ dafPaf' = Tail(dafPaf)
    BY <1>6 DEF PafLeAck, PafRecebeQuadro, DafQuieto
  <2> QED
    BY <1>c, <2>1
<1>7. ASSUME PafLeResposta PROVE SemDesistencia'
  <2> DEFINE r == dafPaf[1]
  <2>0. /\ UNCHANGED <<estado, seqTx, enviada>> /\ ~desistiu
        /\ dafPaf # <<>> /\ dafPaf' = Tail(dafPaf) /\ r.tipo = "DATA"
        /\ pafDaf' = pafDaf \/ pafDaf' = Append(pafDaf, ACK(r.seq))
    BY <1>7 DEF PafLeResposta, PafRecebeQuadro, DafQuieto
  <2>1. /\ r \in Dados(dafPaf) /\ Dados(dafPaf') \subseteq Dados(dafPaf)
        /\ NaoRecebida(r) /\ (r.num < enviada.num \/ r = enviada)
        /\ r.num \in 1..NPedidos /\ r.seq \in BOOLEAN
    BY <1>a, <2>0, DadosDepoisDaRecepcao, DadosDoCanal DEF InvRespostas, RespostasEmTransito
  <2>2. ~Nenhuma /\ (r.num < enviada.num => r.seq # seqTx)
    BY <2>0, <2>1 DEF Nenhuma, SemDesistencia
  <2>3. \A q \in Dados(dafPaf') : q.num < enviada.num => q.seq # seqTx
    BY <2>0, <2>1 DEF SemDesistencia
  <2>4. r.seq = pafRx => r = enviada /\ PorReceber
    <3>1. CASE PorReceber
      BY <2>1, <2>2, <3>1 DEF PorReceber
    <3>2. CASE Recebida
      <4>1. Len(entregues) \in 1..Len(entregues)
        BY <1>a, <3>2, LenProperties, EmptySeq DEF Recebida, Chegou
      <4> QED
        BY <1>a, <2>1, <3>2, <4>1 DEF NaoRecebida, Recebida, Chegou
    <3>3. CASE Terminada
      BY <2>1, <2>2, <3>3 DEF Terminada
    <3> QED
      BY <2>0, <2>2, <3>1, <3>2, <3>3 DEF SemDesistencia
  <2>5. PICK x \in BOOLEAN : x = r.seq
    BY <2>1
  <2>6. CASE r.seq = pafRx /\ pafRx' = ~pafRx /\ entregues' = Append(entregues, r.num)
    <3>1. r = enviada /\ PorReceber
      BY <2>4, <2>6
    <3>2. entregues' # <<>> /\ entregues'[Len(entregues')] = r.num
      BY <1>a, <2>1, <2>6, AppendProperties
    <3>3. Recebida'
      BY <1>a, <2>0, <2>6, <3>1, <3>2 DEF PorReceber, Recebida, Chegou
    <3>4. AcksSao(pafDaf, ~seqTx) /\ AcksAte(pafDaf, seqTx)
      BY <2>0, <3>1 DEF SemDesistencia, AcksDeRespostas, PorReceber, Recebida
    <3>5. AcksAte(Append(pafDaf, ACK(x)), seqTx)
      BY <1>a, <3>4, EnvioDeAck
    <3>6. AcksDeRespostas'
      BY <2>0, <2>5, <3>3, <3>4, <3>5 DEF AcksDeRespostas
    <3> QED
      BY <2>0, <2>3, <3>3, <3>6 DEF SemDesistencia
  <2>7. CASE r.seq # pafRx /\ UNCHANGED <<pafRx, entregues>>
    <3>1. /\ PorReceber' <=> PorReceber
          /\ Recebida' <=> Recebida
          /\ Terminada' <=> Terminada
      BY <2>0, <2>7 DEF PorReceber, Recebida, Terminada, Chegou
    <3>2. CASE Recebida
      <4>1. x = seqTx /\ AcksAte(pafDaf, seqTx)
        BY <1>a, <2>0, <2>5, <2>7, <3>2 DEF Recebida, SemDesistencia, AcksDeRespostas
      <4>2. AcksAte(Append(pafDaf, ACK(x)), seqTx)
        BY <1>a, <4>1, EnvioDeAck
      <4>3. AcksDeRespostas'
        BY <2>0, <2>5, <3>1, <3>2, <4>1, <4>2 DEF AcksDeRespostas
      <4> QED
        BY <2>0, <2>3, <3>1, <3>2, <4>3 DEF SemDesistencia
    <3>3. CASE ~Recebida
      <4>1. x = (~seqTx) /\ AcksSao(pafDaf, ~seqTx) /\ AcksAte(pafDaf, seqTx)
        BY <1>a, <2>0, <2>2, <2>5, <2>7, <3>3
           DEF PorReceber, Terminada, SemDesistencia, AcksDeRespostas
      <4>2. AcksSao(Append(pafDaf, ACK(x)), ~seqTx) /\ AcksAte(Append(pafDaf, ACK(x)), seqTx)
        BY <1>a, <1>b, <4>1, EnvioDeAck
      <4>3. AcksDeRespostas'
        BY <2>0, <2>5, <4>1, <4>2 DEF AcksDeRespostas
      <4> QED
        BY <2>0, <2>2, <2>3, <3>1, <3>3, <4>3 DEF SemDesistencia
    <3> QED
      BY <3>2, <3>3
  <2> QED
    BY <1>7, <2>6, <2>7 DEF PafLeResposta
<1> QED
  BY <1>1, <1>2, <1>3, <1>4, <1>5, <1>6, <1>7, PassosDaLigacao

\* No answer was sent yet.
LEMMA RespostasNoInicio == Init => InvRespostas /\ SemDesistencia
<1> SUFFICES ASSUME Init PROVE InvRespostas /\ SemDesistencia
  OBVIOUS
<1>1. Len(processados) = 0 /\ Len(pafDaf) = 0 /\ Len(dafPaf) = 0 /\ Len(entregues) = 0
      /\ enviada.num = 0
  BY DEF Init, DATA
<1>2. Dados(dafPaf) = {}
  BY <1>1 DEF Dados
<1>3. InvRespostas
  BY <1>1, <1>2 DEF InvRespostas, RespostasEmTransito, NaoRecebida, Crescente, EmOrdem
<1>4. SemDesistencia
  <2>1. Nenhuma
    BY <1>1, <1>2 DEF Init, Nenhuma
  <2>2. AcksDeRespostas
    BY <1>1 DEF AcksDeRespostas, AcksSao, AcksAte
  <2> QED
    BY <1>2, <2>1, <2>2 DEF SemDesistencia
<1> QED
  BY <1>3, <1>4

\* Answers in transit and the one that may be repeated are never older than what the PAF
\* received, and until one is given up the numbers of both sides tell whether it arrived
\* (ARQ::wait and idle, arq.cpp:145-159, 176-200).
THEOREM InvarianteDeRespostas == Spec => [](InvTipo /\ InvRespostas /\ SemDesistencia)
<1>1. ASSUME InvTipo, InvPedidos, InvRespostas, SemDesistencia, [Next]_vars
      PROVE  (InvTipo /\ InvPedidos /\ InvRespostas /\ SemDesistencia)'
  BY <1>1, TipoAoPassar, PedidosAoPassar, RespostasAoPassar, SemDesistenciaAoPassar
<1> QED
  BY <1>1, TipoInicial, PedidosNoInicio, RespostasNoInicio, PTL DEF Spec

\* The PAF never receives an answer twice, nor an older one after a newer, whatever is
\* lost, repeated or given up, the repetitions that a late timeout makes in IDLE included
\* (mecanismoDeRetransmissao, arq.cpp:93-118).
THEOREM RespostasUmaVez == Spec => []RespostaUmaVez
<1>1. InvTipo /\ InvRespostas /\ SemDesistencia => RespostaUmaVez
  <2>1. InvTipo => DOMAIN entregues = 1..Len(entregues)
    BY LenProperties DEF InvTipo, TypeOK
  <2> QED
    BY <2>1 DEF InvRespostas, Crescente, RespostaUmaVez
<1> QED
  BY <1>1, InvarianteDeRespostas, PTL

\* As long as the device gave up no answer, it is back in IDLE only after the PAF received
\* the last one (ARQ::wait, arq.cpp:145-159).
THEOREM RespostasConfirmadas == Spec => []RespostaConfirmadaChegou
<1>1. InvTipo /\ InvRespostas /\ SemDesistencia => RespostaConfirmadaChegou
  BY DEF SemDesistencia, PorReceber, Recebida, Terminada, Nenhuma, Chegou, RespostaConfirmadaChegou
<1> QED
  BY <1>1, InvarianteDeRespostas, PTL
=============================================================================
