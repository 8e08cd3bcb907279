------------------------ MODULE Enquadramento_proofs ------------------------
(***************************************************************************)
(* Proofs about Enquadramento, for any base, messages, chunks, timers and  *)
(* bounds: the types in any environment; with a contained PAF and a        *)
(* punctual loop, no timer is lost and the frames are faithful.            *)
(***************************************************************************)
EXTENDS Enquadramento, WellFoundedInduction, TLAPS

\* A set of numbers that is not empty has a least one: induction, for the lemmas below.
LEMMA MenorNumero ==
  ASSUME NEW T, T \subseteq Nat, T # {}
  PROVE  \E x \in T : \A y \in T : x <= y
<1> DEFINE R == OpToRel(<, Nat)
<1>1. IsWellFoundedOn(R, Nat)
  BY NatLessThanWellFounded, Zenon
<1>2. \A x, y \in Nat : x < y => <<x, y>> \in R
  BY DEF OpToRel
<1> HIDE DEF R
<1>3. PICK x \in T : \A y \in T : ~ (<<y, x>> \in R)
  BY <1>1, WFMin
<1>4. ASSUME NEW y \in T PROVE x <= y
  <2>1. x \in Nat /\ y \in Nat /\ ~ (y < x)
    BY <1>2, <1>3
  <2> QED
    BY <2>1
<1> QED
  BY <1>4

\* The timer that Habilita takes.
LEMMA MenorTimer ==
  ASSUME NEW T, T \subseteq Nat, T # {}
  PROVE  Min(T) \in T
  BY MenorNumero DEF Min

\* g is the machine after each of the first n bytes: the function of Alimenta is one.
Passos(g, s, bs, n) == g = [i \in 0..n |-> IF i = 0 THEN s ELSE HandleFsm(g[i - 1], bs[i])]

LEMMA ExistemPassos ==
  ASSUME NEW s, NEW bs, NEW n \in Nat
  PROVE  \E g : Passos(g, s, bs, n)
<1> DEFINE N == {k \in Nat : ~ \E g : Passos(g, s, bs, k)}
<1>1. SUFFICES ASSUME N # {} PROVE FALSE
  OBVIOUS
<1>2. PICK k \in N : \A y \in N : k <= y
  BY <1>1, MenorNumero
<1>3. CASE k = 0
  <2> DEFINE g == [i \in 0..0 |-> s]
  <2>1. g = [i \in 0..0 |-> IF i = 0 THEN s ELSE HandleFsm(g[i - 1], bs[i])]
    OBVIOUS
  <2> QED
    BY <1>2, <1>3, <2>1 DEF Passos
<1>4. CASE k # 0
  <2>1. k - 1 \in Nat /\ k - 1 \notin N
    BY <1>2, <1>4
  <2>2. PICK h : Passos(h, s, bs, k - 1)
    BY <2>1
  <2> DEFINE g == [i \in 0..k |-> IF i = k THEN HandleFsm(h[k - 1], bs[k]) ELSE h[i]]
  <2>3. ASSUME NEW i \in 0..k PROVE g[i] = IF i = 0 THEN s ELSE HandleFsm(g[i - 1], bs[i])
    <3>1. k \in Nat
      BY <1>2
    <3>2. CASE i = k
      BY <1>4, <3>1, <3>2
    <3>3. CASE i # k
      <4>1. i \in 0..(k - 1) /\ g[i] = h[i]
        BY <3>1, <3>3
      <4>2. h[i] = IF i = 0 THEN s ELSE HandleFsm(h[i - 1], bs[i])
        BY <2>2, <4>1 DEF Passos
      <4>3. i # 0 => g[i - 1] = h[i - 1]
        BY <3>1, <4>1
      <4> QED
        BY <4>1, <4>2, <4>3
    <3> QED
      BY <3>2, <3>3
  <2>4. g = [i \in 0..k |-> g[i]]
    OBVIOUS
  <2> HIDE DEF g
  <2>5. g = [i \in 0..k |-> IF i = 0 THEN s ELSE HandleFsm(g[i - 1], bs[i])]
    BY <2>3, <2>4
  <2> QED
    BY <1>2, <2>5 DEF Passos
<1> QED
  BY <1>3, <1>4

\* The machine after a chunk is the last of the machines after each of its bytes.
LEMMA DepoisDe ==
  ASSUME NEW s, NEW bs, Len(bs) \in Nat
  PROVE  \E g : /\ Alimenta(s, bs) = g[Len(bs)] /\ g[0] = s
                /\ \A i \in 1..Len(bs) : g[i] = HandleFsm(g[i - 1], bs[i])
<1> DEFINE g == CHOOSE d : d = [i \in 0..Len(bs) |->
                                  IF i = 0 THEN s ELSE HandleFsm(d[i - 1], bs[i])]
<1>1. Alimenta(s, bs) = g[Len(bs)]
  BY DEF Alimenta
<1>2. \E d : d = [i \in 0..Len(bs) |-> IF i = 0 THEN s ELSE HandleFsm(d[i - 1], bs[i])]
  <2>1. PICK d : Passos(d, s, bs, Len(bs))
    BY ExistemPassos
  <2> QED
    BY <2>1 DEF Passos
<1>3. g = [i \in 0..Len(bs) |-> IF i = 0 THEN s ELSE HandleFsm(g[i - 1], bs[i])]
  BY <1>2
<1> HIDE DEF g
<1>4. g[0] = s
  BY <1>3
<1>5. ASSUME NEW i \in 1..Len(bs) PROVE g[i] = HandleFsm(g[i - 1], bs[i])
  BY <1>3
<1> QED
  BY <1>1, <1>4, <1>5

-----------------------------------------------------------------------------
(* Types                                                                     *)

\* The machines the code can be in: TipoEnq as a set, and the count of data bytes never beyond
\* the bytes written.
Campos ==
    [estado : {"IDLE", "TAMANHO", "RX"}, tamTam : {2, 4}, nTam : 0..3, bufTam : [1..4 -> Bytes],
     comando : Comandos \cup {INVALIDO}, campoTamanho : 0..(Mod32 - 1), dadosSz : Nat,
     dados : Seq(Bytes), completo : BOOLEAN, timerId : Timers \cup {SemTimer},
     timers : [Timers -> {"livre", "contando", "expirado"}], recebida : Seq(Bytes)]

Maquinas == {s \in Campos : s.dadosSz <= Len(s.dados)}

\* Everything but the timers.
Mesma(s, r) ==
    /\ r.estado = s.estado /\ r.tamTam = s.tamTam /\ r.nTam = s.nTam /\ r.bufTam = s.bufTam
    /\ r.comando = s.comando /\ r.campoTamanho = s.campoTamanho /\ r.dadosSz = s.dadosSz
    /\ r.dados = s.dados /\ r.completo = s.completo /\ r.recebida = s.recebida

\* A machine that holds no timer but the one it names.
SoOSeu(s) == \A t \in Timers : s.timers[t] # "livre" => t = s.timerId

LEMMA TiposDosTimers ==
  ASSUME NEW s \in Maquinas
  PROVE  /\ Fecha(s) \in Maquinas /\ Mesma(s, Fecha(s)) /\ Fecha(s).timerId = s.timerId
         /\ SoOSeu(s) => \A t \in Timers : Fecha(s).timers[t] = "livre"
<1>1. s \in Campos
  BY DEF Maquinas
<1> DEFINE ts == [t \in Timers |-> IF t = s.timerId THEN "livre" ELSE s.timers[t]]
<1>2. ts \in [Timers -> {"livre", "contando", "expirado"}]
  BY <1>1 DEF Campos
<1>3. Fecha(s) = [s EXCEPT !.timers = ts]
  BY DEF Fecha
<1>4. SoOSeu(s) => \A t \in Timers : ts[t] = "livre"
  BY DEF SoOSeu
<1> HIDE DEF ts
<1>5. Fecha(s) \in Campos /\ Fecha(s).timers = ts /\ Fecha(s).timerId = s.timerId
  BY <1>1, <1>2, <1>3 DEF Campos
<1>6. Mesma(s, Fecha(s))
  BY <1>1, <1>3 DEF Campos, Mesma
<1> QED
  BY <1>4, <1>5, <1>6 DEF Maquinas, Mesma

LEMMA TiposDeHabilita ==
  ASSUME NEW s \in Maquinas
  PROVE  /\ Habilita(s) \in Maquinas /\ Mesma(s, Habilita(s))
         /\ (\A t \in Timers : s.timers[t] = "livre") => SoOSeu(Habilita(s))
<1>1. s \in Campos
  BY DEF Maquinas
<1> DEFINE livres == {t \in Timers : s.timers[t] = "livre"}
<1>2. CASE livres = {}
  <2>1. Habilita(s) = [s EXCEPT !.timerId = SemTimer]
    BY <1>2 DEF Habilita
  <2>2. Habilita(s) \in Campos /\ Mesma(s, Habilita(s)) /\ Habilita(s).timers = s.timers
    BY <1>1, <2>1 DEF Campos, Mesma
  <2> QED
    BY <2>2 DEF Maquinas, Mesma, SoOSeu
<1>3. CASE livres # {}
  <2> DEFINE id == Min(livres)
  <2>1. id \in Timers
    <3>1. livres \subseteq Nat /\ livres \subseteq Timers
      BY DEF Timers
    <3> QED
      BY <1>3, <3>1, MenorTimer
  <2>2. Habilita(s) = [s EXCEPT !.timerId = id, !.timers[id] = "contando"]
    BY <1>3 DEF Habilita
  <2> HIDE DEF id
  <2>3. [s.timers EXCEPT ![id] = "contando"] \in [Timers -> {"livre", "contando", "expirado"}]
    BY <1>1, <2>1 DEF Campos
  <2>4. /\ Habilita(s) \in Campos /\ Habilita(s).timerId = id
        /\ Habilita(s).timers = [s.timers EXCEPT ![id] = "contando"]
    BY <1>1, <2>1, <2>2, <2>3 DEF Campos
  <2>5. Mesma(s, Habilita(s))
    BY <1>1, <2>2 DEF Campos, Mesma
  <2>6. (\A t \in Timers : s.timers[t] = "livre") => SoOSeu(Habilita(s))
    BY <1>1, <2>1, <2>4 DEF SoOSeu, Campos
  <2> QED
    BY <2>4, <2>5, <2>6 DEF Maquinas, Mesma
<1> QED
  BY <1>2, <1>3

LEMMA TiposDeRearma ==
  ASSUME NEW s \in Maquinas
  PROVE  /\ Rearma(s) \in Maquinas /\ Mesma(s, Rearma(s))
         /\ SoOSeu(s) => SoOSeu(Rearma(s))
<1>1. Fecha(s) \in Maquinas /\ Mesma(s, Fecha(s))
      /\ (SoOSeu(s) => \A t \in Timers : Fecha(s).timers[t] = "livre")
  BY TiposDosTimers
<1> DEFINE r == Fecha(s)
<1>2. Rearma(s) = Habilita(r)
  BY DEF Rearma
<1> HIDE DEF r
<1>3. Habilita(r) \in Maquinas /\ Mesma(r, Habilita(r))
      /\ ((\A t \in Timers : r.timers[t] = "livre") => SoOSeu(Habilita(r)))
  BY <1>1, TiposDeHabilita DEF r
<1> QED
  BY <1>1, <1>2, <1>3 DEF Mesma, r

\* One more digit in base B.
LEMMA Digito ==
  ASSUME NEW B \in Nat, NEW M \in Nat, NEW u \in 0..(M - 1), NEW d \in 0..(B - 1)
  PROVE  u * B + d \in 0..(M * B - 1)
<1>1. u * B \in Nat /\ M * B \in Nat
  OBVIOUS
<1>2. (u + 1) * B <= M * B
  <2>1. (M - (u + 1)) * B >= 0
    OBVIOUS
  <2>2. (M - (u + 1)) * B = M * B - (u + 1) * B
    OBVIOUS
  <2> QED
    BY <2>1, <2>2
<1>3. (u + 1) * B = u * B + B
  OBVIOUS
<1> QED
  BY <1>1, <1>2, <1>3

LEMMA Produto ==
  ASSUME NEW B \in Nat, B > 2, NEW M \in Nat, M >= B
  PROVE  M * B \in Nat /\ M * B >= M /\ M * B >= B
<1>1. M * B = M + M * (B - 1)
  OBVIOUS
<1>2. M * (B - 1) >= 0
  OBVIOUS
<1> QED
  BY <1>1, <1>2

LEMMA Largura == Base * Base \in Nat /\ Base * Base <= Mod32 /\ Mod32 \in Nat /\ Base <= Mod32
<1> USE EnquadramentoAssumption DEF EnquadramentoAssumption
<1> DEFINE q2 == Base * Base
           q3 == q2 * Base
           q4 == q3 * Base
<1>1. q2 \in Nat /\ q2 >= Base
  BY Produto
<1> HIDE DEF q2
<1>2. q3 \in Nat /\ q3 >= q2 /\ q3 >= Base
  BY <1>1, Produto
<1> HIDE DEF q3
<1>3. q4 \in Nat /\ q4 >= q3
  BY <1>2, Produto
<1> HIDE DEF q4
<1>4. Mod32 = q4
  BY DEF Mod32, q2, q3, q4
<1>5. Base <= q4 /\ q2 <= q4
  BY <1>1, <1>2, <1>3
<1> QED
  BY <1>1, <1>3, <1>4, <1>5 DEF q2

LEMMA TipoDoValor ==
  ASSUME NEW bt \in [1..4 -> Bytes], NEW n \in {2, 4}
  PROVE  Valor(bt, n) \in 0..(Mod32 - 1)
<1>1. Base \in Nat /\ \A i \in 1..4 : bt[i] \in 0..(Base - 1)
  BY EnquadramentoAssumption DEF EnquadramentoAssumption, Bytes
<1> DEFINE u2 == bt[1] * Base + bt[2]
           u3 == u2 * Base + bt[3]
           u4 == u3 * Base + bt[4]
           q2 == Base * Base
           q3 == q2 * Base
           q4 == q3 * Base
<1>2. u2 \in 0..(q2 - 1)
  BY <1>1, Digito
<1>3. q2 \in Nat /\ q2 <= Mod32 /\ Mod32 \in Nat /\ Mod32 = q4
  BY Largura DEF Mod32
<1>4. Valor(bt, n) = IF n = 2 THEN u2 ELSE u4
  BY DEF Valor
<1> HIDE DEF u2, q2
<1>5. u3 \in 0..(q3 - 1) /\ q3 \in Nat
  BY <1>1, <1>2, <1>3, Digito
<1> HIDE DEF u3, q3
<1>6. u4 \in 0..(q4 - 1)
  BY <1>1, <1>5, Digito
<1> HIDE DEF u4, q4
<1> QED
  BY <1>2, <1>3, <1>4, <1>6

Livre(s) == \A t \in Timers : s.timers[t] = "livre"

\* No timer is held but that of the frame in course, and none between frames.
Limpa(s) == SoOSeu(s) /\ (s.estado = "IDLE" => Livre(s))

LEMMA TipoDeIdle ==
  ASSUME NEW s \in Maquinas, s.estado = "IDLE", NEW x \in Bytes
  PROVE  /\ Idle(s, x) \in Maquinas
         /\ Limpa(s) => Limpa(Idle(s, x))
<1>1. CASE x \in Comandos
  <2> DEFINE r == [s EXCEPT !.comando = x, !.estado = "TAMANHO",
                            !.tamTam = IF x = ENVIAR_MENSAGEM THEN 2 ELSE 4]
  <2>1. Idle(s, x) = Habilita(r)
    BY <1>1 DEF Idle
  <2>2. /\ r \in Campos /\ r.dadosSz = s.dadosSz /\ r.dados = s.dados
        /\ r.estado = "TAMANHO" /\ r.timers = s.timers
    BY <1>1 DEF Maquinas, Campos
  <2> HIDE DEF r
  <2>3. r \in Maquinas
    BY <2>2 DEF Maquinas
  <2>4. Habilita(r) \in Maquinas /\ Mesma(r, Habilita(r)) /\ (Livre(r) => SoOSeu(Habilita(r)))
    BY <2>3, TiposDeHabilita DEF Livre
  <2> QED
    BY <2>1, <2>2, <2>4 DEF Limpa, Livre, Mesma
<1>2. CASE x \notin Comandos
  BY <1>2 DEF Idle
<1> QED
  BY <1>1, <1>2

LEMMA TipoDeTamanho ==
  ASSUME NEW s \in Maquinas, s.estado = "TAMANHO", NEW x \in Bytes
  PROVE  /\ Tamanho(s, x) \in Maquinas
         /\ Limpa(s) => Limpa(Tamanho(s, x))
<1> DEFINE lido == [s EXCEPT !.bufTam[s.nTam + 1] = x]
           v == Valor(lido.bufTam, s.tamTam)
           r1 == [lido EXCEPT !.nTam = @ + 1]
           r2 == [lido EXCEPT !.estado = "RX", !.campoTamanho = v]
<1>0. s \in Campos /\ s.nTam + 1 \in 1..4
  BY DEF Maquinas, Campos
<1>1. /\ lido \in Campos /\ lido.dadosSz = s.dadosSz /\ lido.dados = s.dados
      /\ lido.estado = "TAMANHO" /\ lido.timers = s.timers /\ lido.timerId = s.timerId
      /\ lido.nTam = s.nTam
  BY <1>0 DEF Campos
<1>2. v \in 0..(Mod32 - 1)
  BY <1>0, <1>1, TipoDoValor DEF Campos
<1> HIDE DEF lido, v
<1> DEFINE Boa(r) == /\ r \in Maquinas /\ r.timers = s.timers /\ r.timerId = s.timerId
                     /\ r.estado # "IDLE"
<1>3. s.nTam < s.tamTam - 1 => Boa(r1)
  <2> SUFFICES ASSUME s.nTam < s.tamTam - 1 PROVE Boa(r1)
    OBVIOUS
  <2>1. lido.nTam + 1 \in 0..3
    BY <1>0, <1>1 DEF Campos
  <2> QED
    BY <1>1, <2>1 DEF Campos, Maquinas
<1>4. Boa(r2)
  BY <1>1, <1>2 DEF Campos, Maquinas
<1>5. Boa(s)
  OBVIOUS
<1>6. PICK r : Boa(r) /\ Tamanho(s, x) = Rearma(r)
  <2>1. CASE s.nTam < s.tamTam - 1
    <3>1. Tamanho(s, x) = Rearma(r1)
      <4> DEFINE R2 == Rearma([lido EXCEPT !.estado = "RX",
                                           !.campoTamanho = Valor(lido.bufTam, s.tamTam)])
                 R3 == Rearma(s)
      <4>1. Tamanho(s, x) = CASE s.nTam < s.tamTam - 1 -> Rearma(r1)
                              [] s.nTam = s.tamTam - 1 -> R2
                              [] OTHER -> R3
        BY DEF Tamanho, lido
      <4>2. s.nTam # s.tamTam - 1
        BY <1>0, <2>1 DEF Campos
      <4> HIDE DEF R2, R3, r1
      <4> QED
        BY <2>1, <4>1, <4>2
    <3> QED
      BY <1>3, <2>1, <3>1
  <2>2. CASE s.nTam = s.tamTam - 1
    <3>1. ~(s.nTam < s.tamTam - 1)
      BY <1>0, <2>2 DEF Campos
    <3>2. Tamanho(s, x) = Rearma([lido EXCEPT !.estado = "RX",
                                 !.campoTamanho = Valor(lido.bufTam, s.tamTam)])
      <4> DEFINE R1 == Rearma(r1)
                 R2 == Rearma([lido EXCEPT !.estado = "RX",
                                           !.campoTamanho = Valor(lido.bufTam, s.tamTam)])
                 R3 == Rearma(s)
      <4>1. Tamanho(s, x) = CASE s.nTam < s.tamTam - 1 -> R1
                              [] s.nTam = s.tamTam - 1 -> R2
                              [] OTHER -> R3
        BY DEF Tamanho, lido
      <4> HIDE DEF R1, R2, R3
      <4> QED
        BY <2>2, <3>1, <4>1 DEF R2
    <3>3. Tamanho(s, x) = Rearma(r2)
      BY <3>2 DEF v
    <3> QED
      BY <1>4, <3>3
  <2>3. CASE ~(s.nTam < s.tamTam - 1) /\ s.nTam # s.tamTam - 1
    <3>1. Tamanho(s, x) = Rearma(s)
      BY <2>3 DEF Tamanho
    <3> QED
      BY <1>5, <3>1
  <2> QED
    BY <2>1, <2>2, <2>3
<1>7. Rearma(r) \in Maquinas /\ Mesma(r, Rearma(r)) /\ (SoOSeu(r) => SoOSeu(Rearma(r)))
  BY <1>6, TiposDeRearma
<1> QED
  BY <1>6, <1>7 DEF Limpa, SoOSeu, Mesma

LEMMA TipoDeRx ==
  ASSUME NEW s \in Maquinas, s.estado = "RX", NEW x \in Bytes
  PROVE  /\ Rx(s, x) \in Maquinas
         /\ Limpa(s) => Limpa(Rx(s, x))
<1> DEFINE ds == Append(SubSeq(s.dados, 1, s.dadosSz), x)
           gravado == [s EXCEPT !.dados = ds]
           r1 == [gravado EXCEPT !.dadosSz = @ + 1]
           f == Fecha(gravado)
           r2 == [f EXCEPT !.estado = "IDLE", !.completo = TRUE, !.recebida = ds]
<1>0. s \in Campos /\ s.dados \in Seq(Bytes) /\ s.dadosSz \in 0..Len(s.dados)
  BY DEF Maquinas, Campos
<1>1. ds \in Seq(Bytes) /\ Len(ds) = s.dadosSz + 1
  BY <1>0
<1> HIDE DEF ds
<1>2. /\ gravado \in Campos /\ gravado.dados = ds /\ gravado.dadosSz = s.dadosSz
      /\ gravado.timers = s.timers /\ gravado.timerId = s.timerId /\ gravado.estado = "RX"
  BY <1>0, <1>1 DEF Campos
<1>3. gravado \in Maquinas
  <2>1. gravado.dadosSz <= Len(gravado.dados)
    BY <1>0, <1>1, <1>2
  <2> QED
    BY <1>2, <2>1 DEF Maquinas
<1>4. \/ Rx(s, x) = Rearma(r1)
      \/ Rx(s, x) = r2
      \/ Rx(s, x) = s
  <2>1. gravado.dados = ds
    BY <1>2
  <2> QED
    BY <2>1 DEF Rx, ds
<1> HIDE DEF gravado
<1>5. Rearma(r1) \in Maquinas /\ (Limpa(s) => Limpa(Rearma(r1)))
  <2>1. /\ r1 \in Maquinas /\ r1.timers = s.timers /\ r1.timerId = s.timerId /\ r1.estado = "RX"
    <3>1. gravado.dadosSz + 1 \in Nat /\ gravado.dadosSz + 1 <= Len(ds)
      BY <1>0, <1>1, <1>2
    <3>2. /\ r1 \in Campos /\ r1.dadosSz = gravado.dadosSz + 1 /\ r1.dados = ds
          /\ r1.timers = s.timers /\ r1.timerId = s.timerId /\ r1.estado = "RX"
      BY <1>2, <3>1 DEF Campos
    <3> QED
      BY <3>1, <3>2 DEF Maquinas
  <2> HIDE DEF r1
  <2>2. Rearma(r1) \in Maquinas /\ Mesma(r1, Rearma(r1)) /\ (SoOSeu(r1) => SoOSeu(Rearma(r1)))
    BY <2>1, TiposDeRearma
  <2> QED
    BY <2>1, <2>2 DEF Limpa, SoOSeu, Mesma
<1>6. r2 \in Maquinas /\ (Limpa(s) => Limpa(r2))
  <2>1. /\ f \in Maquinas /\ Mesma(gravado, f) /\ f.timerId = gravado.timerId
        /\ (SoOSeu(gravado) => \A t \in Timers : f.timers[t] = "livre")
    BY <1>3, TiposDosTimers
  <2> HIDE DEF f
  <2>2. r2 \in Maquinas /\ r2.timers = f.timers
    BY <1>1, <2>1 DEF Campos, Maquinas
  <2>3. SoOSeu(s) => Livre(r2)
    BY <1>2, <2>1, <2>2 DEF SoOSeu, Livre
  <2> HIDE DEF r2
  <2>4. Livre(r2) => Limpa(r2)
    BY DEF Livre, Limpa, SoOSeu
  <2> QED
    BY <2>2, <2>3, <2>4 DEF Limpa
<1> QED
  BY <1>4, <1>5, <1>6

LEMMA TipoDeHandleFsm ==
  ASSUME NEW s \in Maquinas, NEW x \in Bytes
  PROVE  HandleFsm(s, x) \in Maquinas /\ (Limpa(s) => Limpa(HandleFsm(s, x)))
<1>1. s.estado \in {"IDLE", "TAMANHO", "RX"}
  BY DEF Maquinas, Campos
<1> QED
  BY <1>1, TipoDeIdle, TipoDeTamanho, TipoDeRx DEF HandleFsm
-----------------------------------------------------------------------------
(* With a contained PAF and a punctual loop: the frame in course             *)

\* Bytes before the data.
Cabecalho(c) == IF c = ENVIAR_MENSAGEM THEN 3 ELSE 5

Registros == [comando : Comandos, dados : Mensagens]

Registro(c, m) == [comando |-> c, dados |-> m]

\* The machine before any byte of a frame.
EmBranco(s) ==
    /\ s.estado = "IDLE" /\ s.nTam = 0 /\ s.dadosSz = 0 /\ s.dados = <<>> /\ ~s.completo

\* The size in course: k bytes of the frame taken, command included.
NoTamanho(s, c, m, k) ==
    /\ s.estado = "TAMANHO" /\ s.comando = c /\ s.tamTam = Cabecalho(c) - 1 /\ s.nTam = k - 1
    /\ \A j \in 2..k : s.bufTam[j - 1] = Quadro(c, m)[j]
    /\ s.dadosSz = 0 /\ s.dados = <<>> /\ ~s.completo

\* The data in course.
NosDados(s, c, m, k) ==
    /\ s.estado = "RX" /\ s.comando = c /\ s.campoTamanho = Len(m)
    /\ s.dadosSz = k - Cabecalho(c) /\ s.dados = SubSeq(m, 1, k - Cabecalho(c))
    /\ ~s.completo

\* The frame complete and not yet handed over.
Completa(s, c, m) ==
    /\ s.estado = "IDLE" /\ s.comando = c /\ s.campoTamanho = Len(m) /\ s.dados = m
    /\ s.completo

\* The machine that has taken exactly the first k bytes of the frame, since it was blank.
NoQuadro(s, c, m, k) ==
    \/ k = 0 /\ EmBranco(s)
    \/ k \in 1..(Cabecalho(c) - 1) /\ NoTamanho(s, c, m, k)
    \/ k \in Cabecalho(c)..(Cabecalho(c) + Len(m) - 1) /\ NosDados(s, c, m, k)
    \/ k = Cabecalho(c) + Len(m) /\ Completa(s, c, m)

\* Nothing written that was not taken or forgotten.
Repouso ==
    /\ EmBranco(enq) /\ usb = <<>> /\ ~gTimeout /\ passo # "entrega" /\ inteiros = entregues

\* The PAF wrote the first f bytes of the frame and the machine took k of them; if it wrote
\* the whole frame, that is the only one that ARQ has not received.
EmCurso(c, m, f, k) ==
    /\ NoQuadro(enq, c, m, k) /\ k < Len(Quadro(c, m))
    /\ usb = SubSeq(Quadro(c, m), k + 1, f)
    /\ passo # "entrega" /\ (gTimeout => k = f)
    /\ inteiros = IF f = Len(Quadro(c, m)) THEN Append(entregues, Registro(c, m)) ELSE entregues

AEntregar(c, m) ==
    /\ passo = "entrega" /\ usb = <<>> /\ ~gTimeout /\ Completa(enq, c, m)
    /\ inteiros = Append(entregues, Registro(c, m))

Fase ==
    \/ Repouso
    \/ \E c \in Comandos, m \in Mensagens : \E f \in 1..Len(Quadro(c, m)) : \E k \in 0..f :
          EmCurso(c, m, f, k)
    \/ \E c \in Comandos, m \in Mensagens : AEntregar(c, m)

EmOrdem ==
    /\ Limpa(enq) /\ (gTimeout => Livre(enq))
    /\ inteiros \in Seq(Registros) /\ entregues \in Seq(Registros)
    /\ Fase

IInv == TypeOK /\ enq \in Maquinas /\ (Ordeira => EmOrdem)

-----------------------------------------------------------------------------
(* The bytes of a frame                                                      *)

LEMMA MenorQueABase ==
  ASSUME NEW B \in Nat, NEW x \in 0..(B - 1)
  PROVE  x \div B = 0 /\ x % B = x
<1>1. B > 0 /\ x >= 0 /\ x < B
  OBVIOUS
<1> QED
  BY <1>1, Z3

\* A number of two digits in base B.
LEMMA DoisDigitos ==
  ASSUME NEW B \in Nat, B > 2, NEW x \in 0..(B * B - 1)
  PROVE  /\ x \div B \in 0..(B - 1) /\ x % B \in 0..(B - 1)
         /\ (x \div B) * B + (x % B) = x
<1> DEFINE q == x \div B
           d == x % B
<1>1. q \in Nat /\ d \in 0..(B - 1) /\ x = q * B + d
  BY Z3
<1> HIDE DEF q, d
<1>2. q < B
  <2> SUFFICES ASSUME q >= B PROVE FALSE
    BY <1>1
  <2>1. q * B = B * B + (q - B) * B /\ (q - B) * B >= 0
    BY <1>1
  <2>2. B * B \in Nat /\ x <= B * B - 1
    OBVIOUS
  <2> QED
    BY <1>1, <2>1, <2>2
<1>3. q \in 0..(B - 1) /\ d \in 0..(B - 1) /\ q * B + d = x
  BY <1>1, <1>2
<1>4. /\ x \div B \in 0..(B - 1) /\ x % B \in 0..(B - 1)
      /\ (x \div B) * B + (x % B) = q * B + d
  BY <1>3 DEF q, d
<1> QED
  BY <1>3, <1>4

LEMMA DaMensagem ==
  ASSUME NEW m \in Mensagens
  PROVE  /\ m \in Seq(Bytes) /\ Len(m) \in 1..(Base * Base - 1)
         /\ Base \in Nat /\ Base > 2 /\ Base * Base \in Nat
<1> USE EnquadramentoAssumption DEF EnquadramentoAssumption
<1>1. m \in Seq(Bytes) /\ m # <<>> /\ Len(m) < Base * Base
  BY DEF Bytes
<1>2. Base * Base \in Nat
  BY Largura
<1> QED
  BY <1>1, <1>2

\* The header has the command and the size, in as many bytes as the command asks; the data
\* follow.
LEMMA QuadroCerto ==
  ASSUME NEW c \in Comandos, NEW m \in Mensagens
  PROVE  /\ Quadro(c, m) \in Seq(Bytes)
         /\ Len(Quadro(c, m)) = Cabecalho(c) + Len(m)
         /\ Quadro(c, m)[1] = c
         /\ \A j \in 2..(Cabecalho(c) - 2) : Quadro(c, m)[j] = 0
         /\ Quadro(c, m)[Cabecalho(c) - 1] = Len(m) \div Base
         /\ Quadro(c, m)[Cabecalho(c)] = Len(m) % Base
         /\ \A j \in 1..Len(m) : Quadro(c, m)[Cabecalho(c) + j] = m[j]
<1> DEFINE p == Len(m) \div Base
           q == Len(m) % Base
<1>1. /\ m \in Seq(Bytes) /\ Len(m) \in 1..(Base * Base - 1) /\ Len(m) \in Nat
      /\ Base \in Nat /\ Base > 2 /\ Base * Base \in Nat
  BY DaMensagem
<1>2. p \in 0..(Base - 1) /\ q \in 0..(Base - 1)
  <2>1. Len(m) \in 0..(Base * Base - 1)
    BY <1>1
  <2> QED
    BY <1>1, <2>1, DoisDigitos
<1>3. 0 \in Bytes /\ p \in Bytes /\ q \in Bytes /\ 1 \in Bytes /\ 2 \in Bytes
  BY <1>1, <1>2 DEF Bytes
<1>6. Enquadra(m) = <<1, p, q>> \o m /\ EnquadraBinario(m) = <<2, 0, 0, p, q>> \o m
  BY DEF Enquadra, EnquadraBinario, ENVIAR_MENSAGEM, ENVIAR_BINARIO
<1> HIDE DEF p, q
<1>4. CASE c = ENVIAR_MENSAGEM
  <2>1. Quadro(c, m) = <<1, p, q>> \o m /\ Cabecalho(c) = 3
    BY <1>6, <1>4 DEF Quadro, Cabecalho
  <2> DEFINE h == <<1, p, q>>
  <2>2. h \in Seq(Bytes) /\ Len(h) = 3 /\ h[1] = 1 /\ h[2] = p /\ h[3] = q
    BY <1>3
  <2> HIDE DEF h
  <2>3. /\ h \o m \in Seq(Bytes) /\ Len(h \o m) = 3 + Len(m)
        /\ \A j \in 1..3 : (h \o m)[j] = h[j]
        /\ \A j \in 1..Len(m) : (h \o m)[3 + j] = m[j]
    <3>1. /\ h \o m \in Seq(Bytes) /\ Len(h \o m) = Len(h) + Len(m)
          /\ \A j \in 1..Len(h) : (h \o m)[j] = h[j]
          /\ \A j \in 1..Len(m) : (h \o m)[Len(h) + j] = m[j]
      <4>1. h \in Seq(Bytes) /\ m \in Seq(Bytes)
        BY <1>1, <2>2
      <4> QED
        BY <4>1
    <3> QED
      BY <2>2, <3>1
  <2> QED
    <3>1. Quadro(c, m) = h \o m
      BY <2>1 DEF h
    <3>2. c = 1
      BY <1>4 DEF ENVIAR_MENSAGEM
    <3> QED
      BY <1>1, <2>1, <2>2, <2>3, <3>1, <3>2 DEF p, q
<1>5. CASE c = ENVIAR_BINARIO
  <2>1. Quadro(c, m) = <<2, 0, 0, p, q>> \o m /\ Cabecalho(c) = 5
    BY <1>6, <1>5 DEF Quadro, ENVIAR_MENSAGEM, ENVIAR_BINARIO, Cabecalho
  <2> DEFINE h == <<2, 0, 0, p, q>>
  <2>2. h \in Seq(Bytes) /\ Len(h) = 5 /\ h[1] = 2 /\ h[5] = q
        /\ h[2] = 0 /\ h[3] = 0 /\ h[4] = p
    BY <1>3
  <2> HIDE DEF h
  <2>3. /\ h \o m \in Seq(Bytes) /\ Len(h \o m) = 5 + Len(m)
        /\ \A j \in 1..5 : (h \o m)[j] = h[j]
        /\ \A j \in 1..Len(m) : (h \o m)[5 + j] = m[j]
    <3>1. /\ h \o m \in Seq(Bytes) /\ Len(h \o m) = Len(h) + Len(m)
          /\ \A j \in 1..Len(h) : (h \o m)[j] = h[j]
          /\ \A j \in 1..Len(m) : (h \o m)[Len(h) + j] = m[j]
      <4>1. h \in Seq(Bytes) /\ m \in Seq(Bytes)
        BY <1>1, <2>2
      <4> QED
        BY <4>1
    <3> QED
      BY <2>2, <3>1
  <2> QED
    <3>1. Quadro(c, m) = h \o m
      BY <2>1 DEF h
    <3>2. c = 2
      BY <1>5 DEF ENVIAR_BINARIO
    <3> QED
      BY <1>1, <2>1, <2>2, <2>3, <3>1, <3>2 DEF p, q
<1> QED
  BY <1>4, <1>5 DEF Comandos

LEMMA MesmoQuadro ==
  ASSUME NEW s, NEW r, Mesma(s, r), NEW c, NEW m, NEW k
  PROVE  /\ NoTamanho(s, c, m, k) => NoTamanho(r, c, m, k)
         /\ NosDados(s, c, m, k) => NosDados(r, c, m, k)
  BY DEF Mesma, NoTamanho, NosDados

LEMMA TamanhoDoCabecalho ==
  ASSUME NEW c \in Comandos
  PROVE  Cabecalho(c) \in {3, 5} /\ (c = ENVIAR_MENSAGEM => Cabecalho(c) = 3)
         /\ (c # ENVIAR_MENSAGEM => Cabecalho(c) = 5)
  BY DEF Cabecalho

LEMMA PrimeiroByte ==
  ASSUME NEW c \in Comandos, NEW m \in Mensagens, NEW s \in Maquinas, EmBranco(s)
  PROVE  NoTamanho(HandleFsm(s, c), c, m, 1)
<1> DEFINE r == [s EXCEPT !.comando = c, !.estado = "TAMANHO",
                          !.tamTam = IF c = ENVIAR_MENSAGEM THEN 2 ELSE 4]
<1>1. s \in Campos /\ s.estado = "IDLE"
  BY DEF Maquinas, EmBranco
<1>2. HandleFsm(s, c) = Habilita(r)
  BY <1>1 DEF HandleFsm, Idle
<1>3. /\ r \in Campos /\ r.dadosSz = s.dadosSz /\ r.dados = s.dados
      /\ r.estado = "TAMANHO" /\ r.nTam = s.nTam /\ r.comando = c /\ r.completo = s.completo
      /\ r.tamTam = IF c = ENVIAR_MENSAGEM THEN 2 ELSE 4
  BY <1>1 DEF Campos
<1> HIDE DEF r
<1>4. r \in Maquinas
  BY <1>3 DEF Maquinas
<1>5. NoTamanho(r, c, m, 1)
  BY <1>3, TamanhoDoCabecalho DEF NoTamanho, EmBranco
<1> QED
  BY <1>2, <1>4, <1>5, TiposDeHabilita, MesmoQuadro

\* The last two bytes of the size are its digits; the others are zero.
LEMMA ValorDoTamanho ==
  ASSUME NEW c \in Comandos, NEW m \in Mensagens, NEW bt \in [1..4 -> Bytes],
         \A j \in 2..Cabecalho(c) : bt[j - 1] = Quadro(c, m)[j]
  PROVE  Valor(bt, Cabecalho(c) - 1) = Len(m)
<1> DEFINE p == Len(m) \div Base
           q == Len(m) % Base
<1>1. Len(m) \in 0..(Base * Base - 1) /\ Base \in Nat /\ Base > 2
  BY DaMensagem
<1>2. \A j \in 2..(Cabecalho(c) - 2) : Quadro(c, m)[j] = 0
  BY QuadroCerto
<1>3. Quadro(c, m)[Cabecalho(c) - 1] = p /\ Quadro(c, m)[Cabecalho(c)] = q
  BY QuadroCerto
<1>6. p \in Nat /\ q \in Nat /\ p * Base + q = Len(m)
  <2>1. p \in 0..(Base - 1) /\ q \in 0..(Base - 1) /\ p * Base + q = Len(m)
    <3> HIDE DEF p, q
    <3> DEFINE x == Len(m)
    <3> HIDE DEF x
    <3>1. x \in 0..(Base * Base - 1)
      BY <1>1 DEF x
    <3>2. x \div Base \in 0..(Base - 1) /\ x % Base \in 0..(Base - 1)
          /\ (x \div Base) * Base + (x % Base) = x
      BY <1>1, <3>1, DoisDigitos
    <3> QED
      BY <3>2, Zenon DEF p, q, x
  <2> QED
    BY <1>1, <2>1
<1> HIDE DEF p, q
<1>4. CASE c = ENVIAR_MENSAGEM
  <2>1. Cabecalho(c) = 3
    BY <1>4, TamanhoDoCabecalho
  <2>2. bt[2 - 1] = p /\ bt[3 - 1] = q
    BY <1>3, <2>1
  <2>3. Valor(bt, 2) = bt[1] * Base + bt[2]
    BY DEF Valor
  <2>4. bt[1] = p /\ bt[2] = q
    BY <2>2
  <2> QED
    BY <1>6, <2>1, <2>3, <2>4
<1>5. CASE c # ENVIAR_MENSAGEM
  <2>1. Cabecalho(c) = 5
    BY <1>5, TamanhoDoCabecalho
  <2>2. bt[2 - 1] = 0 /\ bt[3 - 1] = 0 /\ bt[4 - 1] = p /\ bt[5 - 1] = q
    BY <1>2, <1>3, <2>1
  <2>3. Valor(bt, 4) = ((bt[1] * Base + bt[2]) * Base + bt[3]) * Base + bt[4]
    BY DEF Valor
  <2>4. bt[1] = 0 /\ bt[2] = 0 /\ bt[3] = p /\ bt[4] = q
    BY <2>2
  <2>5. (0 * Base + 0) = 0 /\ (0 * Base + 0) * Base + p = p
    BY <1>1, <1>6
  <2> QED
    BY <1>6, <2>1, <2>3, <2>4, <2>5
<1> QED
  BY <1>4, <1>5

LEMMA ByteDoTamanho ==
  ASSUME NEW c \in Comandos, NEW m \in Mensagens, NEW s \in Maquinas,
         NEW k \in 1..(Cabecalho(c) - 1), NoTamanho(s, c, m, k)
  PROVE  /\ k < Cabecalho(c) - 1 => NoTamanho(HandleFsm(s, Quadro(c, m)[k + 1]), c, m, k + 1)
         /\ k = Cabecalho(c) - 1 => NosDados(HandleFsm(s, Quadro(c, m)[k + 1]), c, m, k + 1)
<1> DEFINE x == Quadro(c, m)[k + 1]
           lido == [s EXCEPT !.bufTam[s.nTam + 1] = x]
           v == Valor(lido.bufTam, s.tamTam)
           r1 == [lido EXCEPT !.nTam = @ + 1]
           r2 == [lido EXCEPT !.estado = "RX", !.campoTamanho = v]
<1>0. s \in Campos /\ s.estado = "TAMANHO" /\ s.nTam = k - 1 /\ s.tamTam = Cabecalho(c) - 1
  BY DEF Maquinas, NoTamanho
<1>1. Cabecalho(c) \in {3, 5} /\ k \in Nat /\ k + 1 \in 1..Cabecalho(c) /\ s.nTam + 1 = k
  BY <1>0, TamanhoDoCabecalho
<1>2. x \in Bytes
  <2>1. Quadro(c, m) \in Seq(Bytes) /\ Len(Quadro(c, m)) = Cabecalho(c) + Len(m)
    BY QuadroCerto
  <2>2. Len(m) \in Nat
    BY DaMensagem
  <2>3. k + 1 \in 1..Len(Quadro(c, m))
    BY <1>1, <2>1, <2>2
  <2> QED
    BY <2>1, <2>3
<1> HIDE DEF x
<1>3. /\ lido \in Campos /\ lido.dadosSz = s.dadosSz /\ lido.dados = s.dados
      /\ lido.estado = "TAMANHO" /\ lido.comando = s.comando /\ lido.tamTam = s.tamTam
      /\ lido.nTam = s.nTam /\ lido.completo = s.completo
      /\ lido.bufTam = [s.bufTam EXCEPT ![k] = x]
  BY <1>0, <1>1, <1>2 DEF Campos
<1>4. \A j \in 2..(k + 1) : lido.bufTam[j - 1] = Quadro(c, m)[j]
  <2> SUFFICES ASSUME NEW j \in 2..(k + 1) PROVE lido.bufTam[j - 1] = Quadro(c, m)[j]
    OBVIOUS
  <2>1. s.bufTam \in [1..4 -> Bytes] /\ k \in 1..4
    BY <1>0, <1>1 DEF Campos
  <2>2. CASE j = k + 1
    <3>1. j - 1 = k
      BY <1>1, <2>2
    <3> QED
      BY <1>3, <2>1, <2>2, <3>1 DEF x
  <2>3. CASE j # k + 1
    <3>1. j - 1 \in 1..4 /\ j - 1 # k /\ j \in 2..k
      BY <1>1, <2>3
    <3>2. s.bufTam[j - 1] = Quadro(c, m)[j]
      BY <3>1 DEF NoTamanho
    <3> QED
      BY <1>3, <2>1, <3>1, <3>2
  <2> QED
    BY <2>2, <2>3
<1>5. v \in 0..(Mod32 - 1)
  BY <1>0, <1>3, TipoDoValor DEF Campos
<1> DEFINE R1 == Rearma(r1)
           R2 == Rearma([lido EXCEPT !.estado = "RX",
                                     !.campoTamanho = Valor(lido.bufTam, s.tamTam)])
           R3 == Rearma(s)
<1>6. HandleFsm(s, x) = CASE s.nTam < s.tamTam - 1 -> R1
                          [] s.nTam = s.tamTam - 1 -> R2
                          [] OTHER -> R3
  BY <1>0 DEF HandleFsm, Tamanho, lido
<1>7. R2 = Rearma(r2)
  BY DEF v
<1> HIDE DEF lido, v
<1>8. ASSUME k < Cabecalho(c) - 1
      PROVE  NoTamanho(HandleFsm(s, x), c, m, k + 1)
  <2>1. lido.nTam + 1 = k /\ k \in 0..3
    BY <1>0, <1>1, <1>3, <1>8
  <2>2. /\ r1 \in Campos /\ r1.dadosSz = s.dadosSz /\ r1.dados = s.dados
        /\ r1.estado = "TAMANHO" /\ r1.comando = s.comando /\ r1.tamTam = s.tamTam
        /\ r1.nTam = k /\ r1.completo = s.completo /\ r1.bufTam = lido.bufTam
    BY <1>3, <2>1 DEF Campos
  <2>3. s.nTam < s.tamTam - 1 /\ s.nTam # s.tamTam - 1
    BY <1>0, <1>1, <1>8
  <2>4. HandleFsm(s, x) = Rearma(r1)
    <3> HIDE DEF r1, R2, R3
    <3> QED
      BY <1>6, <2>3
  <2> HIDE DEF r1, R1, R2, R3
  <2>5. r1 \in Maquinas
    BY <2>2 DEF Maquinas
  <2>6. NoTamanho(r1, c, m, k + 1)
    BY <1>1, <1>4, <2>2 DEF NoTamanho
  <2> QED
    BY <2>4, <2>5, <2>6, TiposDeRearma, MesmoQuadro
<1>9. ASSUME k = Cabecalho(c) - 1
      PROVE  NosDados(HandleFsm(s, x), c, m, k + 1)
  <2>1. v = Len(m)
    <3>1. lido.bufTam \in [1..4 -> Bytes]
      BY <1>3 DEF Campos
    <3>2. \A j \in 2..Cabecalho(c) : lido.bufTam[j - 1] = Quadro(c, m)[j]
      BY <1>1, <1>4, <1>9
    <3>3. Valor(lido.bufTam, Cabecalho(c) - 1) = Len(m)
      BY <3>1, <3>2, ValorDoTamanho
    <3> QED
      BY <1>0, <3>3 DEF v
  <2>2. /\ r2 \in Campos /\ r2.dadosSz = s.dadosSz /\ r2.dados = s.dados /\ r2.estado = "RX"
        /\ r2.comando = s.comando /\ r2.campoTamanho = Len(m) /\ r2.completo = s.completo
    BY <1>3, <1>5, <2>1 DEF Campos
  <2>3. ~(s.nTam < s.tamTam - 1) /\ s.nTam = s.tamTam - 1
    BY <1>0, <1>1, <1>9
  <2>4. HandleFsm(s, x) = Rearma(r2)
    <3> HIDE DEF r2, R1, R2, R3
    <3> QED
      BY <1>6, <1>7, <2>3
  <2> HIDE DEF r2, R1, R2, R3
  <2>5. r2 \in Maquinas
    BY <2>2 DEF Maquinas
  <2>6. NosDados(r2, c, m, k + 1)
    <3>1. (k + 1) - Cabecalho(c) = 0
      BY <1>1, <1>9
    <3>2. SubSeq(m, 1, 0) = <<>>
      BY DaMensagem
    <3> QED
      <4>1. SubSeq(m, 1, (k + 1) - Cabecalho(c)) = <<>>
        BY <3>1, <3>2
      <4>2. s.dados = <<>> /\ s.dadosSz = 0 /\ s.comando = c /\ ~s.completo
        BY DEF NoTamanho
      <4> QED
        <5>1. r2.dados = SubSeq(m, 1, (k + 1) - Cabecalho(c))
          BY <2>2, <4>1, <4>2
        <5>2. r2.dadosSz = (k + 1) - Cabecalho(c)
          BY <2>2, <3>1, <4>2
        <5>3. r2.comando = c /\ ~r2.completo
          BY <2>2, <4>2
        <5> QED
          BY <2>2, <5>1, <5>2, <5>3 DEF NosDados
  <2> QED
    BY <2>4, <2>5, <2>6, TiposDeRearma, MesmoQuadro
<1> QED
  BY <1>8, <1>9 DEF x

LEMMA Prolonga ==
  ASSUME NEW S, NEW m \in Seq(S), NEW d \in 0..(Len(m) - 1)
  PROVE  /\ SubSeq(SubSeq(m, 1, d), 1, d) = SubSeq(m, 1, d)
         /\ Append(SubSeq(m, 1, d), m[d + 1]) = SubSeq(m, 1, d + 1)
<1>1. SubSeq(SubSeq(m, 1, d), 1, d) = SubSeq(m, 1, d)
  OBVIOUS
<1>2. Append(SubSeq(m, 1, d), m[d + 1]) = SubSeq(m, 1, d + 1)
  OBVIOUS
<1> QED
  BY <1>1, <1>2

LEMMA ByteDosDados ==
  ASSUME NEW c \in Comandos, NEW m \in Mensagens, NEW s \in Maquinas,
         NEW d \in 0..(Len(m) - 1), NosDados(s, c, m, Cabecalho(c) + d)
  PROVE  /\ d + 1 < Len(m) => NosDados(HandleFsm(s, m[d + 1]), c, m, Cabecalho(c) + (d + 1))
         /\ d + 1 = Len(m) => Completa(HandleFsm(s, m[d + 1]), c, m)
<1> DEFINE x == m[d + 1]
           gravado == [s EXCEPT !.dados = Append(SubSeq(@, 1, s.dadosSz), x)]
           r1 == [gravado EXCEPT !.dadosSz = @ + 1]
           f == Fecha(gravado)
           r2 == [f EXCEPT !.estado = "IDLE", !.completo = TRUE, !.recebida = gravado.dados]
           R1 == Rearma(r1)
<1>0. /\ m \in Seq(Bytes) /\ Len(m) \in 1..(Base * Base - 1) /\ Base * Base \in Nat
      /\ Cabecalho(c) \in {3, 5}
  BY DaMensagem, TamanhoDoCabecalho
<1>1. (Cabecalho(c) + d) - Cabecalho(c) = d /\ (Cabecalho(c) + (d + 1)) - Cabecalho(c) = d + 1
  BY <1>0
<1>2. /\ s \in Campos /\ s.estado = "RX" /\ s.comando = c /\ s.campoTamanho = Len(m)
      /\ s.dadosSz = d /\ s.dados = SubSeq(m, 1, d) /\ ~s.completo
  BY <1>1 DEF Maquinas, NosDados
<1>3. Ultimo(s) = Len(m) - 1
  <2>1. Mod32 \in Nat /\ Base * Base <= Mod32
    BY Largura
  <2>2. Len(m) - 1 \in 0..(Mod32 - 1)
    BY <1>0, <2>1
  <2>3. (Len(m) - 1) % Mod32 = Len(m) - 1
    BY <2>1, <2>2, MenorQueABase
  <2> QED
    BY <1>2, <2>3 DEF Ultimo
<1>4. Append(SubSeq(s.dados, 1, s.dadosSz), x) = SubSeq(m, 1, d + 1)
  BY <1>0, <1>2, Prolonga
<1>5. SubSeq(m, 1, d + 1) \in Seq(Bytes) /\ Len(SubSeq(m, 1, d + 1)) = d + 1
  BY <1>0
<1>6. HandleFsm(s, x) = CASE s.dadosSz < Ultimo(s) -> R1
                          [] s.dadosSz = Ultimo(s) -> r2
                          [] OTHER -> s
  BY <1>2 DEF HandleFsm, Rx
<1>7. /\ gravado \in Campos /\ gravado.dados = SubSeq(m, 1, d + 1) /\ gravado.dadosSz = d
      /\ gravado.estado = "RX" /\ gravado.comando = c /\ gravado.campoTamanho = Len(m)
      /\ ~gravado.completo
  BY <1>2, <1>4, <1>5 DEF Campos
<1> HIDE DEF x, gravado
<1>8. gravado \in Maquinas
  <2>1. gravado.dadosSz <= Len(gravado.dados)
    BY <1>5, <1>7
  <2> QED
    BY <1>7, <2>1 DEF Maquinas
<1>9. ASSUME d + 1 < Len(m)
      PROVE  NosDados(HandleFsm(s, x), c, m, Cabecalho(c) + (d + 1))
  <2>1. s.dadosSz < Ultimo(s) /\ s.dadosSz # Ultimo(s)
    BY <1>0, <1>2, <1>3, <1>9
  <2>2. HandleFsm(s, x) = R1
    <3> HIDE DEF R1, r2
    <3> QED
      BY <1>6, <2>1
  <2>3. /\ r1 \in Campos /\ r1.dados = SubSeq(m, 1, d + 1) /\ r1.dadosSz = d + 1
        /\ r1.estado = "RX" /\ r1.comando = c /\ r1.campoTamanho = Len(m) /\ ~r1.completo
    <3>1. gravado.dadosSz + 1 \in Nat /\ gravado.dadosSz + 1 = d + 1
      BY <1>7
    <3> QED
      BY <1>7, <3>1 DEF Campos
  <2> HIDE DEF r1
  <2>4. r1 \in Maquinas
    <3>1. r1.dadosSz <= Len(r1.dados)
      BY <1>5, <2>3
    <3> QED
      BY <2>3, <3>1 DEF Maquinas
  <2>5. NosDados(r1, c, m, Cabecalho(c) + (d + 1))
    BY <1>1, <2>3 DEF NosDados
  <2>6. Mesma(r1, Rearma(r1))
    BY <2>4, TiposDeRearma
  <2> QED
    BY <2>2, <2>5, <2>6, MesmoQuadro
<1>10. ASSUME d + 1 = Len(m)
       PROVE  Completa(HandleFsm(s, x), c, m)
  <2>1. ~(s.dadosSz < Ultimo(s)) /\ s.dadosSz = Ultimo(s)
    BY <1>0, <1>2, <1>3, <1>10
  <2>2. HandleFsm(s, x) = r2
    <3> HIDE DEF R1, r2
    <3> QED
      BY <1>6, <2>1
  <2>3. f \in Campos /\ Mesma(gravado, f)
    BY <1>8, TiposDosTimers DEF Maquinas
  <2> HIDE DEF f
  <2>4. f.comando = c /\ f.campoTamanho = Len(m) /\ f.dados = SubSeq(m, 1, d + 1)
    BY <1>7, <2>3 DEF Mesma
  <2>5. SubSeq(m, 1, d + 1) = m
    BY <1>0, <1>10
  <2>6. r2.estado = "IDLE" /\ r2.comando = c /\ r2.campoTamanho = Len(m) /\ r2.dados = m
        /\ r2.completo
    BY <2>3, <2>4, <2>5 DEF Campos
  <2> QED
    BY <2>2, <2>6 DEF Completa
<1> QED
  BY <1>9, <1>10 DEF x

\* Each byte of a frame takes the machine one position further in it.
LEMMA UmByte ==
  ASSUME NEW c \in Comandos, NEW m \in Mensagens, NEW s \in Maquinas,
         NEW k \in 0..(Len(Quadro(c, m)) - 1), NoQuadro(s, c, m, k)
  PROVE  NoQuadro(HandleFsm(s, Quadro(c, m)[k + 1]), c, m, k + 1)
<1>1. /\ Len(m) \in Nat \ {0} /\ Cabecalho(c) \in {3, 5}
      /\ Len(Quadro(c, m)) = Cabecalho(c) + Len(m)
  BY DaMensagem, QuadroCerto, TamanhoDoCabecalho
<1>2. CASE k = 0
  <2>1. EmBranco(s) /\ Quadro(c, m)[k + 1] = c
    BY <1>1, <1>2, QuadroCerto DEF NoQuadro
  <2>2. NoTamanho(HandleFsm(s, Quadro(c, m)[k + 1]), c, m, k + 1)
    BY <1>2, <2>1, PrimeiroByte
  <2>3. k + 1 \in 1..(Cabecalho(c) - 1)
    BY <1>1, <1>2
  <2> QED
    BY <2>2, <2>3 DEF NoQuadro
<1>3. CASE k \in 1..(Cabecalho(c) - 1)
  <2>1. NoTamanho(s, c, m, k)
    BY <1>1, <1>3 DEF NoQuadro
  <2>2. /\ k < Cabecalho(c) - 1 => NoTamanho(HandleFsm(s, Quadro(c, m)[k + 1]), c, m, k + 1)
        /\ k = Cabecalho(c) - 1 => NosDados(HandleFsm(s, Quadro(c, m)[k + 1]), c, m, k + 1)
    BY <1>3, <2>1, ByteDoTamanho
  <2>3. CASE k < Cabecalho(c) - 1
    <3>1. k + 1 \in 1..(Cabecalho(c) - 1)
      BY <1>1, <1>3, <2>3
    <3> QED
      BY <2>2, <2>3, <3>1 DEF NoQuadro
  <2>4. CASE k = Cabecalho(c) - 1
    <3>1. k + 1 \in Cabecalho(c)..(Cabecalho(c) + Len(m) - 1)
      BY <1>1, <2>4
    <3> QED
      BY <2>2, <2>4, <3>1 DEF NoQuadro
  <2> QED
    BY <1>1, <1>3, <2>3, <2>4
<1>4. CASE k \in Cabecalho(c)..(Cabecalho(c) + Len(m) - 1)
  <2>1. NosDados(s, c, m, k)
    BY <1>1, <1>4 DEF NoQuadro
  <2>2. PICK d \in 0..(Len(m) - 1) : k = Cabecalho(c) + d
    <3>1. k - Cabecalho(c) \in 0..(Len(m) - 1) /\ k = Cabecalho(c) + (k - Cabecalho(c))
      BY <1>1, <1>4
    <3> QED
      BY <3>1
  <2>3. Quadro(c, m)[k + 1] = m[d + 1]
    <3>1. d + 1 \in 1..Len(m) /\ k + 1 = Cabecalho(c) + (d + 1)
      BY <1>1, <2>2
    <3> QED
      BY <3>1, QuadroCerto
  <2>4. /\ d + 1 < Len(m) => NosDados(HandleFsm(s, m[d + 1]), c, m, Cabecalho(c) + (d + 1))
        /\ d + 1 = Len(m) => Completa(HandleFsm(s, m[d + 1]), c, m)
    BY <2>1, <2>2, ByteDosDados
  <2>5. k + 1 = Cabecalho(c) + (d + 1)
    BY <1>1, <2>2
  <2>6. CASE d + 1 < Len(m)
    <3>1. k + 1 \in Cabecalho(c)..(Cabecalho(c) + Len(m) - 1)
      BY <1>1, <2>5, <2>6
    <3> QED
      BY <2>3, <2>4, <2>5, <2>6, <3>1 DEF NoQuadro
  <2>7. CASE d + 1 = Len(m)
    <3>1. k + 1 = Cabecalho(c) + Len(m)
      BY <2>5, <2>7
    <3> QED
      BY <2>3, <2>4, <2>7, <3>1 DEF NoQuadro
  <2> QED
    BY <1>1, <2>6, <2>7
<1> QED
  BY <1>1, <1>2, <1>3, <1>4

\* A chunk keeps the types and takes no other timer.
LEMMA ChunkDeTipo ==
  ASSUME NEW s \in Maquinas, NEW bs \in Seq(Bytes)
  PROVE  Alimenta(s, bs) \in Maquinas /\ (Limpa(s) => Limpa(Alimenta(s, bs)))
<1>1. PICK g : /\ Alimenta(s, bs) = g[Len(bs)] /\ g[0] = s
               /\ \A i \in 1..Len(bs) : g[i] = HandleFsm(g[i - 1], bs[i])
  BY DepoisDe
<1> DEFINE Bom(i) == g[i] \in Maquinas /\ (Limpa(s) => Limpa(g[i]))
           N == {i \in 0..Len(bs) : ~Bom(i)}
<1>2. SUFFICES ASSUME N # {} PROVE FALSE
  BY <1>1
<1>3. PICK i \in N : \A y \in N : i <= y
  <2>1. N \subseteq Nat
    OBVIOUS
  <2> HIDE DEF N
  <2> QED
    BY <1>2, <2>1, MenorNumero
<1>4. i # 0
  BY <1>1, <1>3
<1>5. i \in 1..Len(bs) /\ i - 1 \in 0..Len(bs) /\ i - 1 \notin N
  BY <1>3, <1>4
<1>6. Bom(i - 1)
  BY <1>5
<1>7. bs[i] \in Bytes
  BY <1>5
<1>8. Bom(i)
  BY <1>1, <1>5, <1>6, <1>7, TipoDeHandleFsm
<1> QED
  BY <1>3, <1>8

\* A chunk of a frame takes the machine as many positions further as it has bytes.
LEMMA ChunkDeQuadro ==
  ASSUME NEW c \in Comandos, NEW m \in Mensagens, NEW s \in Maquinas,
         NEW k \in Nat, NEW bs \in Seq(Bytes), NoQuadro(s, c, m, k),
         k + Len(bs) <= Len(Quadro(c, m)),
         \A i \in 1..Len(bs) : bs[i] = Quadro(c, m)[k + i]
  PROVE  NoQuadro(Alimenta(s, bs), c, m, k + Len(bs))
<1>1. PICK g : /\ Alimenta(s, bs) = g[Len(bs)] /\ g[0] = s
               /\ \A i \in 1..Len(bs) : g[i] = HandleFsm(g[i - 1], bs[i])
  BY DepoisDe
<1> DEFINE Bom(i) == g[i] \in Maquinas /\ NoQuadro(g[i], c, m, k + i)
           N == {i \in 0..Len(bs) : ~Bom(i)}
<1>2. SUFFICES ASSUME N # {} PROVE FALSE
  BY <1>1
<1>3. PICK i \in N : \A y \in N : i <= y
  <2>1. N \subseteq Nat
    OBVIOUS
  <2> HIDE DEF N
  <2> QED
    BY <1>2, <2>1, MenorNumero
<1>4. i # 0
  BY <1>1, <1>3
<1>5. i \in 1..Len(bs) /\ i - 1 \in 0..Len(bs) /\ i - 1 \notin N
  BY <1>3, <1>4
<1>6. Bom(i - 1)
  BY <1>5
<1>7. bs[i] \in Bytes /\ bs[i] = Quadro(c, m)[k + i] /\ g[i] = HandleFsm(g[i - 1], bs[i])
  BY <1>1, <1>5
<1>8. PICK j \in 0..(Len(Quadro(c, m)) - 1) : j = k + (i - 1) /\ j + 1 = k + i
  <2>1. k + (i - 1) \in 0..(Len(Quadro(c, m)) - 1) /\ (k + (i - 1)) + 1 = k + i
    BY <1>5, QuadroCerto
  <2> QED
    BY <2>1
<1>9. NoQuadro(HandleFsm(g[i - 1], Quadro(c, m)[j + 1]), c, m, j + 1)
  BY <1>6, <1>8, UmByte
<1>10. g[i] \in Maquinas
  BY <1>6, <1>7, TipoDeHandleFsm
<1>11. NoQuadro(g[i], c, m, k + i)
  BY <1>7, <1>8, <1>9
<1> QED
  BY <1>3, <1>10, <1>11

-----------------------------------------------------------------------------
(* Types, in any environment                                                 *)

Tipos == TypeOK /\ enq \in Maquinas

LEMMA TipoDeMaquina ==
  ASSUME enq \in Maquinas
  PROVE  TipoEnq
  BY DEF Maquinas, Campos, TipoEnq

LEMMA TipoDeZerada ==
  ASSUME NEW ts \in [Timers -> {"livre", "contando", "expirado"}], NEW r \in Seq(Bytes)
  PROVE  /\ Zerada(ts, r) \in Maquinas /\ EmBranco(Zerada(ts, r))
         /\ Zerada(ts, r).timers = ts /\ Zerada(ts, r).timerId = SemTimer
<1> DEFINE z == Zerada(ts, r)
<1>1. 0 \in Bytes /\ 0 \in 0..(Mod32 - 1)
  <2>1. Base \in Nat /\ Base > 2 /\ Mod32 \in Nat /\ Base <= Mod32
    BY Largura, EnquadramentoAssumption DEF EnquadramentoAssumption
  <2> QED
    BY <2>1 DEF Bytes
<1>2. <<>> \in Seq(Bytes) /\ Len(<<>>) = 0
  OBVIOUS
<1>3. z \in Campos
  BY <1>1, <1>2 DEF Zerada, Campos
<1>4. z.dadosSz = 0 /\ z.dados = <<>> /\ z.timers = ts /\ z.timerId = SemTimer
      /\ z.estado = "IDLE" /\ z.nTam = 0 /\ ~z.completo
  BY DEF Zerada
<1> HIDE DEF z
<1>5. z \in Maquinas
  BY <1>2, <1>3, <1>4 DEF Maquinas
<1>6. EmBranco(z)
  BY <1>4 DEF EmBranco
<1> QED
  BY <1>4, <1>5, <1>6 DEF z

\* What zeraVariaveis leaves: a blank machine and the timers as they were, forgotten.
LEMMA TipoDeZeraVariaveis ==
  ASSUME NEW s \in Maquinas
  PROVE  /\ ZeraVariaveis(s) \in Maquinas /\ EmBranco(ZeraVariaveis(s))
         /\ ZeraVariaveis(s).timers = s.timers /\ ZeraVariaveis(s).timerId = SemTimer
<1>1. s.timers \in [Timers -> {"livre", "contando", "expirado"}] /\ s.recebida \in Seq(Bytes)
  BY DEF Maquinas, Campos
<1> QED
  BY <1>1, TipoDeZerada DEF ZeraVariaveis

\* What the timeout handler leaves, and the interrupt.
LEMMA TipoDoTimeout ==
  ASSUME NEW s \in Maquinas
  PROVE  /\ Fecha(ZeraVariaveis(s)) \in Maquinas /\ EmBranco(Fecha(ZeraVariaveis(s)))
         /\ Livre(s) => Livre(Fecha(ZeraVariaveis(s)))
<1> DEFINE z == ZeraVariaveis(s)
<1>1. z \in Maquinas /\ EmBranco(z) /\ z.timers = s.timers /\ z.timerId = SemTimer
  BY TipoDeZeraVariaveis
<1> HIDE DEF z
<1>2. Fecha(z) \in Maquinas /\ Mesma(z, Fecha(z))
      /\ (SoOSeu(z) => \A t \in Timers : Fecha(z).timers[t] = "livre")
  BY <1>1, TiposDosTimers
<1>3. EmBranco(Fecha(z))
  BY <1>1, <1>2 DEF EmBranco, Mesma
<1>4. Livre(s) => SoOSeu(z)
  BY <1>1 DEF Livre, SoOSeu
<1> QED
  BY <1>2, <1>3, <1>4 DEF z, Livre

LEMMA TipoDaExpiracao ==
  ASSUME NEW s \in Maquinas, NEW t \in Timers
  PROVE  LET r == Fecha([s EXCEPT !.timers[t] = "expirado"]) IN
         /\ r \in Maquinas /\ Mesma(s, r)
         /\ SoOSeu(s) /\ t = s.timerId => Livre(r)
<1> DEFINE e == [s EXCEPT !.timers[t] = "expirado"]
<1>1. /\ e \in Campos /\ Mesma(s, e) /\ e.timerId = s.timerId
      /\ e.timers = [s.timers EXCEPT ![t] = "expirado"]
      /\ s.timers \in [Timers -> {"livre", "contando", "expirado"}]
  BY DEF Maquinas, Campos, Mesma
<1> HIDE DEF e
<1>2. e \in Maquinas
  BY <1>1 DEF Maquinas, Mesma
<1>3. /\ Fecha(e) \in Maquinas /\ Mesma(e, Fecha(e))
      /\ SoOSeu(e) => \A u \in Timers : Fecha(e).timers[u] = "livre"
  BY <1>2, TiposDosTimers
<1>4. SoOSeu(s) /\ t = s.timerId => SoOSeu(e)
  BY <1>1 DEF SoOSeu
<1>5. Mesma(s, Fecha(e))
  BY <1>1, <1>3 DEF Mesma
<1> QED
  BY <1>3, <1>4, <1>5 DEF e, Livre

LEMMA InicioDosTipos == Init => Tipos
<1> SUFFICES ASSUME Init PROVE Tipos
  OBVIOUS
<1>1. [t \in Timers |-> "livre"] \in [Timers -> {"livre", "contando", "expirado"}]
      /\ <<>> \in Seq(Bytes)
  OBVIOUS
<1>2. enq \in Maquinas
  BY <1>1, TipoDeZerada DEF Init
<1>3. TipoEnq
  BY <1>2, TipoDeMaquina
<1> QED
  <2>1. LimQuadros \in Nat
    BY EnquadramentoAssumption DEF EnquadramentoAssumption
  <2>2. enviados \in 0..LimQuadros
    BY <2>1 DEF Init
  <2>3. usb \in Seq(Bytes) /\ gTimeout \in BOOLEAN
    <3>1. usb = <<>> /\ gTimeout = FALSE
      BY DEF Init
    <3> QED
      BY <1>1, <3>1
  <2>4. passo \in {"temporizador", "leitura", "entrega"} /\ ambiente \in Ambientes
    BY DEF Init
  <2> QED
    BY <1>2, <1>3, <2>2, <2>3, <2>4 DEF Tipos, TypeOK

\* What a step keeps if it gives a machine of the right type, and the rest.
LEMMA JuntaTipos ==
  ASSUME enq' \in Maquinas, gTimeout' \in BOOLEAN,
         passo' \in {"temporizador", "leitura", "entrega"}, usb' \in Seq(Bytes),
         ambiente' \in Ambientes, enviados' \in 0..LimQuadros
  PROVE  Tipos'
<1>1. TipoEnq'
  BY DEF Maquinas, Campos, TipoEnq
<1> QED
  BY <1>1 DEF Tipos, TypeOK

LEMMA TiposDoTemporizador ==
  ASSUME Tipos, Temporizador
  PROVE  Tipos'
<1>1. enq \in Maquinas
  BY DEF Tipos
<1>2. enq' \in Maquinas
  BY <1>1, TipoDoTimeout DEF Temporizador
<1> QED
  BY <1>2, JuntaTipos DEF Temporizador, Tipos, TypeOK

LEMMA TiposDaLeitura ==
  ASSUME Tipos, NEW n \in 0..Lote, Leitura(n)
  PROVE  Tipos'
<1>1. enq \in Maquinas /\ usb \in Seq(Bytes) /\ n \in Nat /\ n <= Len(usb)
  BY EnquadramentoAssumption DEF Tipos, TypeOK, Leitura, EnquadramentoAssumption
<1>2. SubSeq(usb, 1, n) \in Seq(Bytes) /\ SubSeq(usb, n + 1, Len(usb)) \in Seq(Bytes)
  BY <1>1
<1>3. enq' \in Maquinas
  <2> DEFINE bs == SubSeq(usb, 1, n)
  <2>1. bs \in Seq(Bytes) /\ enq' = Alimenta(enq, bs)
    BY <1>2 DEF Leitura
  <2> HIDE DEF bs
  <2> QED
    BY <1>1, <2>1, ChunkDeTipo
<1>4. usb' \in Seq(Bytes) /\ passo' \in {"temporizador", "leitura", "entrega"}
  BY <1>2 DEF Leitura
<1> QED
  BY <1>3, <1>4, JuntaTipos DEF Leitura, Tipos, TypeOK

LEMMA TiposDaEntrega ==
  ASSUME Tipos, Entrega
  PROVE  Tipos'
<1>1. enq' \in Maquinas
  BY TipoDeZeraVariaveis DEF Tipos, Entrega
<1> QED
  BY <1>1, JuntaTipos DEF Entrega, Tipos, TypeOK

LEMMA TiposDaExpiracao ==
  ASSUME Tipos, NEW t \in Timers, Expira(t)
  PROVE  Tipos'
<1>1. enq' \in Maquinas
  BY TipoDaExpiracao DEF Tipos, Expira
<1> QED
  BY <1>1, JuntaTipos DEF Expira, Tipos, TypeOK

LEMMA MaisUmQuadro ==
  ASSUME Tipos, NEW bytes, PodeEscrever(bytes), enviados' = enviados + 1
  PROVE  enviados' \in 0..LimQuadros
<1>1. ambiente.quadros \in 0..LimQuadros /\ LimQuadros \in Nat
  BY EnquadramentoAssumption DEF Tipos, TypeOK, EnquadramentoAssumption
<1>2. enviados \in 0..LimQuadros /\ enviados < ambiente.quadros
  BY DEF Tipos, TypeOK, PodeEscrever
<1> QED
  BY <1>1, <1>2

LEMMA TiposDaEscrita ==
  ASSUME Tipos, NEW c \in Comandos, NEW m \in Mensagens, PafEscreve(c, m)
  PROVE  Tipos'
<1>1. enviados' \in 0..LimQuadros
  BY MaisUmQuadro DEF PafEscreve
<1>2. usb' \in Seq(Bytes)
  <2>1. Quadro(c, m) \in Seq(Bytes) /\ usb \in Seq(Bytes)
    BY QuadroCerto DEF Tipos, TypeOK
  <2> QED
    BY <2>1 DEF PafEscreve
<1> QED
  BY <1>1, <1>2, JuntaTipos DEF PafEscreve, Tipos, TypeOK

LEMMA TiposDaInterrupcao ==
  ASSUME Tipos, NEW c \in Comandos, NEW m \in Mensagens, NEW n \in 1..LimUsb,
         PafInterrompe(c, m, n)
  PROVE  Tipos'
<1>1. enviados' \in 0..LimQuadros
  BY MaisUmQuadro DEF PafInterrompe
<1>2. usb' \in Seq(Bytes)
  <2>1. Quadro(c, m) \in Seq(Bytes) /\ usb \in Seq(Bytes)
    BY QuadroCerto DEF Tipos, TypeOK
  <2>2. n \in 1..Len(Quadro(c, m))
    BY <2>1, EnquadramentoAssumption DEF PafInterrompe, EnquadramentoAssumption
  <2>3. SubSeq(Quadro(c, m), 1, n) \in Seq(Bytes)
    BY <2>1, <2>2
  <2> QED
    BY <2>1, <2>3 DEF PafInterrompe
<1> QED
  BY <1>1, <1>2, JuntaTipos DEF PafInterrompe, Tipos, TypeOK

LEMMA TiposDoVazio ==
  ASSUME Tipos, NEW c \in Comandos, PafVazio(c)
  PROVE  Tipos'
<1>1. enviados' \in 0..LimQuadros
  BY MaisUmQuadro DEF PafVazio
<1>2. Base \in Nat /\ Base > 2 /\ {0, 1, 2} \subseteq Bytes
  BY EnquadramentoAssumption DEF EnquadramentoAssumption, Bytes
<1>3. 0 \div Base = 0 /\ 0 % Base = 0
  BY <1>2, MenorQueABase
<1>4. Quadro(c, <<>>) = <<1, 0, 0>> \/ Quadro(c, <<>>) = <<2, 0, 0, 0, 0>>
  BY <1>3 DEF Quadro, Enquadra, EnquadraBinario, ENVIAR_MENSAGEM, ENVIAR_BINARIO
<1>7. <<1, 0, 0>> \in Seq(Bytes) /\ <<2, 0, 0, 0, 0>> \in Seq(Bytes)
  BY <1>2
<1>5. Quadro(c, <<>>) \in Seq(Bytes) /\ usb \in Seq(Bytes)
  BY <1>4, <1>7 DEF Tipos, TypeOK
<1>6. usb' \in Seq(Bytes)
  BY <1>5 DEF PafVazio
<1> QED
  BY <1>1, <1>6, JuntaTipos DEF PafVazio, Tipos, TypeOK

LEMMA PassoDosTipos == Tipos /\ [Next]_vars => Tipos'
<1> SUFFICES ASSUME Tipos, [Next]_vars PROVE Tipos'
  OBVIOUS
<1>1. CASE UNCHANGED vars
  BY <1>1, JuntaTipos DEF vars, Tipos, TypeOK
<1> QED
  BY <1>1, TiposDoTemporizador, TiposDaLeitura, TiposDaEntrega, TiposDaExpiracao,
     TiposDaEscrita, TiposDaInterrupcao, TiposDoVazio DEF Next

\* The types hold in every environment, frames cut or glued included: a byte of the size
\* never lands outside the four of buffer_tamanho, though the count of them is not reset
\* between the frames of a chunk (enquadramento.cpp:213), and the id of the timer is one
\* of the pool or none.
THEOREM TiposDoEnquadramento == Spec => []TypeOK
<1>1. Tipos => TypeOK
  BY DEF Tipos
<1> QED
  BY <1>1, InicioDosTipos, PassoDosTipos, PTL DEF Spec

-----------------------------------------------------------------------------
(* The invariant, with a contained PAF and a punctual loop                   *)

LEMMA NoMeio ==
  ASSUME NEW c \in Comandos, NEW m \in Mensagens, NEW s,
         NEW k \in 0..(Len(Quadro(c, m)) - 1), NoQuadro(s, c, m, k)
  PROVE  ~s.completo /\ (k = 0 => EmBranco(s)) /\ (k > 0 => s.estado # "IDLE")
<1>1. /\ Len(m) \in Nat \ {0} /\ Cabecalho(c) \in {3, 5}
      /\ Len(Quadro(c, m)) = Cabecalho(c) + Len(m)
  BY DaMensagem, QuadroCerto, TamanhoDoCabecalho
<1>2. CASE k = 0
  <2>1. EmBranco(s)
    BY <1>1, <1>2 DEF NoQuadro
  <2> QED
    BY <1>2, <2>1 DEF EmBranco
<1>3. CASE k > 0
  <2>1. NoTamanho(s, c, m, k) \/ NosDados(s, c, m, k)
    BY <1>1, <1>3 DEF NoQuadro
  <2> QED
    BY <1>3, <2>1 DEF NoTamanho, NosDados
<1> QED
  BY <1>2, <1>3

LEMMA NoFim ==
  ASSUME NEW c \in Comandos, NEW m \in Mensagens, NEW s,
         NoQuadro(s, c, m, Len(Quadro(c, m)))
  PROVE  Completa(s, c, m)
<1>1. /\ Len(m) \in Nat \ {0} /\ Cabecalho(c) \in {3, 5}
      /\ Len(Quadro(c, m)) = Cabecalho(c) + Len(m)
  BY DaMensagem, QuadroCerto, TamanhoDoCabecalho
<1> QED
  BY <1>1 DEF NoQuadro

LEMMA MesmaPosicao ==
  ASSUME NEW s, NEW r, Mesma(s, r), NEW c, NEW m, NEW k, NoQuadro(s, c, m, k)
  PROVE  NoQuadro(r, c, m, k)
<1>1. EmBranco(s) => EmBranco(r)
  BY DEF EmBranco, Mesma
<1>2. Completa(s, c, m) => Completa(r, c, m)
  BY DEF Completa, Mesma
<1> QED
  BY <1>1, <1>2, MesmoQuadro DEF NoQuadro

\* What PodeEscrever asks of a contained PAF is that the device is at rest.
LEMMA SoEmRepouso ==
  ASSUME EmOrdem, usb = <<>>, enq.estado = "IDLE", passo # "entrega"
  PROVE  Repouso
<1>1. SUFFICES ASSUME NEW c \in Comandos, NEW m \in Mensagens, NEW f \in 1..Len(Quadro(c, m)),
                      NEW k \in 0..f, EmCurso(c, m, f, k)
               PROVE  FALSE
  BY DEF EmOrdem, Fase, AEntregar
<1>2. Quadro(c, m) \in Seq(Bytes) /\ Len(Quadro(c, m)) \in Nat
  BY QuadroCerto
<1>3. k \in 0..(Len(Quadro(c, m)) - 1) /\ NoQuadro(enq, c, m, k)
  BY <1>1, <1>2 DEF EmCurso
<1>4. k = 0
  BY <1>3, NoMeio
<1>5. Len(SubSeq(Quadro(c, m), k + 1, f)) = f
  BY <1>2, <1>4
<1>6. SubSeq(Quadro(c, m), k + 1, f) = <<>>
  BY <1>1 DEF EmCurso
<1> QED
  BY <1>5, <1>6

LEMMA OrdemDoTemporizador ==
  ASSUME Tipos, EmOrdem, Temporizador
  PROVE  EmOrdem'
<1>1. passo # "entrega" /\ passo' # "entrega" /\ ~gTimeout' /\ usb' = usb
      /\ inteiros' = inteiros /\ entregues' = entregues
  BY DEF Temporizador
<1>2. CASE ~gTimeout
  <2>1. enq' = enq
    BY <1>2 DEF Temporizador
  <2>2. Repouso => Repouso'
    BY <1>1, <2>1 DEF Repouso
  <2>3. ASSUME NEW c \in Comandos, NEW m \in Mensagens, NEW f \in 1..Len(Quadro(c, m)),
               NEW k \in 0..f, EmCurso(c, m, f, k)
        PROVE  EmCurso(c, m, f, k)'
    BY <1>1, <2>1, <2>3 DEF EmCurso
  <2>4. Fase'
    BY <1>1, <2>2, <2>3 DEF EmOrdem, Fase, AEntregar
  <2>5. Limpa(enq')
    BY <2>1 DEF EmOrdem
  <2> QED
    BY <1>1, <2>4, <2>5 DEF EmOrdem
<1>3. CASE gTimeout
  <2>1. enq' = Fecha(ZeraVariaveis(enq)) /\ enq \in Maquinas /\ Livre(enq)
    BY <1>3 DEF Temporizador, Tipos, EmOrdem
  <2>2. EmBranco(enq') /\ Livre(enq')
    BY <2>1, TipoDoTimeout
  <2>3. PICK c \in Comandos, m \in Mensagens : \E f \in 1..Len(Quadro(c, m)) : \E k \in 0..f :
            EmCurso(c, m, f, k)
    BY <1>1, <1>3 DEF EmOrdem, Fase, Repouso, AEntregar
  <2>4. PICK f \in 1..Len(Quadro(c, m)) : \E k \in 0..f : EmCurso(c, m, f, k)
    BY <2>3
  <2>5. EmCurso(c, m, f, f)
    BY <1>3, <2>4 DEF EmCurso
  <2>6. Quadro(c, m) \in Seq(Bytes) /\ Len(Quadro(c, m)) \in Nat
    BY QuadroCerto
  <2>7. usb = <<>> /\ inteiros = entregues
    <3>1. SubSeq(Quadro(c, m), f + 1, f) = <<>>
      BY <2>6
    <3>2. f # Len(Quadro(c, m))
      BY <2>5, <2>6 DEF EmCurso
    <3> QED
      BY <2>5, <3>1, <3>2 DEF EmCurso
  <2>8. Repouso'
    BY <1>1, <2>2, <2>7 DEF Repouso
  <2>9. Limpa(enq')
    BY <2>2 DEF Limpa, SoOSeu, Livre
  <2> QED
    BY <1>1, <2>8, <2>9 DEF EmOrdem, Fase
<1> QED
  BY <1>2, <1>3

LEMMA ChunkVazio ==
  ASSUME NEW s
  PROVE  Alimenta(s, <<>>) = s
<1>1. Len(<<>>) = 0
  OBVIOUS
<1>2. PICK g : /\ Alimenta(s, <<>>) = g[Len(<<>>)] /\ g[0] = s
               /\ \A i \in 1..Len(<<>>) : g[i] = HandleFsm(g[i - 1], <<>>[i])
  BY <1>1, DepoisDe
<1> QED
  BY <1>1, <1>2

\* A pass with nothing to read.
LEMMA LeituraVazia ==
  ASSUME Tipos, EmOrdem, NEW n \in 0..Lote, Leitura(n), n = 0
  PROVE  EmOrdem'
<1>1. usb = <<>> /\ SubSeq(usb, 1, 0) = <<>> /\ SubSeq(usb, 0 + 1, Len(usb)) = <<>>
  BY DEF Leitura
<1>2. enq' = enq /\ usb' = usb
  BY <1>1, ChunkVazio DEF Leitura
<1>3. passo # "entrega" /\ passo' # "entrega" /\ gTimeout' = gTimeout
      /\ inteiros' = inteiros /\ entregues' = entregues
  BY DEF Leitura
<1>4. Repouso => Repouso'
  BY <1>2, <1>3 DEF Repouso
<1>5. ASSUME NEW c \in Comandos, NEW m \in Mensagens, NEW f \in 1..Len(Quadro(c, m)),
             NEW k \in 0..f, EmCurso(c, m, f, k)
      PROVE  EmCurso(c, m, f, k)'
  BY <1>2, <1>3, <1>5 DEF EmCurso
<1>6. Fase'
  BY <1>3, <1>4, <1>5 DEF EmOrdem, Fase, AEntregar
<1> QED
  BY <1>2, <1>3, <1>6 DEF EmOrdem

\* The n bytes that follow the first k of a frame.
LEMMA Pedaco ==
  ASSUME NEW q \in Seq(Bytes), NEW f \in 1..Len(q), NEW k \in 0..f, NEW n \in Nat,
         n <= Len(SubSeq(q, k + 1, f))
  PROVE  LET u == SubSeq(q, k + 1, f) IN
         /\ k + n \in 0..f /\ SubSeq(u, 1, n) \in Seq(Bytes) /\ Len(SubSeq(u, 1, n)) = n
         /\ \A i \in 1..n : SubSeq(u, 1, n)[i] = q[k + i]
         /\ SubSeq(u, n + 1, Len(u)) = SubSeq(q, (k + n) + 1, f)
<1> DEFINE u == SubSeq(q, k + 1, f)
<1>1. u \in Seq(Bytes) /\ Len(u) = f - k /\ \A i \in 1..(f - k) : u[i] = q[k + i]
  OBVIOUS
<1>2. SubSeq(u, n + 1, f - k) = SubSeq(q, (k + n) + 1, f)
  BY <1>1
<1>3. n <= f - k
  BY <1>1
<1> HIDE DEF u
<1>4. SubSeq(u, 1, n) \in Seq(Bytes) /\ Len(SubSeq(u, 1, n)) = n
      /\ \A i \in 1..n : SubSeq(u, 1, n)[i] = u[i]
  BY <1>1, <1>3
<1>5. \A i \in 1..n : SubSeq(u, 1, n)[i] = q[k + i]
  BY <1>1, <1>3, <1>4
<1> QED
  BY <1>1, <1>2, <1>3, <1>4, <1>5 DEF u

LEMMA OrdemDaLeitura ==
  ASSUME Tipos, EmOrdem, NEW n \in 0..Lote, Leitura(n), n # 0
  PROVE  EmOrdem'
<1>1. /\ passo = "leitura" /\ gTimeout' = gTimeout /\ n \in Nat /\ n <= Len(usb)
      /\ inteiros' = inteiros /\ entregues' = entregues
  BY EnquadramentoAssumption DEF Leitura, EnquadramentoAssumption
<1>2. usb # <<>>
  BY <1>1
<1>3. PICK c \in Comandos, m \in Mensagens : \E f \in 1..Len(Quadro(c, m)) : \E k \in 0..f :
          EmCurso(c, m, f, k)
  BY <1>1, <1>2 DEF EmOrdem, Fase, Repouso, AEntregar
<1>4. PICK f \in 1..Len(Quadro(c, m)) : \E k \in 0..f : EmCurso(c, m, f, k)
  BY <1>3
<1>5. PICK k \in 0..f : EmCurso(c, m, f, k)
  BY <1>4
<1> DEFINE q  == Quadro(c, m)
           bs == SubSeq(usb, 1, n)
<1>6. q \in Seq(Bytes) /\ Len(q) \in Nat /\ k < Len(q) /\ usb = SubSeq(q, k + 1, f)
      /\ NoQuadro(enq, c, m, k)
  BY <1>5, QuadroCerto DEF EmCurso
<1>7. /\ k + n \in 0..f /\ bs \in Seq(Bytes) /\ Len(bs) = n
      /\ \A i \in 1..n : bs[i] = q[k + i]
      /\ usb' = SubSeq(q, (k + n) + 1, f)
  <2>1. usb' = SubSeq(usb, n + 1, Len(usb))
    BY DEF Leitura
  <2> HIDE DEF q
  <2> QED
    BY <1>1, <1>6, <2>1, Pedaco DEF q
<1>8. enq' = Alimenta(enq, bs) /\ enq \in Maquinas /\ Limpa(enq)
      /\ passo' = IF n > 0 /\ enq'.completo THEN "entrega" ELSE "temporizador"
  BY DEF Leitura, Tipos, EmOrdem
<1> HIDE DEF bs
<1>9. Limpa(enq')
  BY <1>7, <1>8, ChunkDeTipo
<1>10. NoQuadro(enq', c, m, k + n)
  <2>1. k + Len(bs) <= Len(q) /\ k \in Nat /\ k + n = k + Len(bs)
    BY <1>6, <1>7
  <2>2. NoQuadro(Alimenta(enq, bs), c, m, k + Len(bs))
    BY <1>6, <1>7, <1>8, <2>1, ChunkDeQuadro
  <2> QED
    BY <1>8, <2>1, <2>2
<1>11. ~gTimeout
  <2>1. ASSUME gTimeout PROVE FALSE
    <3>1. k = f
      BY <1>5, <2>1 DEF EmCurso
    <3>2. SubSeq(q, f + 1, f) = <<>>
      BY <1>6
    <3> QED
      BY <1>2, <1>6, <3>1, <3>2
  <2> QED
    BY <2>1
<1>12. CASE k + n < Len(q)
  <2>1. ~enq'.completo
    <3>1. k + n \in 0..(Len(q) - 1)
      BY <1>6, <1>7, <1>12
    <3> QED
      BY <1>10, <3>1, NoMeio
  <2>2. passo' = "temporizador"
    BY <1>8, <2>1
  <2>3. EmCurso(c, m, f, k + n)'
    BY <1>1, <1>5, <1>7, <1>10, <1>11, <1>12, <2>2 DEF EmCurso
  <2>4. Fase'
    BY <1>7, <2>3 DEF Fase
  <2> QED
    BY <1>1, <1>9, <1>11, <2>4 DEF EmOrdem
<1>13. CASE k + n = Len(q)
  <2>1. f = Len(q)
    BY <1>6, <1>7, <1>13
  <2>2. Completa(enq', c, m)
    BY <1>10, <1>13, NoFim
  <2>3. passo' = "entrega"
    <3>1. enq'.completo /\ n > 0
      BY <1>1, <2>2 DEF Completa
    <3> QED
      BY <1>8, <3>1
  <2>4. usb' = <<>>
    <3>1. SubSeq(q, Len(q) + 1, Len(q)) = <<>>
      BY <1>6
    <3> QED
      BY <1>7, <1>13, <2>1, <3>1
  <2>5. inteiros = Append(entregues, Registro(c, m))
    BY <1>5, <2>1 DEF EmCurso
  <2>6. AEntregar(c, m)'
    BY <1>1, <1>11, <2>2, <2>3, <2>4, <2>5 DEF AEntregar
  <2>7. Fase'
    BY <2>6 DEF Fase
  <2> QED
    BY <1>1, <1>9, <1>11, <2>7 DEF EmOrdem
<1> QED
  BY <1>6, <1>7, <1>12, <1>13

\* What ARQ receives is the frame that was written.
LEMMA EntregueCerto ==
  ASSUME NEW c \in Comandos, NEW m \in Mensagens, NEW s, Completa(s, c, m)
  PROVE  Entregue(s) = Registro(c, m)
<1>1. m \in Seq(Bytes)
  BY DaMensagem
<1>2. s.comando = c /\ s.campoTamanho = Len(m) /\ s.dados = m
  BY DEF Completa
<1>3. [i \in 1..Len(m) |-> IF i <= Len(m) THEN m[i] ELSE 0] = m
  BY <1>1
<1> QED
  BY <1>2, <1>3 DEF Entregue, Registro

LEMMA OrdemDaEntrega ==
  ASSUME Tipos, EmOrdem, Entrega
  PROVE  EmOrdem'
<1>1. PICK c \in Comandos, m \in Mensagens : AEntregar(c, m)
  BY DEF Entrega, EmOrdem, Fase, Repouso, EmCurso
<1>2. entregues' = inteiros /\ inteiros' = inteiros
  <2>1. Entregue(enq) = Registro(c, m)
    BY <1>1, EntregueCerto DEF AEntregar
  <2> QED
    BY <1>1, <2>1 DEF Entrega, AEntregar
<1>3. Livre(enq) /\ enq \in Maquinas
  BY <1>1 DEF EmOrdem, Limpa, AEntregar, Completa, Tipos
<1>4. EmBranco(enq') /\ enq'.timers = enq.timers
  BY <1>3, TipoDeZeraVariaveis DEF Entrega
<1>5. Limpa(enq')
  BY <1>3, <1>4 DEF Limpa, Livre, SoOSeu
<1>6. passo' # "entrega" /\ usb' = <<>> /\ ~gTimeout'
  BY <1>1 DEF Entrega, AEntregar
<1>7. Repouso'
  BY <1>2, <1>4, <1>6 DEF Repouso
<1> QED
  BY <1>2, <1>5, <1>6, <1>7 DEF EmOrdem, Fase

LEMMA OrdemDaExpiracao ==
  ASSUME Tipos, Ordeira, EmOrdem, NEW t \in Timers, Expira(t)
  PROVE  EmOrdem'
<1>1. enq \in Maquinas /\ enq.timers[t] # "livre"
  BY DEF Tipos, Expira
<1>2. t = enq.timerId /\ enq.estado # "IDLE" /\ SoOSeu(enq)
  BY <1>1 DEF EmOrdem, Limpa, SoOSeu, Livre
<1>3. usb = <<>>
  BY <1>2 DEF Expira, Ordeira
<1>4. Mesma(enq, enq') /\ Livre(enq')
  BY <1>1, <1>2, TipoDaExpiracao DEF Expira
<1>5. Limpa(enq')
  BY <1>4 DEF Limpa, Livre, SoOSeu
<1>6. PICK c \in Comandos, m \in Mensagens : \E f \in 1..Len(Quadro(c, m)) : \E k \in 0..f :
          EmCurso(c, m, f, k)
  BY <1>2 DEF EmOrdem, Fase, Repouso, AEntregar, EmBranco, Completa
<1>7. PICK f \in 1..Len(Quadro(c, m)) : \E k \in 0..f : EmCurso(c, m, f, k)
  BY <1>6
<1>8. PICK k \in 0..f : EmCurso(c, m, f, k)
  BY <1>7
<1>9. k = f
  <2>1. Quadro(c, m) \in Seq(Bytes) /\ SubSeq(Quadro(c, m), k + 1, f) = <<>>
    BY <1>3, <1>8, QuadroCerto DEF EmCurso
  <2>2. Len(SubSeq(Quadro(c, m), k + 1, f)) = f - k
    BY <2>1
  <2> QED
    BY <2>1, <2>2
<1>10. NoQuadro(enq', c, m, k)
  BY <1>4, <1>8, MesmaPosicao DEF EmCurso
<1>11. EmCurso(c, m, f, k)'
  BY <1>8, <1>9, <1>10 DEF EmCurso, Expira
<1>12. Fase'
  BY <1>11 DEF Fase
<1> QED
  BY <1>4, <1>5, <1>12 DEF EmOrdem, Expira

\* What a contained PAF writes, whole or cut, is the frame in course.
LEMMA OrdemDoQuadro ==
  ASSUME Tipos, Ordeira, EmOrdem, NEW c \in Comandos, NEW m \in Mensagens,
         NEW f \in 1..Len(Quadro(c, m)), PodeEscrever(Quadro(c, m)),
         usb' = usb \o SubSeq(Quadro(c, m), 1, f),
         inteiros' = IF f = Len(Quadro(c, m)) THEN Append(inteiros, Registro(c, m)) ELSE inteiros,
         UNCHANGED <<enq, gTimeout, passo, ambiente, entregues>>
  PROVE  EmOrdem'
<1>1. Repouso
  BY SoEmRepouso DEF PodeEscrever, Ordeira
<1>2. Quadro(c, m) \in Seq(Bytes) /\ Len(Quadro(c, m)) \in Nat
  BY QuadroCerto
<1>3. usb' = SubSeq(Quadro(c, m), 0 + 1, f)
  <2>1. SubSeq(Quadro(c, m), 1, f) \in Seq(Bytes) /\ usb = <<>>
    BY <1>1, <1>2 DEF Repouso
  <2> QED
    BY <2>1
<1>4. NoQuadro(enq', c, m, 0)
  BY <1>1 DEF Repouso, NoQuadro
<1>5. inteiros \in Seq(Registros) /\ inteiros = entregues /\ Registro(c, m) \in Registros
  BY <1>1 DEF EmOrdem, Repouso, Registro, Registros
<1>6. inteiros' \in Seq(Registros)
  BY <1>5
<1>7. EmCurso(c, m, f, 0)'
  BY <1>1, <1>2, <1>3, <1>4, <1>5 DEF EmCurso, Repouso
<1>8. Fase'
  BY <1>7 DEF Fase
<1>9. Limpa(enq') /\ ~gTimeout'
  BY <1>1 DEF EmOrdem, Repouso
<1> QED
  BY <1>6, <1>8, <1>9 DEF EmOrdem

LEMMA OrdemDaEscrita ==
  ASSUME Tipos, Ordeira, EmOrdem, NEW c \in Comandos, NEW m \in Mensagens, PafEscreve(c, m)
  PROVE  EmOrdem'
<1> DEFINE f == Len(Quadro(c, m))
<1>1. Quadro(c, m) \in Seq(Bytes) /\ f \in 1..Len(Quadro(c, m))
  BY QuadroCerto, DaMensagem, TamanhoDoCabecalho
<1>2. SubSeq(Quadro(c, m), 1, f) = Quadro(c, m)
  BY <1>1
<1>3. usb' = usb \o SubSeq(Quadro(c, m), 1, f)
  BY <1>2 DEF PafEscreve
<1>4. inteiros' = Append(inteiros, Registro(c, m))
  BY DEF PafEscreve, Registro
<1> QED
  BY <1>1, <1>3, <1>4, OrdemDoQuadro DEF PafEscreve

LEMMA OrdemDaInterrupcao ==
  ASSUME Tipos, Ordeira, EmOrdem, NEW c \in Comandos, NEW m \in Mensagens, NEW n \in 1..LimUsb,
         PafInterrompe(c, m, n)
  PROVE  EmOrdem'
<1>1. Len(Quadro(c, m)) \in Nat
  BY QuadroCerto, DaMensagem, TamanhoDoCabecalho
<1>2. n \in 1..Len(Quadro(c, m)) /\ n # Len(Quadro(c, m))
  BY <1>1, EnquadramentoAssumption DEF PafInterrompe, EnquadramentoAssumption
<1> QED
  BY <1>2, OrdemDoQuadro DEF PafInterrompe

LEMMA InicioDaOrdem == Init => EmOrdem
<1> SUFFICES ASSUME Init PROVE EmOrdem
  OBVIOUS
<1>1. [t \in Timers |-> "livre"] \in [Timers -> {"livre", "contando", "expirado"}]
      /\ <<>> \in Seq(Bytes) /\ <<>> \in Seq(Registros)
  OBVIOUS
<1>2. EmBranco(enq) /\ enq.timers = [t \in Timers |-> "livre"]
  BY <1>1, TipoDeZerada DEF Init
<1>3. Limpa(enq)
  BY <1>2 DEF Limpa, SoOSeu, Livre
<1>4. ~gTimeout /\ passo # "entrega" /\ usb = <<>> /\ inteiros = <<>> /\ entregues = <<>>
  BY DEF Init
<1>5. Repouso
  BY <1>2, <1>4 DEF Repouso
<1> QED
  BY <1>1, <1>3, <1>4, <1>5 DEF EmOrdem, Fase

LEMMA PassoDaOrdem == Tipos /\ Ordeira /\ EmOrdem /\ [Next]_vars => EmOrdem'
<1> SUFFICES ASSUME Tipos, Ordeira, EmOrdem, [Next]_vars PROVE EmOrdem'
  OBVIOUS
<1>1. CASE UNCHANGED vars
  <2>1. /\ enq' = enq /\ gTimeout' = gTimeout /\ passo' = passo /\ usb' = usb
        /\ inteiros' = inteiros /\ entregues' = entregues
    BY <1>1 DEF vars
  <2>2. Repouso => Repouso'
    BY <2>1 DEF Repouso
  <2>3. ASSUME NEW c \in Comandos, NEW m \in Mensagens
        PROVE  /\ AEntregar(c, m) => AEntregar(c, m)'
               /\ \A f \in 1..Len(Quadro(c, m)) : \A k \in 0..f :
                     EmCurso(c, m, f, k) => EmCurso(c, m, f, k)'
    BY <2>1 DEF AEntregar, EmCurso
  <2>4. Fase'
    BY <2>2, <2>3 DEF EmOrdem, Fase
  <2> QED
    BY <2>1, <2>4 DEF EmOrdem
<1> QED
  BY <1>1, OrdemDoTemporizador, LeituraVazia, OrdemDaLeitura, OrdemDaEntrega,
     OrdemDaExpiracao, OrdemDaEscrita, OrdemDaInterrupcao DEF Next, PafVazio, Ordeira

\* The invariant: the bytes that USB holds and the place of the machine in the frame are those
\* of one frame, cut or whole, and it is the only one that may be due to ARQ.
THEOREM InvarianteDoEnquadramento == Spec => []IInv
<1>1. Init => IInv
  BY InicioDosTipos, InicioDaOrdem DEF Tipos, IInv
<1>2. IInv /\ [Next]_vars => IInv'
  <2> SUFFICES ASSUME IInv, [Next]_vars PROVE IInv'
    OBVIOUS
  <2>1. Tipos /\ Tipos'
    BY PassoDosTipos DEF IInv, Tipos
  <2>2. ambiente' = ambiente
    BY DEF Next, vars, Temporizador, Leitura, Entrega, Expira, PafEscreve, PafInterrompe,
           PafVazio
  <2>3. Ordeira' => EmOrdem'
    BY <2>1, <2>2, PassoDaOrdem DEF IInv, Ordeira
  <2> QED
    BY <2>1, <2>3 DEF IInv, Tipos
<1> QED
  BY <1>1, <1>2, PTL DEF Spec

\* With a contained PAF and a punctual loop, framing holds at most the timer that timer_id
\* names, and none between frames, although zeraVariaveis forgets the id without closing the
\* timer (enquadramento.cpp:110).
THEOREM NenhumTimerPerdido == Spec => []SemVazamento
<1>1. IInv => SemVazamento
  BY DEF IInv, EmOrdem, Limpa, SoOSeu, Livre, SemVazamento
<1> QED
  BY <1>1, InvarianteDoEnquadramento, PTL

\* There, ARQ receives the frames that were written whole, as they were written and in order,
\* whatever the chunks of le_usb and however many frames were cut short before
\* (enquadramento.cpp:39, :76).
THEOREM QuadrosSempreFieis == Spec => []QuadrosFieis
<1>1. ASSUME IInv, Ordeira
      PROVE  IsPrefix(entregues, inteiros) /\ Len(inteiros) <= Len(entregues) + 1
  <2>1. entregues \in Seq(Registros) /\ inteiros \in Seq(Registros)
    BY <1>1 DEF IInv, EmOrdem
  <2>2. \/ inteiros = entregues
        \/ \E c \in Comandos, m \in Mensagens : inteiros = Append(entregues, Registro(c, m))
    BY <1>1 DEF IInv, EmOrdem, Fase, Repouso, EmCurso, AEntregar
  <2>3. CASE inteiros = entregues
    BY <2>1, <2>3 DEF IsPrefix
  <2>4. ASSUME NEW c \in Comandos, NEW m \in Mensagens,
               inteiros = Append(entregues, Registro(c, m))
        PROVE  IsPrefix(entregues, inteiros) /\ Len(inteiros) <= Len(entregues) + 1
    <3>1. Registro(c, m) \in Registros
      BY DEF Registro, Registros
    <3>2. SubSeq(entregues, 1, Len(entregues)) = SubSeq(inteiros, 1, Len(entregues))
      BY <2>1, <2>4, <3>1
    <3>3. Len(inteiros) = Len(entregues) + 1
      BY <2>1, <2>4, <3>1
    <3> QED
      BY <2>1, <3>2, <3>3 DEF IsPrefix
  <2> QED
    BY <2>2, <2>3, <2>4
<1>2. IInv => QuadrosFieis
  BY <1>1 DEF QuadrosFieis
<1> QED
  BY <1>2, InvarianteDoEnquadramento, PTL
====
