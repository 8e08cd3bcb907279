---------------------------- MODULE Apoio_proofs ----------------------------
(***************************************************************************)
(* Proofs about the support code: the USB device, for every bound of the   *)
(* bytes held by the library; the software callbacks, for any callbacks,   *)
(* timeouts and slots; Base64URL, for every input and size of buffer; and  *)
(* the types of the five components that MCApoio puts side by side.        *)
(***************************************************************************)
EXTENDS MCApoio, AlocadorRing_proofs, JWT_proofs, FiniteSetTheorems, WellFoundedInduction

-----------------------------------------------------------------------------
(* The USB device                                                            *)

\* What makes ConfiguradoConectado and SemCaboSoCabo inductive: the library connects the
\* device, and delivers bus events, only while the cable feeds the bus.
SoComCabo ==
    /\ conectado => cabo
    /\ ~cabo => habilitados \subseteq {NOVBUS, VBUS}

IInvUsb == TipoUsb /\ ConfiguradoConectado /\ SoComCabo

\* The parts of the inductive invariant that speak of sets of events and of bytes.
Conjuntos ==
    /\ habilitados \subseteq Eventos /\ flags \subseteq Eventos /\ pendentes \in 0..LimPend
    /\ ~cabo => habilitados \subseteq {NOVBUS, VBUS}

LEMMA InicioUsb == InitUsb => IInvUsb
<1>1. InitUsb => Conjuntos
  BY USBCDCAssumption
  DEF InitUsb, Conjuntos, USBCDCAssumption, Eventos, NOVBUS, VBUS, BRST, SUSP, DPACT
<1>2. InitUsb /\ Conjuntos => IInvUsb
  BY Zenon DEF InitUsb, Conjuntos, IInvUsb, TipoUsb, ConfiguradoConectado, SoComCabo
<1> QED
  BY <1>1, <1>2

\* Every step of the device keeps the inductive invariant.
LEMMA PassoUsb ==
  ASSUME IInvUsb, [NextUsb]_varsUsb
  PROVE  IInvUsb'
<1> USE USBCDCAssumption DEF USBCDCAssumption, Eventos, NOVBUS, VBUS, BRST, SUSP, DPACT
<1>1. CASE TiraCabo
  <2>1. Conjuntos'
    BY <1>1 DEF Conjuntos, IInvUsb, TipoUsb, SoComCabo, TiraCabo, EventoUsb, Desconfigura
  <2> QED
    BY <1>1, <2>1, Zenon DEF Conjuntos, IInvUsb, TipoUsb, ConfiguradoConectado, SoComCabo,
        TiraCabo, EventoUsb, Desconfigura
<1>2. CASE PoeCabo
  <2>1. Conjuntos'
    BY <1>2 DEF Conjuntos, IInvUsb, TipoUsb, SoComCabo, PoeCabo, EventoUsb
  <2> QED
    BY <1>2, <2>1, Zenon DEF Conjuntos, IInvUsb, TipoUsb, ConfiguradoConectado, SoComCabo,
        PoeCabo, EventoUsb
<1>3. CASE Reinicia
  <2>1. Conjuntos'
    BY <1>3 DEF Conjuntos, IInvUsb, TipoUsb, SoComCabo, Reinicia, EventoUsb, Desconfigura
  <2> QED
    BY <1>3, <2>1, Zenon DEF Conjuntos, IInvUsb, TipoUsb, ConfiguradoConectado, SoComCabo,
        Reinicia, EventoUsb, Desconfigura
<1>4. CASE SuspendeUsb
  BY <1>4 DEF IInvUsb, TipoUsb, ConfiguradoConectado, SoComCabo, SuspendeUsb, EventoUsb
<1>5. CASE Descarta
  <2>1. Conjuntos'
    BY <1>5 DEF Conjuntos, IInvUsb, TipoUsb, SoComCabo, Descarta, Desconfigura
  <2> QED
    BY <1>5, <2>1, Zenon DEF Conjuntos, IInvUsb, TipoUsb, ConfiguradoConectado, SoComCabo,
        Descarta, Desconfigura
<1>6. ASSUME NEW v \in BOOLEAN, Configura(v) PROVE IInvUsb'
  BY <1>6 DEF IInvUsb, TipoUsb, ConfiguradoConectado, SoComCabo, Configura
<1>7. ASSUME NEW v \in BOOLEAN, Desperta(v) PROVE IInvUsb'
  BY <1>7 DEF IInvUsb, TipoUsb, ConfiguradoConectado, SoComCabo, Desperta
<1>8. ASSUME NEW n \in 1..LimPend, Recebe(n) PROVE IInvUsb'
  BY <1>8 DEF IInvUsb, TipoUsb, ConfiguradoConectado, SoComCabo, Recebe
<1>9. ASSUME NEW e \in Eventos, Mostra(e) PROVE IInvUsb'
  BY <1>9 DEF IInvUsb, TipoUsb, ConfiguradoConectado, SoComCabo, Mostra
<1>10. ASSUME NEW n \in 1..LimPend, LeUsb(n) PROVE IInvUsb'
  BY <1>10 DEF IInvUsb, TipoUsb, ConfiguradoConectado, SoComCabo, LeUsb
<1>11. CASE UNCHANGED varsUsb
  BY <1>11 DEF IInvUsb, TipoUsb, ConfiguradoConectado, SoComCabo, varsUsb
<1> QED
  BY <1>1, <1>2, <1>3, <1>4, <1>5, <1>6, <1>7, <1>8, <1>9, <1>10, <1>11
     DEF NextUsb, Interrupcao, EventoDoBarramento

LEMMA SempreUsb == SpecUsb => []IInvUsb
  BY InicioUsb, PassoUsb, PTL DEF SpecUsb

\* Whatever the order of cable, resets and requests, a configured device is connected with
\* its cable in, and the class driver is not left configured (usbcdc.cpp:41-48, 89-109).
THEOREM ConfiguradoSempreConectado == SpecUsb => []ConfiguradoConectado
<1>1. IInvUsb => ConfiguradoConectado
  BY DEF IInvUsb
<1> QED
  BY <1>1, SempreUsb, PTL

\* A step of a device without its cable sets no flag but those of the cable.
LEMMA PassoSemCabo ==
  ASSUME IInvUsb, [NextUsb]_varsUsb, ~cabo
  PROVE  flags' \subseteq flags \cup {NOVBUS, VBUS}
<1> USE DEF Eventos, NOVBUS, VBUS, BRST, SUSP, DPACT
<1>1. ASSUME NEW e \in Eventos, EventoUsb(e)
      PROVE  flags' \subseteq flags \cup {NOVBUS, VBUS}
  BY <1>1 DEF EventoUsb, IInvUsb, SoComCabo
<1>2. CASE EventoDoBarramento
  BY <1>1, <1>2 DEF EventoDoBarramento, TiraCabo, PoeCabo, Reinicia, SuspendeUsb
<1>3. ASSUME NEW e \in Eventos, Mostra(e) PROVE flags' \subseteq flags
  BY <1>3 DEF Mostra
<1>4. CASE ~EventoDoBarramento /\ UNCHANGED flags
  BY <1>4
<1> QED
  BY <1>2, <1>3, <1>4 DEF NextUsb, Interrupcao, Descarta, Configura, Desperta, Recebe, LeUsb, varsUsb

\* No bus event is delivered while the cable is out (usbcdc.cpp:89-104).
THEOREM SemCaboSempreSoCabo == SpecUsb => SemCaboSoCabo
<1>1. IInvUsb /\ [NextUsb]_varsUsb => [~cabo => flags' \subseteq flags \cup {NOVBUS, VBUS}]_varsUsb
  BY PassoSemCabo
<1> QED
  BY <1>1, SempreUsb, PTL DEF SpecUsb, SemCaboSoCabo

-----------------------------------------------------------------------------
(* The software callbacks                                                    *)

\* The number of slots in use, which callbacks_n should be.
Quantos == Cardinality(Ocupados)

\* What each step of add_callback and clear_callback finds, until a callback is called: the
\* count is late by one while a slot is already taken, or freed, and not yet counted, and
\* the timer counts if the count is not zero.
ContagemNoPasso == ~expirou =>
    /\ cliente.op = "guarda" => cliente.cb \in Callbacks
    /\ cliente.op \in {"nada", "guarda"} => callbacksN = Quantos /\ (contando <=> Quantos # 0)
    /\ cliente.op = "inicia" =>
           callbacksN = Quantos /\ Quantos # 0 /\ (contando \/ callbacksN = 1)
    /\ cliente.op \in {"conta", "soma"} =>
           Quantos = callbacksN + 1 /\ (contando <=> callbacksN # 0)
    /\ cliente.op \in {"desconta", "subtrai"} => callbacksN = Quantos + 1 /\ contando
    /\ cliente.op \in {"soma", "subtrai"} => cliente.lido = callbacksN

IInvTimer == TipoTimer /\ (cliente.op = "guarda" => cliente.cb \in Callbacks) /\ ContagemNoPasso

\* A set of slots that is not empty has a first one: add_callback finds it.
LEMMA PrimeiroLivre ==
  ASSUME NEW T, T \subseteq Nat, T # {}
  PROVE  \E i \in T : \A j \in T : i <= j
<1> DEFINE R == OpToRel(<, Nat)
<1>1. IsWellFoundedOn(R, Nat)
  BY NatLessThanWellFounded, Zenon
<1>2. \A x, y \in Nat : x < y => <<x, y>> \in R
  BY DEF OpToRel
<1> HIDE DEF R
<1>3. PICK x \in T : \A y \in T : ~ (<<y, x>> \in R)
  BY <1>1, WFMin
<1>4. ASSUME NEW y \in T PROVE x <= y
  <2>1. x \in Nat /\ y \in Nat /\ ~ (y < x)
    BY <1>2, <1>3
  <2> QED
    BY <2>1
<1> QED
  BY <1>4

LEMMA OcupadosFinitos ==
  ASSUME NEW T \in SUBSET Slots
  PROVE  IsFiniteSet(T) /\ Cardinality(T) \in 0..MaxSlots /\ (Cardinality(T) = 0 <=> T = {})
<1>1. IsFiniteSet(Slots) /\ Cardinality(Slots) = MaxSlots
  BY FS_Interval, TimerAssumption DEF Slots, TimerAssumption
<1>2. IsFiniteSet(T) /\ Cardinality(T) <= Cardinality(Slots)
  BY <1>1, FS_Subset
<1>3. Cardinality(T) \in Nat
  BY <1>2, FS_CardinalityType
<1>4. Cardinality(T) = 0 <=> T = {}
  BY <1>2, FS_EmptySet
<1> QED
  BY <1>1, <1>2, <1>3, <1>4, TimerAssumption DEF TimerAssumption

\* The callbacks in the table are finitely many.
LEMMA NaTabelaFinitos ==
  ASSUME NEW s \in [Slots -> Callbacks \cup {Nenhum}],
         NEW T, \A c \in T : \E i \in Slots : s[i] = c
  PROVE  IsFiniteSet(T) /\ Cardinality(T) \in Nat
<1> DEFINE V == {s[i] : i \in Slots}
<1>1. IsFiniteSet(Slots)
  BY OcupadosFinitos
<1>2. s \in Surjection(Slots, V)
  BY DEF Surjection
<1>3. IsFiniteSet(V)
  BY <1>1, <1>2, FS_Surjection
<1>4. T \in SUBSET V
  OBVIOUS
<1> HIDE DEF V
<1>5. IsFiniteSet(T)
  BY <1>3, <1>4, FS_Subset
<1> QED
  BY <1>5, FS_CardinalityType

-----------------------------------------------------------------------------
LEMMA InicioTimer == InitTimer => IInvTimer
<1> SUFFICES ASSUME InitTimer PROVE IInvTimer
  OBVIOUS
<1>1. Ocupados = {} /\ Quantos = 0
  <2>1. Ocupados = {}
    BY DEF InitTimer, Ocupados
  <2> QED
    BY <2>1, FS_EmptySet DEF Quantos
<1>2. 0 \in 0..(ModSize - 1) /\ 0 \in 0..LimMs
  BY TimerAssumption DEF TimerAssumption
<1>3. contando \in BOOLEAN /\ expirou \in BOOLEAN
  BY Zenon DEF InitTimer
<1>4. TipoTimer
  BY <1>2, <1>3 DEF InitTimer, TipoTimer, Parado
<1> QED
  BY <1>1, <1>4 DEF InitTimer, IInvTimer, ContagemNoPasso, Parado

\* What the cardinality of the slots in use is, in any state.
LEMMA Contam ==
  ASSUME TipoTimer
  PROVE  /\ Ocupados \subseteq Slots /\ IsFiniteSet(Ocupados)
         /\ Quantos \in 0..MaxSlots /\ (Quantos = 0 <=> Ocupados = {})
  BY OcupadosFinitos DEF Ocupados, Quantos

LEMMA PassoAdiciona ==
  ASSUME IInvTimer, NEW c \in Callbacks, Adiciona(c)
  PROVE  IInvTimer'
<1> USE TimerAssumption DEF TimerAssumption
<1>1. Quantos' = Quantos
  BY DEF Adiciona, Quantos, Ocupados
<1>2. TipoTimer'
  BY DEF IInvTimer, TipoTimer, Adiciona, Parado
<1>3. cliente' = Parado \/ cliente' = [op |-> "guarda", cb |-> c, lido |-> 0]
  BY DEF Adiciona
<1>4. cliente.op = "nada"
  BY DEF Adiciona, Parado
<1>5. ContagemNoPasso'
  BY <1>1, <1>3, <1>4 DEF IInvTimer, ContagemNoPasso, Adiciona, Parado
<1> QED
  BY <1>2, <1>3, <1>5 DEF IInvTimer, Parado

LEMMA PassoGuarda ==
  ASSUME IInvTimer, Guarda
  PROVE  IInvTimer'
<1> USE TimerAssumption DEF TimerAssumption
<1>t. TipoTimer /\ cliente.cb \in Callbacks /\ Nenhum \notin Callbacks
  BY DEF IInvTimer, Guarda
<1>q. Quantos \in 0..MaxSlots /\ IsFiniteSet(Ocupados) /\ Ocupados \subseteq Slots
      /\ (Quantos = 0 <=> Ocupados = {})
  BY <1>t, Contam
<1>1. CASE Livres = {}
  <2>1. slots' = slots /\ cliente' = [cliente EXCEPT !.op = "inicia"]
    BY <1>1 DEF Guarda
  <2>2. Quantos' = Quantos
    BY <2>1 DEF Quantos, Ocupados
  <2>3. TipoTimer'
    BY <1>t, <2>1 DEF TipoTimer, Guarda
  <2>4. Ocupados # {}
    <3>1. 1 \in Slots
      BY DEF Slots
    <3> QED
      BY <1>1, <3>1 DEF Livres
  <2>5. cliente'.op = "inicia"
    BY <1>t, <2>1 DEF TipoTimer
  <2> QED
    BY <1>q, <2>2, <2>3, <2>4, <2>5 DEF IInvTimer, ContagemNoPasso, Guarda
<1>2. CASE Livres # {}
  <2> DEFINE i == CHOOSE k \in Livres : \A j \in Livres : k <= j
  <2>1. i \in Livres
    <3>1. Livres \subseteq Nat
      BY DEF Livres, Slots
    <3>2. \E k \in Livres : \A j \in Livres : k <= j
      BY <1>2, <3>1, PrimeiroLivre
    <3> QED
      BY <3>2
  <2>2. slots' = [slots EXCEPT ![i] = cliente.cb] /\ cliente' = [cliente EXCEPT !.op = "conta"]
    BY <1>2 DEF Guarda
  <2> HIDE DEF i
  <2>3. i \in Slots /\ i \notin Ocupados
    BY <2>1 DEF Livres
  <2>4. Ocupados' = Ocupados \cup {i}
    BY <1>t, <2>2, <2>3 DEF Ocupados, TipoTimer
  <2>5. Quantos' = Quantos + 1
    BY <1>q, <2>3, <2>4, FS_AddElement DEF Quantos
  <2>6. TipoTimer'
    BY <1>t, <2>2, <2>3 DEF TipoTimer, Guarda
  <2>7. cliente'.op = "conta"
    BY <1>t, <2>2 DEF TipoTimer
  <2>8. callbacksN' = callbacksN /\ contando' = contando /\ expirou' = expirou
        /\ cliente.op = "guarda"
    BY DEF Guarda
  <2>9. ContagemNoPasso'
    BY <1>q, <2>5, <2>7, <2>8 DEF IInvTimer, ContagemNoPasso
  <2> QED
    BY <2>6, <2>7, <2>9 DEF IInvTimer
<1> QED
  BY <1>1, <1>2

LEMMA PassoLeContagem ==
  ASSUME IInvTimer, LeContagem
  PROVE  IInvTimer'
<1>t. TipoTimer
  BY DEF IInvTimer
<1>1. Quantos' = Quantos
  BY DEF LeContagem, Quantos, Ocupados
<1>2. TipoTimer'
  BY <1>t DEF TipoTimer, LeContagem
<1>3. \/ cliente.op = "conta" /\ cliente'.op = "soma" /\ cliente'.lido = callbacksN
      \/ cliente.op = "desconta" /\ cliente'.op = "subtrai" /\ cliente'.lido = callbacksN
  BY <1>t DEF TipoTimer, LeContagem
<1>4. callbacksN' = callbacksN /\ contando' = contando /\ expirou' = expirou
  BY DEF LeContagem
<1> QED
  BY <1>1, <1>2, <1>3, <1>4 DEF IInvTimer, ContagemNoPasso

LEMMA PassoSoma ==
  ASSUME IInvTimer, Soma
  PROVE  IInvTimer'
<1> USE TimerAssumption DEF TimerAssumption
<1>t. TipoTimer
  BY DEF IInvTimer
<1>q. Quantos \in 0..MaxSlots
  BY <1>t, Contam
<1>1. Quantos' = Quantos
  BY DEF Soma, Quantos, Ocupados
<1>2. callbacksN' \in 0..(ModSize - 1)
  BY <1>t DEF Soma, TipoTimer
<1>3. TipoTimer'
  BY <1>t, <1>2 DEF Soma, TipoTimer
<1>4. cliente.op = "soma" /\ cliente'.op = "inicia" /\ contando' = contando /\ expirou' = expirou
  BY <1>t DEF Soma, TipoTimer
<1>5. ASSUME ~expirou PROVE callbacksN' = Quantos /\ Quantos = callbacksN + 1
  <2>1. cliente.lido = callbacksN /\ Quantos = callbacksN + 1
    BY <1>4, <1>5 DEF IInvTimer, ContagemNoPasso
  <2>2. callbacksN' = Quantos % ModSize
    BY <2>1 DEF Soma
  <2> QED
    BY <1>q, <2>1, <2>2
<1>6. ASSUME ~expirou PROVE contando <=> callbacksN # 0
  BY <1>4, <1>6 DEF IInvTimer, ContagemNoPasso
<1>7. callbacksN \in Nat
  BY <1>t DEF TipoTimer
<1>8. ContagemNoPasso'
  BY <1>1, <1>4, <1>5, <1>6, <1>7 DEF ContagemNoPasso
<1> QED
  BY <1>3, <1>4, <1>8 DEF IInvTimer

LEMMA PassoInicia ==
  ASSUME IInvTimer, Inicia
  PROVE  IInvTimer'
<1>1. Quantos' = Quantos
  BY DEF Inicia, Quantos, Ocupados
<1>2. TipoTimer'
  <2>1. contando' \in BOOLEAN
    BY Zenon DEF Inicia
  <2> QED
    BY <2>1, TimerAssumption DEF IInvTimer, TipoTimer, Inicia, Parado, TimerAssumption
<1>3. cliente.op = "inicia" /\ cliente'.op = "nada"
  BY DEF Inicia, Parado
<1>4. ContagemNoPasso'
  BY <1>1, <1>3 DEF IInvTimer, ContagemNoPasso, Inicia
<1> QED
  BY <1>2, <1>3, <1>4 DEF IInvTimer

LEMMA PassoRetira ==
  ASSUME IInvTimer, NEW c \in Callbacks, Retira(c)
  PROVE  IInvTimer'
<1> USE TimerAssumption DEF TimerAssumption
<1>t. TipoTimer
  BY DEF IInvTimer
<1>q. Quantos \in 0..MaxSlots /\ IsFiniteSet(Ocupados) /\ (Quantos = 0 <=> Ocupados = {})
  BY <1>t, Contam
<1>1. PICK i \in Slots : slots[i] = c /\ slots' = [slots EXCEPT ![i] = Nenhum]
  BY DEF Retira
<1>2. i \in Ocupados
  BY <1>1 DEF Ocupados
<1>3. Ocupados' = Ocupados \ {i}
  BY <1>t, <1>1 DEF Ocupados, TipoTimer
<1>4. Quantos' = Quantos - 1 /\ Quantos # 0
  BY <1>q, <1>2, <1>3, FS_RemoveElement DEF Quantos
<1>5. TipoTimer'
  BY <1>t, <1>1 DEF Retira, TipoTimer
<1>6. cliente.op = "nada" /\ cliente'.op = "desconta"
      /\ callbacksN' = callbacksN /\ contando' = contando /\ expirou' = expirou
  BY DEF Retira, Parado
<1>7. ContagemNoPasso'
  BY <1>q, <1>4, <1>6 DEF IInvTimer, ContagemNoPasso
<1> QED
  BY <1>5, <1>6, <1>7 DEF IInvTimer

LEMMA PassoSubtrai ==
  ASSUME IInvTimer, Subtrai
  PROVE  IInvTimer'
<1> USE TimerAssumption DEF TimerAssumption
<1>t. TipoTimer
  BY DEF IInvTimer
<1>q. Quantos \in 0..MaxSlots
  BY <1>t, Contam
<1>1. Quantos' = Quantos
  BY DEF Subtrai, Quantos, Ocupados
<1>2. callbacksN' \in 0..(ModSize - 1)
  BY <1>t DEF Subtrai, TipoTimer
<1>3. TipoTimer'
  BY <1>t, <1>2 DEF Subtrai, TipoTimer, Parado
<1>4. cliente.op = "subtrai" /\ cliente'.op = "nada" /\ expirou' = expirou
  BY DEF Subtrai, Parado
<1>5. ASSUME ~expirou PROVE callbacksN' = Quantos /\ contando
  <2>1. cliente.lido = callbacksN /\ callbacksN = Quantos + 1 /\ contando
    BY <1>4, <1>5 DEF IInvTimer, ContagemNoPasso
  <2>2. cliente.lido - 1 = Quantos
    BY <1>q, <2>1
  <2>3. callbacksN' = Quantos % ModSize
    BY <2>2 DEF Subtrai
  <2> QED
    BY <1>q, <2>1, <2>3
<1>6. contando' = (contando /\ callbacksN' # 0)
  BY DEF Subtrai
<1>7. ContagemNoPasso'
  BY <1>1, <1>4, <1>5, <1>6 DEF ContagemNoPasso
<1> QED
  BY <1>3, <1>4, <1>7 DEF IInvTimer

\* An interrupt that calls no callback leaves the count as it is; one that calls some ends
\* what ContagemNoPasso promises.
LEMMA PassoInterrompe ==
  ASSUME IInvTimer, Interrompe
  PROVE  IInvTimer'
<1> USE TimerAssumption DEF TimerAssumption
<1>t. TipoTimer
  BY DEF IInvTimer
<1>q. Quantos \in 0..MaxSlots
  BY <1>t, Contam
<1>1. Quantos' = Quantos
  BY DEF Interrompe, Quantos, Ocupados
<1> DEFINE k == Cardinality(Chamados)
<1>2. k \in Nat
  <2>1. \A c \in Chamados : \E i \in Slots : slots[i] = c
    BY DEF Chamados, NaTabela
  <2>2. slots \in [Slots -> Callbacks \cup {Nenhum}]
    BY <1>t DEF TipoTimer
  <2> QED
    BY <2>1, <2>2, NaTabelaFinitos
<1>3. callbacksN' = (callbacksN - k) % ModSize
  BY DEF Interrompe
<1> HIDE DEF k
<1>4. callbacksN \in 0..(ModSize - 1)
  BY <1>t DEF TipoTimer
<1>5. callbacksN' \in 0..(ModSize - 1)
  BY <1>2, <1>3, <1>4
<1>6. elapsed' \in [Callbacks -> 0..LimMs]
  BY <1>t DEF Interrompe, TipoTimer, Mais1
<1>7. contando' \in BOOLEAN /\ expirou' \in BOOLEAN /\ slots' = slots /\ cliente' = cliente
  BY <1>t DEF Interrompe, TipoTimer
<1>8. TipoTimer'
  BY <1>t, <1>5, <1>6, <1>7 DEF TipoTimer
<1>9. ASSUME ~expirou' PROVE ~expirou /\ callbacksN' = callbacksN
  <2>1. ~expirou /\ Chamados = {}
    BY <1>9 DEF Interrompe
  <2>2. k = 0
    BY <2>1, FS_EmptySet DEF k
  <2> QED
    BY <1>3, <1>4, <2>1, <2>2
<1>10. contando /\ (contando' <=> callbacksN' # 0)
  BY DEF Interrompe
<1>11. ContagemNoPasso'
  BY <1>1, <1>4, <1>7, <1>9, <1>10, <1>q DEF IInvTimer, ContagemNoPasso
<1> QED
  BY <1>7, <1>8, <1>11 DEF IInvTimer

LEMMA PassoTimer ==
  ASSUME IInvTimer, [NextTimer]_varsTimer
  PROVE  IInvTimer'
<1>1. CASE UNCHANGED varsTimer
  BY <1>1 DEF IInvTimer, TipoTimer, ContagemNoPasso, Quantos, Ocupados, varsTimer
<1> QED
  BY <1>1, PassoAdiciona, PassoGuarda, PassoLeContagem, PassoSoma, PassoInicia, PassoRetira,
     PassoSubtrai, PassoInterrompe DEF NextTimer, Cliente

LEMMA SempreTimer == SpecTimer => []IInvTimer
  BY InicioTimer, PassoTimer, PTL DEF SpecTimer

\* Until a callback is called, callbacks_n counts the slots in use and the hardware timer runs
\* exactly if there is one, wherever the interrupt falls inside add_callback and
\* clear_callback, for any callbacks, timeouts and number of slots (timer.cpp:33-95).
THEOREM ContagemSempreAteExpirar == SpecTimer => []ContagemAteExpirar
<1>1. IInvTimer => ContagemAteExpirar
  <2> SUFFICES ASSUME IInvTimer, cliente = Parado, ~expirou
               PROVE  callbacksN = Cardinality(Ocupados) /\ contando = (Ocupados # {})
    BY DEF ContagemAteExpirar
  <2>1. callbacksN = Quantos /\ (contando <=> Quantos # 0)
    BY DEF IInvTimer, ContagemNoPasso, Parado
  <2>2. Quantos = 0 <=> Ocupados = {}
    BY Contam DEF IInvTimer
  <2>3. contando \in BOOLEAN
    BY DEF IInvTimer, TipoTimer
  <2> QED
    BY <2>1, <2>2, <2>3, Zenon DEF Quantos
<1> QED
  BY <1>1, SempreTimer, PTL

-----------------------------------------------------------------------------
(* Base64URL                                                                 *)

\* The sizes, without the division.
LEMMA TamanhoCodificado ==
  ASSUME NEW n \in Nat
  PROVE  /\ EncodedSize(n) \in Nat
         /\ 4 * n <= 3 * EncodedSize(n) /\ 3 * EncodedSize(n) <= 4 * n + 2
  BY DEF EncodedSize

LEMMA TamanhoDecodificado ==
  ASSUME NEW n \in Nat
  PROVE  /\ DecodedSize(n) \in Nat
         /\ 4 * DecodedSize(n) <= 3 * n /\ 3 * n <= 4 * DecodedSize(n) + 3
  BY DEF DecodedSize

\* The table of the decoder undoes the table of the encoder.
LEMMA InversaDoCaractere ==
  ASSUME NEW v \in 0..63
  PROVE  B64Char(v) \in 0..255 /\ ValidChar(B64Char(v)) /\ B64Inv(B64Char(v)) = v
<1>1. CASE v < 26
  <2>1. B64Char(v) = 65 + v
    BY <1>1 DEF B64Char
  <2> QED
    BY <1>1, <2>1 DEF ValidChar, B64Inv
<1>2. CASE v \in 26..51
  <2>1. B64Char(v) = 97 + (v - 26)
    BY <1>2 DEF B64Char
  <2> QED
    BY <1>2, <2>1 DEF ValidChar, B64Inv
<1>3. CASE v \in 52..61
  <2>1. B64Char(v) = 48 + (v - 52)
    BY <1>3 DEF B64Char
  <2> QED
    BY <1>3, <2>1 DEF ValidChar, B64Inv
<1>4. CASE v = 62
  <2>1. B64Char(v) = 45
    BY <1>4 DEF B64Char
  <2> QED
    BY <1>4, <2>1 DEF ValidChar, B64Inv
<1>5. CASE v = 63
  <2>1. B64Char(v) = 95
    BY <1>5 DEF B64Char
  <2> QED
    BY <1>5, <2>1 DEF ValidChar, B64Inv
<1> QED
  BY <1>1, <1>2, <1>3, <1>4, <1>5

LEMMA InversaPequena ==
  ASSUME NEW c \in 0..255
  PROVE  B64Inv(c) \in 0..63
  BY DEF B64Inv

\* A sequence followed by the m elements of a block.
LEMMA Emenda ==
  ASSUME NEW S, NEW s \in Seq(S), NEW m \in Nat, NEW f \in [1..m -> S]
  PROVE  /\ s \o f \in Seq(S) /\ Len(s \o f) = Len(s) + m
         /\ \A i \in 1..Len(s) : (s \o f)[i] = s[i]
         /\ \A k \in 1..m : (s \o f)[Len(s) + k] = f[k]
<1>1. f \in Seq(S) /\ Len(f) = m
  OBVIOUS
<1>2. Len(s \o f) = Len(s) + m /\ s \o f \in Seq(S)
  BY <1>1
<1>3. ASSUME NEW i \in 1..Len(s) PROVE (s \o f)[i] = s[i]
  BY <1>1
<1>4. ASSUME NEW k \in 1..m PROVE (s \o f)[Len(s) + k] = f[k]
  BY <1>1
<1> QED
  BY <1>2, <1>3, <1>4

-----------------------------------------------------------------------------
\* The byte i of the input, zero beyond its end; the value of the block g of three bytes, and
\* the character k that stands for it.
ByteDe(i)    == IF i <= Len(dados) THEN dados[i] ELSE 0
ValorDe(g)   == ByteDe(3 * g + 1) * 65536 + ByteDe(3 * g + 2) * 256 + ByteDe(3 * g + 3)
Peso         == <<262144, 4096, 64, 1>>
Caractere(g, k) == B64Char((ValorDe(g) \div Peso[k]) % 64)

\* Each character of the text is the one that its block gives, and the text is complete.
TextoCerto   ==
    \A g \in Nat, k \in 1..4 : 4 * g + k <= Len(texto) => texto[4 * g + k] = Caractere(g, k)
TextoInteiro == Len(texto) = EncodedSize(Len(dados)) /\ TextoCerto

\* The blocks already used make as many characters, or bytes, and these are right.
Codificando == etapa = "codifica" =>
    /\ pos % 3 = 0 /\ extremo = Len(texto) /\ TextoCerto
    /\ pos = 0 => texto = <<>>
    /\ pos > 0 => ~RecusaCodificar
    /\ pos <= Len(dados) => 3 * Len(texto) = 4 * pos
    /\ pos > Len(dados) => Len(texto) = EncodedSize(Len(dados))

Codificou == etapa = "codificado" =>
    /\ TextoInteiro /\ Len(dados) > 0 /\ EncodedSize(Len(dados)) <= outSz
    /\ extremo = EncodedSize(Len(dados)) + 1

\* A last block of one character writes a byte that the size does not count.
Sobra == IF Len(texto) % 4 = 1 THEN 1 ELSE 0

Decodificando == etapa = "decodifica" =>
    /\ dados # <<>> => TextoInteiro
    /\ pos % 4 = 0 /\ extremo = Len(bytes)
    /\ pos = 0 => bytes = <<>>
    /\ pos > 0 => ~RecusaDecodificar
    /\ pos <= Len(texto) => 4 * Len(bytes) = 3 * pos
    /\ pos > Len(texto) => Len(bytes) = DecodedSize(Len(texto)) + Sobra
    /\ dados # <<>> => \A i \in 1..Len(bytes) : i <= Len(dados) /\ bytes[i] = dados[i]

IInvB64 == TipoB64 /\ Codificando /\ Codificou /\ Decodificando
           /\ (etapa = "fim" => EscritaDentro /\ IdaEVolta)

LEMMA InicioB64 == InitB64 => IInvB64
<1> SUFFICES ASSUME InitB64 PROVE IInvB64
  OBVIOUS
<1>0. <<>> \in Seq(0..255) /\ 0 \in Nat
  OBVIOUS
<1>1. TipoB64
  <2>1. outSz \in Nat
    BY Base64Assumption DEF InitB64, Base64Assumption
  <2>2. dados \in Seq(0..255) /\ texto \in Seq(0..255)
    BY <1>0, Base64Assumption DEF InitB64, Base64Assumption
  <2> QED
    BY <1>0, <2>1, <2>2 DEF InitB64, TipoB64
<1>2. CASE etapa = "codifica" /\ texto = <<>>
  BY <1>1, <1>2 DEF InitB64, IInvB64, Codificando, Codificou, Decodificando, TextoCerto, TipoB64
<1>3. CASE etapa = "decodifica" /\ dados = <<>>
  BY <1>1, <1>3 DEF InitB64, IInvB64, Codificando, Codificou, Decodificando, TipoB64
<1> QED
  BY <1>1, <1>2, <1>3 DEF InitB64

LEMMA ElementoNoTipo ==
  ASSUME NEW S, NEW s \in Seq(S), NEW i \in 1..Len(s)
  PROVE  s[i] \in S
  OBVIOUS

\* The characters after one more block.
LEMMA MaisUmBloco ==
  ASSUME NEW g \in Nat, NEW n \in Nat, 3 * g < n,
         NEW m, m = (IF n - 3 * g >= 3 THEN 3 ELSE n - 3 * g) + 1
  PROVE  /\ 3 * g + 3 <= n => 3 * (4 * g + m) = 4 * (3 * g + 3)
         /\ 3 * g + 3 > n => 4 * g + m = EncodedSize(n)
<1>1. CASE n - 3 * g >= 3
  BY <1>1 DEF EncodedSize
<1>2. CASE n - 3 * g = 2
  <2>1. m = 3 /\ (4 * n + 2) = 3 * (4 * g + 3) + 1
    BY <1>2
  <2> QED
    BY <1>2, <2>1 DEF EncodedSize
<1>3. CASE n - 3 * g = 1
  <2>1. m = 2 /\ (4 * n + 2) = 3 * (4 * g + 2)
    BY <1>3
  <2> QED
    BY <1>3, <2>1 DEF EncodedSize
<1> QED
  BY <1>1, <1>2, <1>3

LEMMA TipoDoByte ==
  ASSUME dados \in Seq(0..255), NEW i \in Nat \ {0}
  PROVE  ByteDe(i) \in 0..255
<1>1. CASE i <= Len(dados)
  <2>1. i \in 1..Len(dados)
    BY <1>1
  <2>2. dados[i] \in 0..255
    BY <2>1, ElementoNoTipo
  <2> QED
    BY <1>1, <2>2 DEF ByteDe
<1>2. CASE ~(i <= Len(dados))
  BY <1>2 DEF ByteDe
<1> QED
  BY <1>1, <1>2

LEMMA TipoDoValor ==
  ASSUME dados \in Seq(0..255), NEW g \in Nat
  PROVE  ValorDe(g) \in Nat
<1> DEFINE x == ByteDe(3 * g + 1)
           y == ByteDe(3 * g + 2)
           z == ByteDe(3 * g + 3)
<1>1. ValorDe(g) = x * 65536 + y * 256 + z
  BY DEF ValorDe
<1>2. x \in 0..255 /\ y \in 0..255 /\ z \in 0..255
  BY TipoDoByte
<1> HIDE DEF x, y, z
<1>3. x * 65536 + y * 256 + z \in Nat
  BY <1>2
<1> QED
  BY <1>1, <1>3

LEMMA TipoDoPedaco ==
  ASSUME NEW v \in Nat, NEW k \in 1..4
  PROVE  (v \div Peso[k]) % 64 \in 0..63
<1>1. CASE k = 1
  BY <1>1 DEF Peso
<1>2. CASE k = 2
  BY <1>2 DEF Peso
<1>3. CASE k = 3
  BY <1>3 DEF Peso
<1>4. CASE k = 4
  BY <1>4 DEF Peso
<1> QED
  BY <1>1, <1>2, <1>3, <1>4

\* A block of the encoder: its characters are those of Caractere.
LEMMA BlocoDoCodificador ==
  ASSUME TipoB64, NEW g \in Nat, pos = 3 * g, pos < Len(dados)
  PROVE  LET m == Menor(3, Len(dados) - pos) + 1
         IN  /\ m \in 2..4
             /\ BlocoCodificado \in [1..m -> 0..255]
             /\ \A k \in 1..m : BlocoCodificado[k] = Caractere(g, k)
<1> DEFINE m == Menor(3, Len(dados) - pos) + 1
<1>1. m \in 2..4
  <2>1. Len(dados) \in Nat /\ pos \in Nat
    BY DEF TipoB64
  <2> QED
    BY <2>1 DEF Menor
<1>3. ValorDe(g) \in Nat
  BY TipoDoValor DEF TipoB64
<1>4. BlocoCodificado = [k \in 1..m |-> B64Char((ValorDe(g) \div Peso[k]) % 64)]
  BY DEF BlocoCodificado, ValorDe, ByteDe, Peso
<1> HIDE DEF m
<1>5. ASSUME NEW k \in 1..m PROVE Caractere(g, k) \in 0..255
  <2>1. k \in 1..4
    BY <1>1
  <2>2. (ValorDe(g) \div Peso[k]) % 64 \in 0..63
    BY <1>3, <2>1, TipoDoPedaco
  <2> QED
    BY <2>2, InversaDoCaractere DEF Caractere
<1>6. \A k \in 1..m : BlocoCodificado[k] = Caractere(g, k)
  BY <1>4 DEF Caractere
<1>7. BlocoCodificado \in [1..m -> 0..255]
  <2>1. BlocoCodificado = [k \in 1..m |-> Caractere(g, k)]
    BY <1>4 DEF Caractere
  <2> QED
    BY <1>5, <2>1
<1> QED
  BY <1>1, <1>6, <1>7 DEF m

LEMMA PassoCodifica ==
  ASSUME IInvB64, Codifica
  PROVE  IInvB64'
<1>1. TipoB64'
  BY DEF IInvB64, TipoB64, Codifica
<1>2. pos = 0 /\ texto = <<>> /\ extremo = 0
  BY DEF IInvB64, Codifica, Codificando, TipoB64
<1>3. etapa' = "fim" /\ extremo' = 0 /\ texto' = <<>> /\ outSz' \in Nat
  BY <1>1, <1>2 DEF Codifica, TipoB64
<1> QED
  BY <1>1, <1>3 DEF IInvB64, Codificando, Codificou, Decodificando, EscritaDentro, IdaEVolta

LEMMA PassoCodificaBloco ==
  ASSUME IInvB64, CodificaBloco
  PROVE  IInvB64'
<1>t. TipoB64 /\ Codificando /\ etapa = "codifica" /\ ~RecusaCodificar /\ pos < Len(dados)
  BY DEF IInvB64, CodificaBloco
<1>1. PICK g \in Nat : pos = 3 * g
  <2>1. pos \in Nat /\ pos % 3 = 0
    BY <1>t DEF Codificando, TipoB64
  <2>2. pos \div 3 \in Nat /\ pos = 3 * (pos \div 3)
    BY <2>1
  <2> QED
    BY <2>2
<1> DEFINE m == Menor(3, Len(dados) - pos) + 1
<1>2. /\ m \in 2..4 /\ BlocoCodificado \in [1..m -> 0..255]
      /\ \A k \in 1..m : BlocoCodificado[k] = Caractere(g, k)
  BY <1>t, <1>1, BlocoDoCodificador
<1>3. m = (IF Len(dados) - pos >= 3 THEN 3 ELSE Len(dados) - pos) + 1
  BY <1>t DEF Menor, TipoB64
<1> HIDE DEF m
<1>4. Len(texto) = 4 * g /\ Len(texto) \in Nat /\ Len(dados) \in Nat
  BY <1>t, <1>1 DEF Codificando, TipoB64
<1>5. texto' = texto \o BlocoCodificado /\ pos' = pos + 3 /\ extremo' = Len(texto')
      /\ etapa' = etapa /\ dados' = dados /\ bytes' = bytes /\ outSz' = outSz /\ ret' = ret
  BY DEF CodificaBloco
<1>6. texto' \in Seq(0..255) /\ Len(texto') = Len(texto) + m
      /\ (\A i \in 1..Len(texto) : texto'[i] = texto[i])
      /\ (\A k \in 1..m : texto'[Len(texto) + k] = BlocoCodificado[k])
  <2>1. texto \in Seq(0..255) /\ m \in Nat
    BY <1>t, <1>2 DEF TipoB64
  <2> QED
    BY <1>2, <1>5, <2>1, Emenda
<1>7. TipoB64'
  BY <1>t, <1>5, <1>6 DEF TipoB64
<1>8. ASSUME NEW c \in Nat, NEW k \in 1..4, 4 * c + k <= Len(texto')
      PROVE  texto'[4 * c + k] = Caractere(c, k)
  <2>1. c <= g
    BY <1>2, <1>4, <1>6, <1>8
  <2>2. CASE c < g
    <3>1. 4 * c + k \in 1..Len(texto) /\ 4 * c + k <= Len(texto)
      BY <1>4, <2>2
    <3>2. texto[4 * c + k] = Caractere(c, k)
      BY <1>t, <3>1 DEF Codificando, TextoCerto
    <3> QED
      BY <1>6, <3>1, <3>2
  <2>3. CASE c = g
    <3>1. k \in 1..m /\ 4 * c + k = Len(texto) + k
      BY <1>2, <1>4, <1>6, <1>8, <2>3
    <3> QED
      BY <1>2, <1>6, <2>3, <3>1
  <2> QED
    BY <2>1, <2>2, <2>3
<1>9. TextoCerto'
  <2>1. \A c, k : Caractere(c, k)' = Caractere(c, k)
    BY <1>5 DEF Caractere, ValorDe, ByteDe
  <2> QED
    BY <1>8, <2>1 DEF TextoCerto
<1>10. pos' % 3 = 0 /\ pos' > 0
  BY <1>1, <1>5
<1>l. Len(texto') = 4 * g + m /\ pos' = 3 * g + 3 /\ 3 * g < Len(dados)
      /\ m = (IF Len(dados) - 3 * g >= 3 THEN 3 ELSE Len(dados) - 3 * g) + 1
  BY <1>t, <1>1, <1>3, <1>4, <1>5, <1>6
<1>11. /\ 3 * g + 3 <= Len(dados) => 3 * (4 * g + m) = 4 * (3 * g + 3)
       /\ 3 * g + 3 > Len(dados) => 4 * g + m = EncodedSize(Len(dados))
  BY <1>4, <1>l, MaisUmBloco
<1>12. /\ pos' <= Len(dados) => 3 * Len(texto') = 4 * pos'
       /\ pos' > Len(dados) => Len(texto') = EncodedSize(Len(dados))
  BY <1>l, <1>11, Zenon
<1>13. ~RecusaCodificar'
  BY <1>t, <1>5 DEF RecusaCodificar
<1>14. Codificando'
  BY <1>5, <1>9, <1>10, <1>12, <1>13 DEF Codificando
<1> QED
  BY <1>t, <1>5, <1>7, <1>14 DEF IInvB64, Codificou, Decodificando

LEMMA PassoTermina ==
  ASSUME IInvB64, Termina
  PROVE  IInvB64'
<1>t. TipoB64 /\ Codificando /\ etapa = "codifica" /\ ~RecusaCodificar /\ pos >= Len(dados)
  BY DEF IInvB64, Termina
<1>1. Len(dados) \in Nat /\ EncodedSize(Len(dados)) \in Nat
  BY <1>t, TamanhoCodificado DEF TipoB64
<1>2. /\ etapa' = "codificado" /\ ret' = EncodedSize(Len(dados)) /\ extremo' = ret' + 1
      /\ texto' = texto /\ dados' = dados /\ bytes' = bytes /\ pos' = pos /\ outSz' = outSz
  BY DEF Termina
<1>3. TipoB64'
  BY <1>t, <1>1, <1>2 DEF TipoB64
<1>4. EncodedSize(Len(dados)) <= outSz /\ Len(dados) > 0
  BY <1>t, <1>1 DEF RecusaCodificar, TipoB64
<1>5. Len(texto) = EncodedSize(Len(dados))
  <2>1. CASE pos > Len(dados)
    BY <1>t, <2>1 DEF Codificando
  <2>2. CASE pos = Len(dados)
    <3>1. 3 * Len(texto) = 4 * Len(dados) /\ Len(texto) \in Nat
      BY <1>t, <1>1, <2>2 DEF Codificando, TipoB64
    <3> QED
      BY <1>1, <3>1 DEF EncodedSize
  <2>3. pos \in Nat
    BY <1>t DEF TipoB64
  <2> QED
    BY <1>t, <1>1, <2>1, <2>2, <2>3
<1>6. TextoInteiro'
  <2>1. TextoCerto /\ UNCHANGED <<dados, texto>>
    BY <1>t, <1>2 DEF Codificando
  <2> QED
    BY <1>5, <2>1 DEF TextoInteiro, TextoCerto, Caractere, ValorDe, ByteDe
<1> QED
  BY <1>2, <1>3, <1>4, <1>6 DEF IInvB64, Codificando, Codificou, Decodificando

LEMMA PassoChamaDecode ==
  ASSUME IInvB64, NEW n \in Saidas, ChamaDecode(n)
  PROVE  IInvB64'
<1>1. /\ etapa = "codificado" /\ etapa' = "decodifica" /\ dados' = dados /\ texto' = texto
      /\ pos' = 0 /\ outSz' = n /\ ret' = 0 /\ extremo' = 0 /\ bytes' = <<>>
  BY DEF ChamaDecode
<1>2. n \in Nat
  BY Base64Assumption DEF Base64Assumption
<1>3. TipoB64'
  BY <1>1, <1>2 DEF IInvB64, TipoB64
<1>4. TextoInteiro /\ Len(texto) \in Nat
  BY <1>1 DEF IInvB64, Codificou, TipoB64
<1>5. TextoInteiro'
  BY <1>1, <1>4 DEF TextoInteiro, TextoCerto, Caractere, ValorDe, ByteDe
<1>6. Decodificando'
  BY <1>1, <1>4, <1>5 DEF Decodificando
<1> QED
  BY <1>1, <1>3, <1>6 DEF IInvB64, Codificando, Codificou

\* The characters that encode wrote are valid.
LEMMA TextoValido ==
  ASSUME TipoB64, TextoInteiro
  PROVE  \A j \in 1..Len(texto) : ValidChar(texto[j])
<1> SUFFICES ASSUME NEW j \in 1..Len(texto) PROVE ValidChar(texto[j])
  OBVIOUS
<1>1. PICK g \in Nat, k \in 1..4 : j = 4 * g + k
  <2>1. (j - 1) \div 4 \in Nat /\ ((j - 1) % 4) + 1 \in 1..4
        /\ j = 4 * ((j - 1) \div 4) + (((j - 1) % 4) + 1)
    OBVIOUS
  <2> QED
    BY <2>1
<1>2. texto[j] = Caractere(g, k)
  <2>1. 4 * g + k <= Len(texto)
    BY <1>1
  <2> QED
    BY <1>1, <2>1 DEF TextoInteiro, TextoCerto
<1>3. ValorDe(g) \in Nat
  BY TipoDoValor DEF TipoB64
<1> QED
  BY <1>2, <1>3, TipoDoPedaco, InversaDoCaractere DEF Caractere

LEMMA PassoDecodifica ==
  ASSUME IInvB64, Decodifica
  PROVE  IInvB64'
<1>t. TipoB64 /\ Decodificando /\ etapa = "decodifica" /\ RecusaDecodificar
  BY DEF IInvB64, Decodifica
<1>1. pos = 0 /\ extremo = 0
  BY <1>t DEF Decodificando, TipoB64
<1>2. /\ etapa' = "fim" /\ dados' = dados /\ texto' = texto /\ bytes' = bytes /\ ret' = 0
      /\ outSz' = outSz /\ extremo' = 0 /\ pos' = 0
  BY <1>1 DEF Decodifica
<1>3. TipoB64'
  BY <1>t, <1>2 DEF TipoB64
<1>4. EscritaDentro'
  BY <1>2, <1>3 DEF EscritaDentro, TipoB64
<1>5. ~(dados # <<>> /\ texto # <<>> /\ DecodedSize(Len(texto)) <= outSz)
  <2> SUFFICES ASSUME dados # <<>>, texto # <<>>, DecodedSize(Len(texto)) <= outSz
               PROVE  FALSE
    OBVIOUS
  <2>1. Len(texto) # 0 /\ Len(texto) \in Nat /\ outSz \in Nat
    BY <1>t DEF TipoB64
  <2>2. DecodedSize(Len(texto)) \in Nat
    BY <2>1, TamanhoDecodificado
  <2>3. \A k \in 1..Len(texto) : ValidChar(texto[k])
    BY <1>t, TextoValido DEF Decodificando
  <2> QED
    BY <1>t, <2>1, <2>2, <2>3 DEF RecusaDecodificar
<1>6. IdaEVolta'
  BY <1>2, <1>5 DEF IdaEVolta
<1> QED
  BY <1>2, <1>3, <1>4, <1>6 DEF IInvB64, Codificando, Codificou, Decodificando

LEMMA UmByte ==
  ASSUME NEW i1 \in 0..63, NEW i2 \in 0..63
  PROVE  <<i1>> \in [1..1 -> 0..255] /\ <<(i1 * 64 + i2) \div 16>> \in [1..1 -> 0..255]
<1>1. (i1 * 64 + i2) \div 16 \in 0..255 /\ i1 \in 0..255
  OBVIOUS
<1> QED
  BY <1>1

LEMMA Par ==
  ASSUME NEW x \in 0..255, NEW y \in 0..255
  PROVE  <<x, y>> \in [1..2 -> 0..255]
  OBVIOUS

LEMMA Trio ==
  ASSUME NEW x \in 0..255, NEW y \in 0..255, NEW z \in 0..255
  PROVE  <<x, y, z>> \in [1..3 -> 0..255]
  OBVIOUS

\* A block of the decoder is one byte for one character, or one fewer than its characters.
LEMMA BlocoDoDecodificador ==
  ASSUME TipoB64, pos < Len(texto)
  PROVE  LET k == Menor(4, Len(texto) - pos)
             m == IF k = 1 THEN 1 ELSE k - 1
         IN  k \in 1..4 /\ BlocoDecodificado \in [1..m -> 0..255]
<1> DEFINE k == Menor(4, Len(texto) - pos)
           inv(j) == B64Inv(texto[pos + j])
<1>1. k \in 1..4 /\ k <= Len(texto) - pos /\ pos \in Nat /\ Len(texto) \in Nat
  <2>1. Len(texto) \in Nat /\ pos \in Nat
    BY DEF TipoB64
  <2> QED
    BY <2>1 DEF Menor
<1>2. ASSUME NEW j \in 1..k PROVE inv(j) \in 0..63
  <2>1. pos + j \in 1..Len(texto)
    BY <1>1
  <2>2. texto[pos + j] \in 0..255
    BY <2>1, ElementoNoTipo DEF TipoB64
  <2> QED
    BY <2>2, InversaPequena
<1> DEFINE v3 == inv(1) * 4096 + inv(2) * 64 + inv(3)
           v4 == inv(1) * 262144 + inv(2) * 4096 + inv(3) * 64 + inv(4)
<1>a. ASSUME k = 1 PROVE BlocoDecodificado = <<inv(1)>>
  BY <1>a DEF BlocoDecodificado
<1>g. ASSUME k = 2 PROVE BlocoDecodificado = <<(inv(1) * 64 + inv(2)) \div 16>>
  BY <1>g DEF BlocoDecodificado
<1>c. ASSUME k = 3 PROVE BlocoDecodificado = <<v3 \div 1024, (v3 \div 4) % 256>>
  BY <1>c DEF BlocoDecodificado
<1>d. ASSUME k = 4 PROVE BlocoDecodificado = <<v4 \div 65536, (v4 \div 256) % 256, v4 % 256>>
  BY <1>d DEF BlocoDecodificado
<1> HIDE DEF inv, k, v3, v4
<1>4. ASSUME k = 1 PROVE BlocoDecodificado \in [1..1 -> 0..255]
  <2>1. inv(1) \in 0..63
    BY <1>2, <1>4
  <2>2. <<inv(1)>> \in [1..1 -> 0..255]
    BY <2>1, UmByte
  <2> QED
    BY <1>a, <1>4, <2>2
<1>5. ASSUME k = 2 PROVE BlocoDecodificado \in [1..1 -> 0..255]
  <2>1. inv(1) \in 0..63 /\ inv(2) \in 0..63
    BY <1>2, <1>5
  <2>2. <<(inv(1) * 64 + inv(2)) \div 16>> \in [1..1 -> 0..255]
    BY <2>1, UmByte
  <2> QED
    BY <1>g, <1>5, <2>2
<1>6. ASSUME k = 3 PROVE BlocoDecodificado \in [1..2 -> 0..255]
  <2>1. inv(1) \in 0..63 /\ inv(2) \in 0..63 /\ inv(3) \in 0..63
    BY <1>2, <1>6
  <2>2. PICK i1 \in 0..63, i2 \in 0..63, i3 \in 0..63 :
               i1 = inv(1) /\ i2 = inv(2) /\ i3 = inv(3)
    BY <2>1
  <2>3. v3 = i1 * 4096 + i2 * 64 + i3
    BY <2>2 DEF v3
  <2>4. v3 \div 1024 \in 0..255 /\ (v3 \div 4) % 256 \in 0..255
    BY <2>3
  <2> DEFINE x == v3 \div 1024
             y == (v3 \div 4) % 256
  <2>5. BlocoDecodificado = <<x, y>> /\ x \in 0..255 /\ y \in 0..255
    BY <1>c, <1>6, <2>4
  <2> HIDE DEF x, y
  <2> QED
    BY <2>5, Par
<1>7. ASSUME k = 4 PROVE BlocoDecodificado \in [1..3 -> 0..255]
  <2>1. inv(1) \in 0..63 /\ inv(2) \in 0..63 /\ inv(3) \in 0..63 /\ inv(4) \in 0..63
    BY <1>2, <1>7
  <2>2. PICK i1 \in 0..63, i2 \in 0..63, i3 \in 0..63, i4 \in 0..63 :
               i1 = inv(1) /\ i2 = inv(2) /\ i3 = inv(3) /\ i4 = inv(4)
    BY <2>1
  <2>3. v4 = i1 * 262144 + i2 * 4096 + i3 * 64 + i4
    BY <2>2 DEF v4
  <2>4. v4 \div 65536 \in 0..255 /\ (v4 \div 256) % 256 \in 0..255 /\ v4 % 256 \in 0..255
    BY <2>3
  <2> DEFINE x == v4 \div 65536
             y == (v4 \div 256) % 256
             z == v4 % 256
  <2>5. BlocoDecodificado = <<x, y, z>> /\ x \in 0..255 /\ y \in 0..255 /\ z \in 0..255
    BY <1>d, <1>7, <2>4
  <2> HIDE DEF x, y, z
  <2> QED
    BY <2>5, Trio
<1> DEFINE m == IF k = 1 THEN 1 ELSE k - 1
<1>8. (k = 1 /\ m = 1) \/ (k = 2 /\ m = 1) \/ (k = 3 /\ m = 2) \/ (k = 4 /\ m = 3)
  BY <1>1
<1> HIDE DEF m
<1>9. BlocoDecodificado \in [1..m -> 0..255]
  BY <1>4, <1>5, <1>6, <1>7, <1>8
<1> QED
  BY <1>1, <1>9, Zenon DEF k, m

-----------------------------------------------------------------------------
\* How many characters the block of the decoder that begins at 4g has.
LEMMA CaracteresQueFaltam ==
  ASSUME NEW n \in Nat, NEW g \in Nat, 4 * g < EncodedSize(n)
  PROVE  /\ 3 * g < n
         /\ Menor(4, EncodedSize(n) - 4 * g) = IF n - 3 * g >= 3 THEN 4 ELSE n - 3 * g + 1
<1>1. 3 * g < n
  BY DEF EncodedSize
<1>2. CASE n - 3 * g >= 3
  <2>1. EncodedSize(n) >= 4 * g + 4
    BY <1>2 DEF EncodedSize
  <2> QED
    BY <1>1, <1>2, <2>1, TamanhoCodificado DEF Menor
<1>3. CASE n - 3 * g = 2
  <2>1. EncodedSize(n) = 4 * g + 3
    BY <1>3 DEF EncodedSize
  <2> QED
    BY <1>1, <1>3, <2>1 DEF Menor
<1>4. CASE n - 3 * g = 1
  <2>1. EncodedSize(n) = 4 * g + 2
    BY <1>4 DEF EncodedSize
  <2> QED
    BY <1>1, <1>4, <2>1 DEF Menor
<1> QED
  BY <1>1, <1>2, <1>3, <1>4

\* The six bits that each character of the block g stands for.
LEMMA SeisBits ==
  ASSUME TipoB64, TextoInteiro, NEW g \in Nat, NEW k \in 1..4, 4 * g + k <= Len(texto)
  PROVE  B64Inv(texto[4 * g + k]) = (ValorDe(g) \div Peso[k]) % 64
<1>1. texto[4 * g + k] = B64Char((ValorDe(g) \div Peso[k]) % 64)
  BY DEF TextoInteiro, TextoCerto, Caractere
<1>2. ValorDe(g) \in Nat
  BY TipoDoValor DEF TipoB64
<1>3. (ValorDe(g) \div Peso[k]) % 64 \in 0..63
  BY <1>2, TipoDoPedaco
<1> QED
  BY <1>1, <1>3, InversaDoCaractere

\* The block of the decoder that begins at 4g gives back the bytes of the block g.
LEMMA BlocoDeVolta ==
  ASSUME TipoB64, TextoInteiro, NEW g \in Nat, pos = 4 * g, pos < Len(texto)
  PROVE  LET k == Menor(4, Len(texto) - pos)
         IN  /\ k \in 2..4
             /\ \A j \in 1..(k - 1) :
                    3 * g + j <= Len(dados) /\ BlocoDecodificado[j] = dados[3 * g + j]
<1> DEFINE k == Menor(4, Len(texto) - pos)
           n == Len(dados)
           inv(j) == B64Inv(texto[pos + j])
           v3 == inv(1) * 4096 + inv(2) * 64 + inv(3)
           v4 == inv(1) * 262144 + inv(2) * 4096 + inv(3) * 64 + inv(4)
<1>n. n \in Nat /\ Len(texto) = EncodedSize(n) /\ Len(texto) \in Nat /\ pos \in Nat
  BY DEF TipoB64, TextoInteiro
<1>1. 3 * g < n /\ k = IF n - 3 * g >= 3 THEN 4 ELSE n - 3 * g + 1
  BY <1>n, CaracteresQueFaltam
<1>2. k \in 2..4 /\ k <= Len(texto) - pos
  <2>1. k <= Len(texto) - pos
    BY <1>n DEF Menor
  <2> QED
    BY <1>n, <1>1, <2>1
<1>3. PICK x \in 0..255, y \in 0..255, z \in 0..255 :
           x = ByteDe(3 * g + 1) /\ y = ByteDe(3 * g + 2) /\ z = ByteDe(3 * g + 3)
  <2>1. /\ ByteDe(3 * g + 1) \in 0..255 /\ ByteDe(3 * g + 2) \in 0..255
        /\ ByteDe(3 * g + 3) \in 0..255
    BY TipoDoByte DEF TipoB64
  <2> QED
    BY <2>1
<1>4. ValorDe(g) = x * 65536 + y * 256 + z
  BY <1>3 DEF ValorDe
<1>5. ASSUME NEW j \in 1..k PROVE inv(j) = (ValorDe(g) \div Peso[j]) % 64
  <2>1. j \in 1..4 /\ 4 * g + j <= Len(texto) /\ pos + j = 4 * g + j
    BY <1>n, <1>2
  <2> QED
    BY <2>1, SeisBits
<1>6. /\ (ValorDe(g) \div 262144) % 64 = x \div 4
      /\ (ValorDe(g) \div 4096) % 64 = (x % 4) * 16 + y \div 16
      /\ (ValorDe(g) \div 64) % 64 = (y % 16) * 4 + z \div 64
      /\ (ValorDe(g) \div 1) % 64 = z % 64
  <2> DEFINE v == ValorDe(g)
  <2>1. v = x * 65536 + y * 256 + z
    BY <1>4
  <2> HIDE DEF v
  <2>2. (v \div 262144) % 64 = x \div 4
    BY <2>1
  <2>3. (v \div 4096) % 64 = (x % 4) * 16 + y \div 16
    BY <2>1
  <2>4. (v \div 64) % 64 = (y % 16) * 4 + z \div 64
    BY <2>1
  <2>5. (v \div 1) % 64 = z % 64
    BY <2>1
  <2> QED
    BY <2>2, <2>3, <2>4, <2>5 DEF v
<1>7. Peso[1] = 262144 /\ Peso[2] = 4096 /\ Peso[3] = 64 /\ Peso[4] = 1
  BY DEF Peso
<1>g. ASSUME k = 2 PROVE BlocoDecodificado = <<(inv(1) * 64 + inv(2)) \div 16>>
  BY <1>g DEF BlocoDecodificado
<1>c. ASSUME k = 3 PROVE BlocoDecodificado = <<v3 \div 1024, (v3 \div 4) % 256>>
  BY <1>c DEF BlocoDecodificado
<1>d. ASSUME k = 4 PROVE BlocoDecodificado = <<v4 \div 65536, (v4 \div 256) % 256, v4 % 256>>
  BY <1>d DEF BlocoDecodificado
<1> HIDE DEF inv, k, v3, v4
<1>8. inv(1) = x \div 4 /\ inv(2) = (x % 4) * 16 + y \div 16
  <2>1. 1 \in 1..k /\ 2 \in 1..k
    BY <1>2
  <2>2. inv(1) = (ValorDe(g) \div Peso[1]) % 64 /\ inv(2) = (ValorDe(g) \div Peso[2]) % 64
    BY <1>5, <2>1
  <2> QED
    BY <1>6, <1>7, <2>2
<1>9. ASSUME k >= 3 PROVE inv(3) = (y % 16) * 4 + z \div 64
  <2>1. 3 \in 1..k
    BY <1>2, <1>9
  <2>2. inv(3) = (ValorDe(g) \div Peso[3]) % 64
    BY <1>5, <2>1
  <2> QED
    BY <1>6, <1>7, <2>2
<1>10. ASSUME k = 4 PROVE inv(4) = z % 64
  <2>1. 4 \in 1..k
    BY <1>2, <1>10
  <2>2. inv(4) = (ValorDe(g) \div Peso[4]) % 64
    BY <1>5, <2>1
  <2> QED
    BY <1>6, <1>7, <2>2
<1>e. x = dados[3 * g + 1]
  BY <1>n, <1>1, <1>3 DEF ByteDe
<1>11. CASE k = 2
  <2>1. n = 3 * g + 1
    BY <1>n, <1>1, <1>11
  <2>2. y = 0
    BY <1>3, <2>1 DEF ByteDe
  <2>3. inv(1) * 64 + inv(2) = 16 * x
    BY <1>8, <2>2
  <2>4. BlocoDecodificado = <<x>>
    BY <1>g, <1>11, <2>3
  <2>5. \A j \in 1..(k - 1) : j = 1
    BY <1>11
  <2>6. \A j \in 1..(k - 1) : 3 * g + j <= n /\ BlocoDecodificado[j] = dados[3 * g + j]
    BY <1>e, <2>1, <2>4, <2>5
  <2> QED
    BY <1>2, <2>6 DEF k
<1>12. CASE k = 3
  <2>1. n = 3 * g + 2
    BY <1>n, <1>1, <1>12
  <2>2. z = 0 /\ y = dados[3 * g + 2]
    BY <1>3, <2>1 DEF ByteDe
  <2>3. v3 = x * 1024 + y * 4
    <3>1. inv(3) = (y % 16) * 4
      BY <1>9, <1>12, <2>2
    <3>2. (x \div 4) * 4096 + ((x % 4) * 16 + y \div 16) * 64 + (y % 16) * 4 = x * 1024 + y * 4
      OBVIOUS
    <3> QED
      BY <1>8, <3>1, <3>2 DEF v3
  <2>4. v3 \div 1024 = x /\ (v3 \div 4) % 256 = y
    BY <2>3
  <2>5. BlocoDecodificado = <<x, y>>
    BY <1>c, <1>12, <2>4
  <2>6. \A j \in 1..(k - 1) : j = 1 \/ j = 2
    BY <1>12
  <2>7. \A j \in 1..(k - 1) : 3 * g + j <= n /\ BlocoDecodificado[j] = dados[3 * g + j]
    BY <1>e, <2>1, <2>2, <2>5, <2>6
  <2> QED
    BY <1>2, <2>7 DEF k
<1>13. CASE k = 4
  <2>1. n >= 3 * g + 3
    BY <1>n, <1>1, <1>13
  <2>2. z = dados[3 * g + 3] /\ y = dados[3 * g + 2]
    BY <1>n, <1>3, <2>1 DEF ByteDe
  <2>3. v4 = x * 65536 + y * 256 + z
    BY <1>8, <1>9, <1>10, <1>13 DEF v4
  <2>4. v4 \div 65536 = x /\ (v4 \div 256) % 256 = y /\ v4 % 256 = z
    BY <2>3
  <2>5. BlocoDecodificado = <<x, y, z>>
    BY <1>d, <1>13, <2>4
  <2>6. \A j \in 1..(k - 1) : j = 1 \/ j = 2 \/ j = 3
    BY <1>13
  <2>7. \A j \in 1..(k - 1) : 3 * g + j <= n /\ BlocoDecodificado[j] = dados[3 * g + j]
    BY <1>e, <1>n, <2>1, <2>2, <2>5, <2>6
  <2> QED
    BY <1>2, <2>7 DEF k
<1>14. k = 2 \/ k = 3 \/ k = 4
  BY <1>2
<1> QED
  BY <1>11, <1>12, <1>13, <1>14

\* What the size of the bytes is, after one more block.
LEMMA MaisBytes ==
  ASSUME NEW g \in Nat, NEW l \in Nat, 4 * g < l,
         NEW k, k = Menor(4, l - 4 * g), NEW m, m = IF k = 1 THEN 1 ELSE k - 1
  PROVE  /\ 4 * g + 4 <= l => m = 3
         /\ 4 * g + 4 > l => 3 * g + m = DecodedSize(l) + IF l % 4 = 1 THEN 1 ELSE 0
<1>1. CASE l - 4 * g >= 4
  BY <1>1 DEF Menor, DecodedSize
<1>2. CASE l - 4 * g = 3
  BY <1>2 DEF Menor, DecodedSize
<1>3. CASE l - 4 * g = 2
  BY <1>3 DEF Menor, DecodedSize
<1>4. CASE l - 4 * g = 1
  BY <1>4 DEF Menor, DecodedSize
<1> QED
  BY <1>1, <1>2, <1>3, <1>4

LEMMA PassoDecodificaBloco ==
  ASSUME IInvB64, DecodificaBloco
  PROVE  IInvB64'
<1>t. TipoB64 /\ Decodificando /\ etapa = "decodifica" /\ ~RecusaDecodificar /\ pos < Len(texto)
  BY DEF IInvB64, DecodificaBloco
<1>n. Len(texto) \in Nat /\ pos \in Nat /\ Len(bytes) \in Nat /\ bytes \in Seq(0..255)
  BY <1>t DEF TipoB64
<1>1. PICK g \in Nat : pos = 4 * g
  <2>1. pos % 4 = 0
    BY <1>t DEF Decodificando
  <2>2. pos \div 4 \in Nat /\ pos = 4 * (pos \div 4)
    BY <1>n, <2>1
  <2> QED
    BY <2>2
<1> DEFINE k == Menor(4, Len(texto) - pos)
           m == IF k = 1 THEN 1 ELSE k - 1
<1>2. k \in 1..4 /\ BlocoDecodificado \in [1..m -> 0..255]
  BY <1>t, BlocoDoDecodificador
<1>3. m \in Nat
  BY <1>2
<1>4. Len(bytes) = 3 * g
  BY <1>t, <1>n, <1>1 DEF Decodificando
<1>5. /\ pos + 4 <= Len(texto) => m = 3
      /\ pos + 4 > Len(texto) => 3 * g + m = DecodedSize(Len(texto)) + Sobra
  <2>1. 4 * g < Len(texto) /\ k = Menor(4, Len(texto) - 4 * g) /\ m = IF k = 1 THEN 1 ELSE k - 1
    BY <1>t, <1>1
  <2> HIDE DEF k, m
  <2>2. /\ 4 * g + 4 <= Len(texto) => m = 3
        /\ 4 * g + 4 > Len(texto)
              => 3 * g + m = DecodedSize(Len(texto)) + IF Len(texto) % 4 = 1 THEN 1 ELSE 0
    BY <1>n, <2>1, MaisBytes, ZenonT(30)
  <2> QED
    BY <1>1, <2>2 DEF Sobra
<1>6. ASSUME dados # <<>>
      PROVE  \A j \in 1..m : 3 * g + j <= Len(dados) /\ BlocoDecodificado[j] = dados[3 * g + j]
  <2>1. TextoInteiro
    BY <1>t, <1>6 DEF Decodificando
  <2>2. k \in 2..4 /\ \A j \in 1..(k - 1) :
            3 * g + j <= Len(dados) /\ BlocoDecodificado[j] = dados[3 * g + j]
    BY <1>t, <1>1, <2>1, BlocoDeVolta
  <2> HIDE DEF k
  <2>3. m = k - 1
    BY <2>2
  <2> QED
    BY <2>2, <2>3
<1> HIDE DEF k, m
<1>7. /\ bytes' = bytes \o BlocoDecodificado /\ pos' = pos + 4 /\ extremo' = Len(bytes')
      /\ etapa' = etapa /\ dados' = dados /\ texto' = texto /\ outSz' = outSz /\ ret' = ret
  BY DEF DecodificaBloco
<1>8. /\ bytes' \in Seq(0..255) /\ Len(bytes') = Len(bytes) + m
      /\ \A i \in 1..Len(bytes) : bytes'[i] = bytes[i]
      /\ \A j \in 1..m : bytes'[Len(bytes) + j] = BlocoDecodificado[j]
  BY <1>n, <1>2, <1>3, <1>7, Emenda
<1>9. TipoB64'
  BY <1>t, <1>n, <1>3, <1>7, <1>8 DEF TipoB64
<1>10. ASSUME dados # <<>>, NEW i \in 1..Len(bytes')
       PROVE  i <= Len(dados) /\ bytes'[i] = dados[i]
  <2>1. CASE i <= Len(bytes)
    <3>1. i \in 1..Len(bytes)
      BY <1>n, <2>1
    <3>2. i <= Len(dados) /\ bytes[i] = dados[i]
      BY <1>t, <1>10, <3>1 DEF Decodificando
    <3> QED
      BY <1>8, <3>1, <3>2
  <2>2. CASE i > Len(bytes)
    <3>1. PICK j \in 1..m : i = 3 * g + j
      <4>1. i - 3 * g \in 1..m /\ i = 3 * g + (i - 3 * g)
        BY <1>3, <1>4, <1>8, <2>2
      <4> QED
        BY <4>1
    <3> QED
      BY <1>4, <1>6, <1>8, <1>10, <3>1
  <2> QED
    BY <1>n, <2>1, <2>2
<1>11. dados # <<>> => TextoInteiro'
  <2>1. dados # <<>> => TextoInteiro
    BY <1>t DEF Decodificando
  <2> QED
    BY <1>7, <2>1 DEF TextoInteiro, TextoCerto, Caractere, ValorDe, ByteDe
<1>12. /\ pos' <= Len(texto) => 4 * Len(bytes') = 3 * pos'
       /\ pos' > Len(texto) => Len(bytes') = DecodedSize(Len(texto)) + Sobra
  BY <1>1, <1>4, <1>5, <1>7, <1>8
<1>13. pos' % 4 = 0 /\ pos' > 0 /\ ~RecusaDecodificar' /\ Sobra' = Sobra
  BY <1>n, <1>1, <1>7, <1>t DEF RecusaDecodificar, Sobra
<1>14. Decodificando'
  BY <1>7, <1>10, <1>11, <1>12, <1>13 DEF Decodificando
<1> QED
  BY <1>t, <1>7, <1>9, <1>14 DEF IInvB64, Codificando, Codificou

\* The bytes written by the decoder are DecodedSize, or one more.
LEMMA BytesDentro ==
  ASSUME TipoB64, Decodificando, etapa = "decodifica"
  PROVE  extremo <= outSz \/ (Len(texto) % 4 = 1 /\ extremo <= outSz + 1)
<1>n. Len(texto) \in Nat /\ pos \in Nat /\ Len(bytes) \in Nat /\ outSz \in Nat
  BY DEF TipoB64
<1>1. CASE pos = 0
  <2>1. Len(bytes) = 0
    BY <1>1 DEF Decodificando
  <2> QED
    BY <1>n, <2>1 DEF Decodificando
<1>2. CASE pos > 0
  <2>1. DecodedSize(Len(texto)) <= outSz
    BY <1>n, <1>2, TamanhoDecodificado DEF Decodificando, RecusaDecodificar
  <2>2. CASE pos <= Len(texto)
    <3>1. 4 * Len(bytes) = 3 * pos /\ extremo = Len(bytes)
      BY <2>2 DEF Decodificando
    <3> QED
      BY <1>n, <2>1, <2>2, <3>1 DEF DecodedSize
  <2>3. CASE pos > Len(texto)
    <3>1. Len(bytes) = DecodedSize(Len(texto)) + Sobra /\ extremo = Len(bytes)
      BY <2>3 DEF Decodificando
    <3> QED
      <4>1. DecodedSize(Len(texto)) \in Nat
        BY <1>n, TamanhoDecodificado
      <4>2. Sobra = 0 \/ (Sobra = 1 /\ Len(texto) % 4 = 1)
        BY DEF Sobra
      <4> QED
        BY <1>n, <2>1, <3>1, <4>1, <4>2
  <2> QED
    BY <1>n, <2>2, <2>3
<1> QED
  BY <1>n, <1>1, <1>2

LEMMA PassoConclui ==
  ASSUME IInvB64, Conclui
  PROVE  IInvB64'
<1>t. TipoB64 /\ Decodificando /\ etapa = "decodifica" /\ ~RecusaDecodificar /\ pos >= Len(texto)
  BY DEF IInvB64, Conclui
<1>n. Len(texto) \in Nat /\ pos \in Nat /\ Len(bytes) \in Nat /\ outSz \in Nat
      /\ DecodedSize(Len(texto)) \in Nat /\ Len(dados) \in Nat
  <2>1. /\ Len(texto) \in Nat /\ pos \in Nat /\ Len(bytes) \in Nat /\ outSz \in Nat
        /\ Len(dados) \in Nat
    BY <1>t DEF TipoB64
  <2> QED
    BY <2>1, TamanhoDecodificado
<1>1. /\ etapa' = "fim" /\ ret' = DecodedSize(Len(texto)) /\ dados' = dados /\ texto' = texto
      /\ bytes' = bytes /\ pos' = pos /\ outSz' = outSz /\ extremo' = extremo
  BY DEF Conclui
<1>2. TipoB64'
  BY <1>t, <1>n, <1>1 DEF TipoB64
<1>3. EscritaDentro'
  BY <1>t, <1>1, BytesDentro DEF EscritaDentro
<1>4. ASSUME dados # <<>> PROVE bytes = dados /\ DecodedSize(Len(texto)) = Len(dados)
  <2>1. Len(texto) = EncodedSize(Len(dados))
    BY <1>t, <1>4 DEF Decodificando, TextoInteiro
  <2>2. DecodedSize(Len(texto)) = Len(dados)
    BY <1>n, <2>1 DEF EncodedSize, DecodedSize
  <2>3. Len(texto) % 4 # 1
    BY <1>n, <2>1 DEF EncodedSize
  <2>4. Len(bytes) = Len(dados)
    <3>1. CASE pos > Len(texto)
      BY <1>t, <1>n, <2>2, <2>3, <3>1 DEF Decodificando, Sobra
    <3>2. CASE pos = Len(texto)
      <4>1. 4 * Len(bytes) = 3 * Len(texto)
        BY <1>t, <1>n, <3>2 DEF Decodificando
      <4> QED
        BY <1>n, <2>2, <4>1 DEF DecodedSize
    <3> QED
      BY <1>t, <1>n, <3>1, <3>2
  <2>5. \A i \in 1..Len(bytes) : bytes[i] = dados[i]
    BY <1>t, <1>4 DEF Decodificando
  <2>6. bytes \in Seq(0..255) /\ dados \in Seq(0..255)
    BY <1>t DEF TipoB64
  <2>7. bytes = dados
    BY <2>4, <2>5, <2>6
  <2> QED
    BY <2>2, <2>7
<1>5. IdaEVolta'
  BY <1>1, <1>4 DEF IdaEVolta
<1> QED
  BY <1>1, <1>2, <1>3, <1>5 DEF IInvB64, Codificando, Codificou, Decodificando

LEMMA PassoB64 ==
  ASSUME IInvB64, [NextB64]_varsB64
  PROVE  IInvB64'
<1>1. CASE UNCHANGED varsB64
  BY <1>1 DEF varsB64, IInvB64, TipoB64, Codificando, Codificou, Decodificando, TextoCerto,
     TextoInteiro, Caractere, ValorDe, ByteDe, RecusaCodificar, RecusaDecodificar, Sobra,
     EscritaDentro, IdaEVolta
<1> QED
  BY <1>1, PassoCodifica, PassoCodificaBloco, PassoTermina, PassoChamaDecode, PassoDecodifica,
     PassoDecodificaBloco, PassoConclui DEF NextB64

LEMMA SempreB64 == SpecB64 => []IInvB64
  BY InicioB64, PassoB64, PTL DEF SpecB64

\* What was encoded is decoded to the same bytes and to their number, for every input and
\* every size of the buffers: the tables, the padding of the last block and the two sizes
\* agree (base64url.cpp:26-124).
THEOREM SempreIdaEVolta == SpecB64 => []IdaEVolta
<1>1. IInvB64 => IdaEVolta
  BY DEF IInvB64, IdaEVolta
<1> QED
  BY <1>1, SempreB64, PTL

\* No call writes more than one position beyond its output buffer, and that one only where the
\* code's own size says less than it writes (base64url.cpp:69, 112).
THEOREM EscritaSempreDentro == SpecB64 => []EscritaDentro
<1>1. IInvB64 => EscritaDentro
  <2> SUFFICES ASSUME IInvB64 PROVE EscritaDentro
    OBVIOUS
  <2>t. TipoB64
    BY DEF IInvB64
  <2>n. Len(dados) \in Nat /\ Len(texto) \in Nat /\ outSz \in Nat /\ pos \in Nat
    BY <2>t DEF TipoB64
  <2>1. CASE etapa = "codifica"
    <3>1. Codificando /\ extremo = Len(texto)
      BY <2>1 DEF IInvB64, Codificando
    <3>2. CASE pos = 0
      BY <2>1, <2>n, <3>1, <3>2 DEF Codificando, EscritaDentro
    <3>3. CASE pos > 0
      <4>1. EncodedSize(Len(dados)) <= outSz
        <5>1. ~RecusaCodificar
          BY <2>1, <3>1, <3>3 DEF Codificando
        <5>2. EncodedSize(Len(dados)) \in Nat
          BY <2>n, TamanhoCodificado
        <5> QED
          BY <2>n, <5>1, <5>2 DEF RecusaCodificar
      <4>2. Len(texto) <= EncodedSize(Len(dados))
        <5>1. CASE pos <= Len(dados)
          <6>1. 3 * Len(texto) = 4 * pos
            BY <2>1, <3>1, <5>1 DEF Codificando
          <6> QED
            BY <2>n, <5>1, <6>1 DEF EncodedSize
        <5>2. CASE pos > Len(dados)
          BY <2>1, <2>n, <3>1, <5>2 DEF Codificando
        <5> QED
          BY <2>n, <5>1, <5>2
      <4>3. EncodedSize(Len(dados)) \in Nat
        BY <2>n, TamanhoCodificado
      <4> QED
        BY <2>n, <3>1, <4>1, <4>2, <4>3 DEF EscritaDentro
    <3> QED
      BY <2>n, <3>2, <3>3
  <2>2. CASE etapa = "codificado"
    <3>1. EncodedSize(Len(dados)) <= outSz /\ extremo = EncodedSize(Len(dados)) + 1
          /\ EncodedSize(Len(dados)) \in Nat
      BY <2>2, <2>n, TamanhoCodificado DEF IInvB64, Codificou
    <3> QED
      BY <2>2, <2>n, <3>1 DEF EscritaDentro
  <2>3. CASE etapa = "decodifica"
    BY <2>3, BytesDentro DEF IInvB64, EscritaDentro
  <2>4. CASE etapa = "fim"
    BY <2>4 DEF IInvB64
  <2> QED
    BY <2>t, <2>1, <2>2, <2>3, <2>4 DEF TipoB64
<1> QED
  BY <1>1, SempreB64, PTL

-----------------------------------------------------------------------------
(* The five components together                                              *)

InvApoio == IInvRing /\ IInvTimer /\ IInvUsb /\ IInvB64 /\ IInvJWT /\ TipoJWT

\* Where a component stays when it is not the one that moves has the type of any other state.
LEMMA InicioApoio ==
  ASSUME TokensHS # {}, InitApoio
  PROVE  InvApoio
<1>1. IInvTimer /\ IInvUsb /\ IInvJWT /\ TipoJWT
  BY InicioTimer, InicioUsb, InicioJWT DEF InitApoio
<1>2. IInvRing
  <2>1. CASE InitRing
    BY <2>1, InicioRing
  <2>2. CASE getPtr = 0 /\ blocos = <<>> /\ uso = CHOOSE u \in UsoAlterarModo : TRUE
    <3>1. UsoAlterarModo # {}
      BY DEF UsoAlterarModo
    <3>2. uso \in UsoAlterarModo
      BY <2>2, <3>1
    <3>3. uso \in Usos
      BY <3>2 DEF Usos
    <3> QED
      BY <2>2, <3>3, UsoEhSequencia, AlocadorAssumption
      DEF AlocadorAssumption, IInvRing, TipoRing, BlocosDentro
  <2> QED
    BY <2>1, <2>2 DEF InitApoio
<1>3. IInvB64
  <2>1. CASE InitB64
    BY <2>1, InicioB64
  <2>2. CASE /\ etapa = "codifica" /\ dados = <<0>> /\ texto = <<>> /\ bytes = <<>>
             /\ pos = 0 /\ outSz = 3 /\ ret = 0 /\ extremo = 0
    BY <2>2 DEF IInvB64, TipoB64, Codificando, Codificou, Decodificando, TextoCerto
  <2> QED
    BY <2>1, <2>2 DEF InitApoio
<1> QED
  BY <1>1, <1>2, <1>3 DEF InvApoio

\* One component moves at a time.
LEMMA PassoApoio ==
  ASSUME InvApoio, [NextApoio]_varsApoio
  PROVE  InvApoio'
<1>1. /\ [NextRing]_varsRing /\ [NextTimer]_varsTimer /\ [NextUsb]_varsUsb
      /\ [NextB64]_varsB64 /\ [NextJWT]_varsJWT
  BY DEF NextApoio, varsApoio
<1> QED
  BY <1>1, PassoRing, PassoTimer, PassoUsb, PassoB64, PassoJWT, PassoTipoJWT DEF InvApoio

\* The state of each of the five components keeps its type, and the blocks of the ring stay in
\* the ring, whatever the bytes, the requests, the bus events and the tokens
\* (alocador_de_memoria.h:29-36, timer.cpp, usbcdc.cpp, base64url.cpp, jwt.cpp).
THEOREM TiposDoApoio ==
  ASSUME TokensHS # {}
  PROVE  SpecApoio => []TypeOK
<1>1. InvApoio => TypeOK
  BY DEF InvApoio, TypeOK, IInvRing, IInvTimer, IInvUsb, IInvB64
<1> QED
  BY <1>1, InicioApoio, PassoApoio, PTL DEF SpecApoio

=============================================================================
