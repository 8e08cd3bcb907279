-------------------------------- MODULE Timer --------------------------------
(***************************************************************************)
(* The software callbacks (src/src/timer/timer.cpp), many on one hardware  *)
(* timer that counts PERIOD_MS once and interrupts.  The interrupt runs    *)
(* between any two steps of add_callback and clear_callback, and handles   *)
(* the table they are changing.  A client adds a callback that no slot     *)
(* holds, and clears it whenever it likes.                                 *)
(***************************************************************************)
EXTENDS Integers, FiniteSets

CONSTANTS
    Callbacks, \* model values
    Timeout,   \* timeout_ms of each, in periods
    MaxSlots,  \* MAX_CALLBACKS (8 in the code)
    Nenhum,    \* the null pointer
    ModSize,   \* values of size_t (2^32 in the code)
    LimMs      \* bound of the model: elapsed_ms stops there, past every timeout

ASSUME TimerAssumption ==
    /\ MaxSlots \in Nat \ {0} /\ ModSize \in Nat /\ ModSize > MaxSlots
    /\ Timeout \in [Callbacks -> Nat] /\ Nenhum \notin Callbacks
    /\ LimMs \in Nat /\ \A c \in Callbacks : Timeout[c] < LimMs

Slots == 1..MaxSlots

VARIABLES
    slots,      \* callbacks
    callbacksN, \* callbacks_n
    elapsed,    \* elapsed_ms of each callback, in periods
    contando,   \* the hardware timer counts
    cliente,    \* what the main loop is doing: operation, callback, and what it read
    expirou     \* history: a callback was already called

varsTimer == <<slots, callbacksN, elapsed, contando, cliente, expirou>>

Parado == [op |-> "nada", cb |-> Nenhum, lido |-> 0]

TipoTimer ==
    /\ slots \in [Slots -> Callbacks \cup {Nenhum}]
    /\ callbacksN \in 0..(ModSize - 1)
    /\ elapsed \in [Callbacks -> 0..LimMs]
    /\ contando \in BOOLEAN /\ expirou \in BOOLEAN
    /\ cliente \in [op : {"nada", "guarda", "conta", "soma", "inicia", "desconta", "subtrai"},
                    cb : Callbacks \cup {Nenhum}, lido : 0..(ModSize - 1)]

Ocupados  == {i \in Slots : slots[i] # Nenhum}
Livres    == Slots \ Ocupados
NaTabela(c) == \E i \in Slots : slots[i] = c

Mais1(n) == IF n = LimMs THEN LimMs ELSE n + 1

-----------------------------------------------------------------------------
\* add_callback, a step for each thing the interrupt could see

\* Refused when the timeout is under a period or the table has one slot left.
Adiciona(c) ==
    /\ cliente = Parado /\ ~NaTabela(c)
    /\ elapsed' = [elapsed EXCEPT ![c] = 0]
    /\ cliente' = IF Timeout[c] < 1 \/ callbacksN + 1 = MaxSlots THEN Parado
                  ELSE [op |-> "guarda", cb |-> c, lido |-> 0]
    /\ UNCHANGED <<slots, callbacksN, contando, expirou>>

\* The first free slot; nothing is stored or counted if there is none.
Guarda ==
    /\ cliente.op = "guarda"
    /\ IF Livres = {} THEN slots' = slots /\ cliente' = [cliente EXCEPT !.op = "inicia"]
       ELSE /\ slots' = [slots EXCEPT ![CHOOSE i \in Livres : \A j \in Livres : i <= j] = cliente.cb]
            /\ cliente' = [cliente EXCEPT !.op = "conta"]
    /\ UNCHANGED <<callbacksN, elapsed, contando, expirou>>

\* callbacks_n++ and callbacks_n-- are a load and a store.
LeContagem ==
    /\ \/ cliente.op = "conta" /\ cliente' = [cliente EXCEPT !.op = "soma", !.lido = callbacksN]
       \/ cliente.op = "desconta" /\ cliente' = [cliente EXCEPT !.op = "subtrai", !.lido = callbacksN]
    /\ UNCHANGED <<slots, callbacksN, elapsed, contando, expirou>>

Soma ==
    /\ cliente.op = "soma" /\ cliente' = [cliente EXCEPT !.op = "inicia"]
    /\ callbacksN' = (cliente.lido + 1) % ModSize
    /\ UNCHANGED <<slots, elapsed, contando, expirou>>

\* mutant: the hardware timer is never enabled here
IniciaMut ==
    /\ cliente.op = "inicia" /\ cliente' = Parado
    /\ UNCHANGED <<slots, callbacksN, elapsed, contando, expirou>>

\* The hardware timer is enabled for the first callback only.
Inicia ==
    /\ cliente.op = "inicia" /\ cliente' = Parado
    /\ contando' = (contando \/ callbacksN = 1)
    /\ UNCHANGED <<slots, callbacksN, elapsed, expirou>>

-----------------------------------------------------------------------------
\* clear_callback

Retira(c) ==
    /\ cliente = Parado
    /\ \E i \in Slots :
           /\ slots[i] = c /\ \A j \in 1..(i - 1) : slots[j] # c
           /\ slots' = [slots EXCEPT ![i] = Nenhum]
    /\ cliente' = [op |-> "desconta", cb |-> c, lido |-> 0]
    /\ UNCHANGED <<callbacksN, elapsed, contando, expirou>>

\* mutant: the timer is stopped when one callback is left
SubtraiMut ==
    /\ cliente.op = "subtrai" /\ cliente' = Parado
    /\ callbacksN' = (cliente.lido - 1) % ModSize
    /\ contando' = (contando /\ callbacksN' > 1)
    /\ UNCHANGED <<slots, elapsed, expirou>>

\* The timer is stopped when no callback is left.
Subtrai ==
    /\ cliente.op = "subtrai" /\ cliente' = Parado
    /\ callbacksN' = (cliente.lido - 1) % ModSize
    /\ contando' = (contando /\ callbacksN' # 0)
    /\ UNCHANGED <<slots, elapsed, expirou>>

-----------------------------------------------------------------------------
\* Callbacks called by the interrupt, from what elapsed_ms will be.
Chamados == {c \in Callbacks : NaTabela(c) /\ elapsed'[c] >= Timeout[c]}

\* internal_handler.  Each callback called is counted out, and stays in its slot: it is
\* called again, and counted out again, at every period.  The timer goes on unless the
\* count is exactly zero.
Interrompe ==
    /\ contando
    /\ elapsed' = [c \in Callbacks |-> IF NaTabela(c) THEN Mais1(elapsed[c]) ELSE elapsed[c]]
    /\ callbacksN' = (callbacksN - Cardinality(Chamados)) % ModSize
    /\ contando' = (callbacksN' # 0)
    /\ expirou' = (expirou \/ Chamados # {})
    /\ UNCHANGED <<slots, cliente>>

-----------------------------------------------------------------------------
InitTimer ==
    /\ slots = [i \in Slots |-> Nenhum] /\ callbacksN = 0 /\ contando = FALSE
    /\ elapsed = [c \in Callbacks |-> 0]
    /\ cliente = Parado /\ expirou = FALSE

Cliente ==
    \/ \E c \in Callbacks : Adiciona(c) \/ Retira(c)
    \/ Guarda \/ LeContagem \/ Soma \/ Inicia \/ Subtrai

NextTimer == Cliente \/ Interrompe

SpecTimer == InitTimer /\ [][NextTimer]_varsTimer

\* What add and clear began they end; the hardware timer counts by itself.
JusticaTimer == WF_varsTimer(Guarda \/ LeContagem \/ Soma \/ Inicia \/ Subtrai) /\ WF_varsTimer(Interrompe)

-----------------------------------------------------------------------------
\* Until the first callback is called the count is the number of callbacks in the table and
\* the timer counts exactly if there is one: the interrupts that fall inside add_callback
\* and clear_callback do not disturb callbacks_n.
ContagemAteExpirar ==
    cliente = Parado /\ ~expirou
        => callbacksN = Cardinality(Ocupados) /\ contando = (Ocupados # {})

\* Until the first callback is called, none waits for ever: it is called, or another is, or
\* it is cleared, whatever is added and cleared meanwhile.
AlgumDispara == \A c \in Callbacks : NaTabela(c) /\ ~expirou ~> expirou \/ ~NaTabela(c)

=============================================================================
