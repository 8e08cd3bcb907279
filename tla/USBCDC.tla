-------------------------------- MODULE USBCDC --------------------------------
(***************************************************************************)
(* The USB device (src/src/com/usbcdc.cpp): callbacks that run in the USB   *)
(* interrupt, and a word of event flags that the main loop shows one at a  *)
(* time.  The cable, the bus and the PAF do what they like, as long as the *)
(* vendor's library lets it through: an event that is not enabled is not   *)
(* delivered, and a device that is not connected is not configured.        *)
(***************************************************************************)
EXTENDS Integers, FiniteSets

CONSTANTS
    LimPend,    \* bound of the model: bytes that the library holds
    LoteUsb     \* bytes that esvazia_leitura discards (128 in the code)

ASSUME USBCDCAssumption == LimPend \in Nat /\ LoteUsb \in Nat \ {0}

\* Events (maxusb_event_t), in the order check_event_flag looks for them.
NOVBUS == 1
VBUS   == 2
BRST   == 3
SUSP   == 4
DPACT  == 5
Eventos == NOVBUS..DPACT

VARIABLES
    habilitados, \* events that the library delivers
    flags,       \* event_flags
    configured,
    acm,         \* the class driver is configured
    enumerado,   \* the enumeration module has a configuration
    conectado,   \* mml_usb_connect
    cabo,        \* the cable feeds the bus
    remoteWake,  \* remote_wake_en
    pendentes    \* bytes to read

varsUsb == <<habilitados, flags, configured, acm, enumerado, conectado, cabo, remoteWake,
             pendentes>>

TipoUsb ==
    /\ habilitados \subseteq Eventos /\ flags \subseteq Eventos
    /\ configured \in BOOLEAN /\ acm \in BOOLEAN /\ enumerado \in BOOLEAN
    /\ conectado \in BOOLEAN /\ cabo \in BOOLEAN /\ remoteWake \in BOOLEAN
    /\ pendentes \in 0..LimPend

-----------------------------------------------------------------------------
\* event_callback, one action for each event: an interrupt that is not interrupted

\* The library delivers e.
EventoUsb(e) == e \in habilitados /\ flags' = flags \cup {e}

\* acm_deconfigure throws away what was not read.
Desconfigura ==
    configured' = FALSE /\ acm' = FALSE /\ enumerado' = FALSE /\ pendentes' = 0

TiraCabo ==
    /\ EventoUsb(NOVBUS) /\ cabo /\ cabo' = FALSE
    /\ habilitados' = habilitados \ {BRST, SUSP, DPACT}
    /\ conectado' = FALSE /\ Desconfigura
    /\ UNCHANGED remoteWake

\* DPACT was disabled and is not enabled again.
PoeCabo ==
    /\ EventoUsb(VBUS) /\ ~cabo /\ cabo' = TRUE
    /\ habilitados' = habilitados \cup {BRST, SUSP}
    /\ conectado' = TRUE
    /\ UNCHANGED <<configured, acm, enumerado, remoteWake, pendentes>>

\* mutant: the class driver is not told
ReiniciaMut ==
    /\ EventoUsb(BRST)
    /\ configured' = FALSE /\ enumerado' = FALSE
    /\ UNCHANGED <<habilitados, conectado, cabo, remoteWake, pendentes, acm>>

Reinicia ==
    /\ EventoUsb(BRST) /\ Desconfigura
    /\ UNCHANGED <<habilitados, conectado, cabo, remoteWake>>

SuspendeUsb ==
    /\ \E e \in {SUSP, DPACT} : EventoUsb(e)
    /\ UNCHANGED <<habilitados, configured, acm, enumerado, conectado, cabo, remoteWake, pendentes>>

-----------------------------------------------------------------------------
\* Requests of the host

\* setconfig_callback, of the configuration or of none; acm_configure may fail, after
\* configured was set.  The enumeration module keeps the configuration if it returns 0.
Configura(ok) ==
    /\ conectado
    /\ configured' = TRUE
    /\ acm' = ok /\ enumerado' = (enumerado \/ ok)
    /\ UNCHANGED <<habilitados, flags, conectado, cabo, remoteWake, pendentes>>

Descarta ==
    /\ conectado /\ Desconfigura
    /\ UNCHANGED <<habilitados, flags, conectado, cabo, remoteWake>>

\* setfeature_callback and clrfeature_callback
Desperta(liga) ==
    /\ conectado /\ remoteWake' = liga
    /\ UNCHANGED <<habilitados, flags, configured, acm, enumerado, conectado, cabo, pendentes>>

Recebe(n) ==
    /\ acm /\ pendentes + n <= LimPend /\ pendentes' = pendentes + n
    /\ UNCHANGED <<habilitados, flags, configured, acm, enumerado, conectado, cabo, remoteWake>>

-----------------------------------------------------------------------------
\* The main loop

\* check_event_flag shows and clears one event at each pass, the first of the order.
Mostra(e) ==
    /\ e \in flags /\ \A f \in flags : e <= f
    /\ flags' = flags \ {e}
    /\ UNCHANGED <<habilitados, configured, acm, enumerado, conectado, cabo, remoteWake, pendentes>>

\* bytes_para_ler and le_bytes_bloqueante, or esvazia_leitura, which discards no more than
\* the size of its buffer.
LeUsb(n) ==
    /\ n \in 1..pendentes /\ n <= LoteUsb /\ pendentes' = pendentes - n
    /\ UNCHANGED <<habilitados, flags, configured, acm, enumerado, conectado, cabo, remoteWake>>

-----------------------------------------------------------------------------
\* The constructor: the cable is told by events only.
InitUsb ==
    /\ habilitados = {NOVBUS, VBUS} /\ flags = {} /\ configured = FALSE
    /\ acm = FALSE /\ enumerado = FALSE /\ conectado = FALSE /\ cabo = FALSE
    /\ remoteWake = FALSE /\ pendentes = 0

EventoDoBarramento == TiraCabo \/ PoeCabo \/ Reinicia \/ SuspendeUsb

Interrupcao ==
    \/ EventoDoBarramento \/ Descarta
    \/ \E b \in BOOLEAN : Configura(b) \/ Desperta(b)
    \/ \E n \in 1..LimPend : Recebe(n)

NextUsb ==
    \/ Interrupcao
    \/ \E e \in Eventos : Mostra(e)
    \/ \E n \in 1..LimPend : LeUsb(n)

SpecUsb == InitUsb /\ [][NextUsb]_varsUsb

-----------------------------------------------------------------------------
\* A device that considers itself configured is connected and its cable feeds the bus, and
\* the class driver is never left configured behind its back: whatever the order of
\* cable, bus resets and requests (usbcdc.cpp:41-48, 89-109).
ConfiguradoConectado ==
    /\ configured => conectado /\ cabo
    /\ acm => configured
    /\ ~configured => ~acm /\ ~enumerado /\ pendentes = 0

\* Without the cable nothing but the cable is heard: no reset or suspension is delivered
\* until it comes back.
SemCaboSoCabo == [][~cabo => flags' \subseteq flags \cup {NOVBUS, VBUS}]_varsUsb

=============================================================================
