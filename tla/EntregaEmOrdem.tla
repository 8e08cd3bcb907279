--------------------------- MODULE EntregaEmOrdem ---------------------------
(***************************************************************************)
(* What a stop-and-wait link promises to the side that sends: its messages,*)
(* numbered from one, reach the other side once each and in order, and one *)
(* is confirmed only after it arrived.                                     *)
(***************************************************************************)
EXTENDS Naturals, Sequences

VARIABLES enviadas,  \* messages handed to the link
          entregues, \* messages that reached the other side
          pendente   \* the last one is not confirmed yet

vars == <<enviadas, entregues, pendente>>

Init == enviadas = 0 /\ entregues = <<>> /\ pendente = FALSE

Enviar ==
    /\ ~pendente
    /\ enviadas' = enviadas + 1 /\ pendente' = TRUE
    /\ UNCHANGED entregues

Entregar ==
    /\ Len(entregues) < enviadas
    /\ entregues' = Append(entregues, enviadas)
    /\ UNCHANGED <<enviadas, pendente>>

Confirmar ==
    /\ pendente /\ Len(entregues) = enviadas
    /\ pendente' = FALSE
    /\ UNCHANGED <<enviadas, entregues>>

Next == Enviar \/ Entregar \/ Confirmar
Spec == Init /\ [][Next]_vars

=============================================================================
