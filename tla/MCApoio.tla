------------------------------- MODULE MCApoio -------------------------------
(***************************************************************************)
(* Small instances of the support code for TLC, side by side in one run:   *)
(* the ring allocator, the software timer, the USB device, Base64URL and   *)
(* the tokens.  They share no state.  `foco', chosen at the beginning,     *)
(* says which one moves; the others stay where one of their initial states *)
(* has them, in which nothing that has to happen is pending.               *)
(***************************************************************************)
EXTENDS AlocadorRing, Timer, USBCDC, Base64URL, JWT, TLC

CONSTANTS a, b, p, q, k1, k2

VARIABLE foco

Focos == {"ring", "timer", "usb", "b64", "jwt"}

MCTimeout == (a :> 1) @@ (b :> 2)

\* A first, a middle and a last byte, those around the characters that are not letters.
MCEntradas == UNION {[1..n -> {0, 97, 251, 255}] : n \in 0..4}
MCTextos ==
    UNION {[1..n -> {45, 46, 65, 95, 122}] : n \in 0..3} \cup [1..5 -> {65, 95}]

MCTamanho == (p :> 80) @@ (q :> 300)

\* Three of ChamadasDAF: AlterarModo; RemoverRegistro; RegistrarDAF, which signs a token around
\* a token.
MCChamadas ==
    {Chamada("HS256", FALSE, 600, 300), Chamada("ES256", FALSE, 3500, 100),
     Chamada("ES384", TRUE, 3500, 447)}

varsApoio == <<varsRing, varsTimer, varsUsb, varsB64, varsJWT, foco>>

InitApoio ==
    /\ foco \in Focos
    /\ \/ foco = "ring" /\ InitRing
       \/ foco # "ring" /\ getPtr = 0 /\ blocos = <<>> /\ uso = CHOOSE u \in UsoAlterarModo : TRUE
    /\ \/ foco = "b64" /\ InitB64
       \/ /\ foco # "b64" /\ etapa = "codifica" /\ dados = <<0>> /\ texto = <<>> /\ bytes = <<>>
          /\ pos = 0 /\ outSz = 3 /\ ret = 0 /\ extremo = 0
    /\ InitTimer /\ InitUsb /\ InitJWT

NextApoio ==
    /\ UNCHANGED foco
    /\ \/ foco = "ring" /\ NextRing /\ UNCHANGED <<varsTimer, varsUsb, varsB64, varsJWT>>
       \/ foco = "timer" /\ NextTimer /\ UNCHANGED <<varsRing, varsUsb, varsB64, varsJWT>>
       \/ foco = "usb" /\ NextUsb /\ UNCHANGED <<varsRing, varsTimer, varsB64, varsJWT>>
       \/ foco = "b64" /\ NextB64 /\ UNCHANGED <<varsRing, varsTimer, varsUsb, varsJWT>>
       \/ foco = "jwt" /\ NextJWT /\ UNCHANGED <<varsRing, varsTimer, varsUsb, varsB64>>

SpecApoio == InitApoio /\ [][NextApoio]_varsApoio /\ JusticaTimer

\* The state of each component has the type its module gives it, and a block of the ring is a
\* part of the ring (alocador_de_memoria.h:29-36).
TypeOK == TipoRing /\ BlocosDentro /\ TipoTimer /\ TipoUsb /\ TipoB64 /\ TipoJWT

=============================================================================
