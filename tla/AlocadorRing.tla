----------------------------- MODULE AlocadorRing -----------------------------
(***************************************************************************)
(* The ring allocator (src/src/memoria/alocador_de_memoria.h) under the     *)
(* handlers of daf.cpp.  do_allocate hands out the next bytes of one static *)
(* buffer, starts again from its beginning when they do not fit, and never *)
(* gives anything back: a block is good only until the ring comes round.   *)
(* A handler asks for its buffers in a fixed order, writes less than it    *)
(* asked for, and goes on reading some of them while it fills the next.    *)
(***************************************************************************)
EXTENDS TamanhosB64, Sequences

CONSTANTS
    BufferSize,  \* bytes of the ring (10 KiB in the code)
    JwtMax,      \* JWT_PAYLOAD_MAX_SZ (3500)
    Autorizacao, \* sizeof(autorizacao_t)
    Payloads,    \* sizes that a decoded payload may have
    TokensHS,    \* sizes of an HS256 token
    TokensDAF,   \* sizes of an ES256 token
    TokensFinais,\* sizes of an ES384 token around it
    Fragmentos   \* sizes of the fragment of a document (1 to 2932, sizeof fragmento_DFE_t::buf)

ASSUME AlocadorAssumption ==
    /\ BufferSize \in Nat \ {0} /\ JwtMax \in 0..BufferSize /\ Autorizacao \in 0..BufferSize
    /\ \A S \in {Payloads, TokensHS, TokensDAF, TokensFinais, Fragmentos} : S \subseteq 0..BufferSize
    /\ 704 <= BufferSize
    /\ \A t \in TokensDAF : t + 20 <= BufferSize
    /\ \A f \in Fragmentos : (3 * f) \div 2 <= BufferSize

\* Bytes that an encoded fragment takes, with the terminator; those that are asked for it;
\* and when b64url_encode refuses them (one byte of fragment).
Codificado(f) == EncodedSize(f) + 1
Pedida(f)     == (3 * f) \div 2
Recusado(f)   == EncodedSize(f) > Pedida(f)

\* A request of a handler: bytes asked for, bytes written, and for each of the requests
\* that follow, how many of the first bytes are read while it is filled or after.
Pedido(tam, usados, lidos) == [tam |-> tam, usados |-> usados, lidos |-> lidos]

\* Bytes of documento_t, the beginning of autorizacao_t: the answers are made from it.
Documento == 116

\* The buffers of each handler, in the order it asks for them.
UsoRegistrar ==
    {<<Pedido(JwtMax, p, <<>>), Pedido(JwtMax, t, <<t>>), Pedido(t + 20, t + 11, <<t + 11>>),
       Pedido(JwtMax, f, <<>>)>> : p \in Payloads, t \in TokensDAF, f \in TokensFinais}

UsoRemover ==
    {<<Pedido(JwtMax, p, <<100>>), Pedido(JwtMax, t, <<>>)>> : p \in Payloads, t \in TokensDAF}

UsoAlterarModo ==
    {<<Pedido(34, 34, <<34>>), Pedido(300, 100, <<100>>), Pedido(600, t, <<>>)>> : t \in TokensHS}

UsoAutorizar ==
    {<<Pedido(Autorizacao, Autorizacao, <<>>), Pedido(300, 300, <<300>>),
       Pedido(JwtMax, t, <<>>)>> : t \in TokensHS}

\* A fragment of a size in F is answered.  It is read as it is encoded, always ahead of
\* what is written; the fields of the document are copied before the payload is written.
Descarregamentos(F) ==
    {<<Pedido(Autorizacao, Autorizacao, <<Documento>>),
       Pedido(Pedida(f), Codificado(f), <<Codificado(f), Codificado(f)>>),
       Pedido(300, 300, <<300>>), Pedido(JwtMax, t, <<>>)>> : f \in F, t \in TokensHS}

UsoDescarregar ==
    Descarregamentos({f \in Fragmentos : ~Recusado(f)})
        \cup {<<Pedido(Autorizacao, Autorizacao, <<>>), Pedido(Pedida(f), 0, <<>>)>> :
               f \in {g \in Fragmentos : Recusado(g)}}

\* One buffer: the confirmations.
UsoConfirmar == {<<Pedido(JwtMax, p, <<>>)>> : p \in Payloads} \cup {<<Pedido(11, 11, <<>>)>>}

\* The vector of ten identifiers doubles its capacity and copies itself.
UsoConsultar ==
    {<<Pedido(44, 44, <<44>>), Pedido(88, 88, <<88>>), Pedido(176, 176, <<176>>),
       Pedido(352, 352, <<352>>), Pedido(704, 440, <<>>)>>}

Usos == UsoRegistrar \cup UsoRemover \cup UsoAlterarModo \cup UsoAutorizar
            \cup UsoDescarregar \cup UsoConfirmar \cup UsoConsultar

VARIABLES
    getPtr, \* get_ptr, as an offset
    uso,    \* requests of the handler in course
    blocos  \* where the blocks it already has begin

varsRing == <<getPtr, uso, blocos>>

TipoRing ==
    /\ getPtr \in 0..BufferSize
    /\ uso \in Usos /\ blocos \in Seq(0..BufferSize) /\ Len(blocos) <= Len(uso)

-----------------------------------------------------------------------------
\* mutants: the test for the end is off by the request; the pointer goes to the start
CabeMut(n) == getPtr <= BufferSize
Cabe(n)    == getPtr + n <= BufferSize

ProximoMut(n) == IF Cabe(n) THEN getPtr + n ELSE 0
Proximo(n)    == IF Cabe(n) THEN getPtr + n ELSE n
Inicio(n)     == IF Cabe(n) THEN getPtr ELSE 0

\* allocate, of the next buffer of the handler; deallocate does nothing.
Aloca ==
    /\ Len(blocos) < Len(uso)
    /\ LET n == uso[Len(blocos) + 1].tam IN
           /\ blocos' = Append(blocos, Inicio(n))
           /\ getPtr' = Proximo(n)
    /\ UNCHANGED uso

\* The handler returns, maybe before it asked for all of them, and another request is
\* processed.
Atende(u) == uso' = u /\ blocos' = <<>> /\ UNCHANGED getPtr

InitRing == getPtr = 0 /\ uso \in Usos /\ blocos = <<>>

NextRing ==
    \/ Aloca
    \/ \E u \in Usos : Atende(u)

SpecRing == InitRing /\ [][NextRing]_varsRing

-----------------------------------------------------------------------------
\* Every block lies inside the buffer (alocador_de_memoria.h:29-36).
BlocosDentro == \A k \in 1..Len(blocos) : blocos[k] + uso[k].tam <= BufferSize

\* The first l bytes of block j and what is written to block k are apart.
Apartados(j, k, l) == blocos[j] + l <= blocos[k] \/ blocos[k] + uso[k].usados <= blocos[j]

\* What block j must still hold when block k is filled is not written over.
Separados(j, k) == k - j <= Len(uso[j].lidos) => Apartados(j, k, uso[j].lidos[k - j])

\* Fragments whose text, without the terminator, already fills what is asked for it, and
\* fragments too large for the ring to hold them beside the authorisation.
Curtos == Fragmentos \cap {2, 3, 4, 5, 7}
Longos == {f \in Fragmentos : f > 2537}

\* Wherever the ring stands when a request comes, filling a buffer of a handler destroys
\* nothing that it reads meanwhile or later, although the blocks of DescarregarRetidos do
\* not fit the ring together, but for two things.  A fragment of 2, 3, 4, 5 or 7 bytes
\* loses the terminator of its text, which is one byte further than the 3/2 of its size
\* that are asked for it (daf.cpp:1091), to the payload of the token, and no other byte.
\* One of more than 2537, read back with the ring near 3500, is encoded over the fields
\* from which the answer is then made (daf.cpp:1082-1123), and over nothing else.
DadosVivosIntactos ==
    \A k \in 1..Len(blocos) : \A j \in 1..(k - 1) :
        \/ Separados(j, k)
        \/ j = 2 /\ uso \in Descarregamentos(Curtos) /\ Apartados(j, k, uso[j].tam)
        \/ j = 1 /\ k = 2 /\ uso \in Descarregamentos(Longos)

\* The same without the two exceptions: both do occur.
TudoSeparado == \A k \in 1..Len(blocos) : \A j \in 1..(k - 1) : Separados(j, k)

=============================================================================
