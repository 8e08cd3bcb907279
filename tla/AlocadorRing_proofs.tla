------------------------- MODULE AlocadorRing_proofs -------------------------
(***************************************************************************)
(* Proofs about AlocadorRing, for every size of the buffer and of what is  *)
(* asked of it.                                                            *)
(***************************************************************************)
EXTENDS AlocadorRing, TLAPS

\* No handler asks for more than the whole buffer.
LEMMA PedidosCabem ==
  ASSUME NEW u \in Usos, NEW k \in 1..Len(u)
  PROVE  u[k].tam \in 0..BufferSize
<1> USE AlocadorAssumption DEF AlocadorAssumption, Pedido
<1>1. CASE u \in UsoRegistrar
  BY <1>1 DEF UsoRegistrar
<1>2. CASE u \in UsoRemover
  BY <1>2 DEF UsoRemover
<1>3. CASE u \in UsoAlterarModo
  BY <1>3 DEF UsoAlterarModo
<1>4. CASE u \in UsoAutorizar
  BY <1>4 DEF UsoAutorizar
<1>5. CASE u \in UsoDescarregar
  <2>1. CASE u \in Descarregamentos({f \in Fragmentos : ~Recusado(f)})
    BY <2>1 DEF Descarregamentos, Pedida
  <2>2. ASSUME NEW f \in Fragmentos,
               u = <<Pedido(Autorizacao, Autorizacao, <<>>), Pedido(Pedida(f), 0, <<>>)>>
        PROVE  u[k].tam \in 0..BufferSize
    <3>1. Pedida(f) \in 0..BufferSize
      <4>1. f \in Nat
        OBVIOUS
      <4> QED
        BY <4>1 DEF Pedida
    <3>2. k \in {1, 2}
      BY <2>2
    <3> QED
      BY <2>2, <3>1, <3>2
  <2> QED
    BY <1>5, <2>1, <2>2 DEF UsoDescarregar
<1>6. CASE u \in UsoConfirmar
  BY <1>6 DEF UsoConfirmar
<1>7. CASE u \in UsoConsultar
  <2>1. Len(u) = 5
    BY <1>7 DEF UsoConsultar
  <2>2. u[k].tam \in {44, 88, 176, 352, 704}
    <3>1. k \in {1, 2, 3, 4, 5}
      BY <2>1
    <3> QED
      BY <1>7, <3>1 DEF UsoConsultar
  <2> QED
    BY <2>2
<1> QED
  BY <1>1, <1>2, <1>3, <1>4, <1>5, <1>6, <1>7 DEF Usos

LEMMA UsoEhSequencia ==
  ASSUME NEW u \in Usos
  PROVE  Len(u) \in Nat
  BY DEF Usos, UsoRegistrar, UsoRemover, UsoAlterarModo, UsoAutorizar, UsoDescarregar,
         Descarregamentos, UsoConfirmar, UsoConsultar

\* Where a block of n bytes begins, and where the pointer is left, if n fits the buffer.
LEMMA InicioCabe ==
  ASSUME getPtr \in 0..BufferSize, NEW n \in 0..BufferSize
  PROVE  /\ Inicio(n) \in 0..BufferSize /\ Inicio(n) + n <= BufferSize
         /\ Proximo(n) \in 0..BufferSize
  BY AlocadorAssumption DEF AlocadorAssumption, Inicio, Proximo, Cabe

IInvRing == TipoRing /\ BlocosDentro

\* A step of a handler or of the next request keeps the type and the blocks inside.
LEMMA PassoRing ==
  ASSUME IInvRing, [NextRing]_varsRing
  PROVE  IInvRing'
<1>1. CASE Aloca
  <2> DEFINE n == uso[Len(blocos) + 1].tam
  <2>1. n \in 0..BufferSize /\ Len(uso) \in Nat /\ Len(blocos) \in Nat
    BY <1>1, PedidosCabem, UsoEhSequencia DEF Aloca, IInvRing, TipoRing
  <2>2. blocos' = Append(blocos, Inicio(n)) /\ getPtr' = Proximo(n) /\ uso' = uso
    BY <1>1 DEF Aloca
  <2>3. Inicio(n) \in 0..BufferSize /\ Inicio(n) + n <= BufferSize /\ Proximo(n) \in 0..BufferSize
    BY <2>1, InicioCabe DEF IInvRing, TipoRing
  <2> HIDE DEF n
  <2>4. TipoRing'
    BY <1>1, <2>1, <2>2, <2>3 DEF Aloca, IInvRing, TipoRing
  <2>5. ASSUME NEW k \in 1..Len(blocos') PROVE blocos'[k] + uso'[k].tam <= BufferSize
    <3>1. CASE k = Len(blocos) + 1
      BY <2>2, <2>3, <3>1 DEF IInvRing, TipoRing, n
    <3>2. CASE k # Len(blocos) + 1
      <4>1. k \in 1..Len(blocos) /\ blocos'[k] = blocos[k]
        BY <2>2, <2>3, <2>5, <3>2 DEF IInvRing, TipoRing
      <4> QED
        BY <2>2, <4>1 DEF IInvRing, BlocosDentro
    <3> QED
      BY <3>1, <3>2
  <2> QED
    BY <2>4, <2>5 DEF IInvRing, BlocosDentro
<1>2. ASSUME NEW u \in Usos, Atende(u) PROVE IInvRing'
  BY <1>2, UsoEhSequencia DEF Atende, IInvRing, TipoRing, BlocosDentro
<1>3. CASE UNCHANGED varsRing
  BY <1>3 DEF varsRing, IInvRing, TipoRing, BlocosDentro
<1> QED
  BY <1>1, <1>2, <1>3 DEF NextRing

LEMMA InicioRing == InitRing => IInvRing
  BY AlocadorAssumption, UsoEhSequencia
  DEF AlocadorAssumption, InitRing, IInvRing, TipoRing, BlocosDentro

LEMMA SempreRing == SpecRing => []IInvRing
  BY InicioRing, PassoRing, PTL DEF SpecRing

\* The allocator never hands out a block that goes past its buffer, for any requests that
\* fit it one by one (alocador_de_memoria.h:29-40).
THEOREM BlocosSempreDentro == SpecRing => []BlocosDentro
<1>1. IInvRing => BlocosDentro
  BY DEF IInvRing
<1> QED
  BY <1>1, SempreRing, PTL

-----------------------------------------------------------------------------
(* What is still read                                                        *)

\* The sizes of the code (alocador_de_memoria.h, daf.h, memoria_de_trabalho.h, daf.cpp).
TamanhosDAF ==
    /\ BufferSize >= 10240 /\ JwtMax = 3500 /\ Autorizacao = 3052
    /\ Payloads \subseteq 0..3500 /\ TokensHS \subseteq 0..600 /\ TokensDAF \subseteq 0..600
    /\ TokensFinais \subseteq 0..3500 /\ Fragmentos \subseteq 1..2932

TiposEm(u, j) == u[j].tam \in Nat /\ u[j].usados \in Nat /\ Len(u[j].lidos) \in 0..2

\* The j-th block of a handler, if it is read while the next, or the one after it, is filled,
\* leaves the ring room for all of them and for what is written in the last.
EspacoEm(u, j) ==
    /\ j + 1 <= Len(u) /\ Len(u[j].lidos) >= 1
          => u[j + 1].usados + u[j].tam + u[j + 1].tam <= BufferSize + 1
    /\ j + 2 <= Len(u) /\ Len(u[j].lidos) = 2
          => LET t == u[j].tam + u[j + 1].tam IN
             /\ u[j + 2].usados + t + u[j + 2].tam <= BufferSize + 1
             /\ u[j + 2].usados + t + u[j + 1].tam <= BufferSize + 1
             /\ u[j + 1].tam + u[j + 2].tam <= BufferSize

\* And no more is read of it than was asked for.
FolgaEm(u, j) ==
    /\ TiposEm(u, j) /\ EspacoEm(u, j)
    /\ \A d \in 1..Len(u[j].lidos) : u[j].lidos[d] \in 0..u[j].tam

\* The two exceptions: a terminator beyond the block, and no room for the next block.
SemTerminador(u, j) ==
    /\ TiposEm(u, j) /\ EspacoEm(u, j)
    /\ j = 2 /\ u \in Descarregamentos(Curtos)

SemEspaco(u, j) ==
    TiposEm(u, j) /\ j = 1 /\ u \in Descarregamentos(Longos) /\ Len(u[j].lidos) = 1

Folga(u) == \A j \in 1..Len(u) : FolgaEm(u, j) \/ SemTerminador(u, j) \/ SemEspaco(u, j)

LEMMA CamposDoPedido ==
  ASSUME NEW tam, NEW usados, NEW lidos, NEW x, x = Pedido(tam, usados, lidos)
  PROVE  x.tam = tam /\ x.usados = usados /\ x.lidos = lidos
  BY DEF Pedido

LEMMA FolgaSemLeitura ==
  ASSUME NEW u, NEW j, u[j].tam \in Nat, u[j].usados \in Nat, u[j].lidos = <<>>
  PROVE  FolgaEm(u, j)
  BY DEF FolgaEm, TiposEm, EspacoEm

LEMMA FolgaComLeitura ==
  ASSUME NEW u, NEW j \in Nat, NEW i, i = j + 1, u[j].tam \in Nat, u[j].usados \in Nat,
         NEW l, l \in 0..u[j].tam, u[j].lidos = <<l>>,
         u[i].usados + u[j].tam + u[i].tam <= BufferSize + 1
  PROVE  FolgaEm(u, j)
<1>1. Len(u[j].lidos) = 1 /\ u[j].lidos[1] = l
  OBVIOUS
<1>2. \A d \in 1..Len(u[j].lidos) : u[j].lidos[d] \in 0..u[j].tam
  BY <1>1
<1> QED
  BY <1>1, <1>2 DEF FolgaEm, TiposEm, EspacoEm

LEMMA EspacoComLeituras ==
  ASSUME NEW u, NEW j \in Nat, NEW i, i = j + 1, NEW m, m = j + 2,
         u[j].tam \in Nat, u[j].usados \in Nat,
         NEW l, u[j].lidos = <<l, l>>,
         u[i].usados + u[j].tam + u[i].tam <= BufferSize + 1,
         u[m].usados + (u[j].tam + u[i].tam) + u[m].tam <= BufferSize + 1,
         u[m].usados + (u[j].tam + u[i].tam) + u[i].tam <= BufferSize + 1,
         u[i].tam + u[m].tam <= BufferSize
  PROVE  /\ TiposEm(u, j) /\ EspacoEm(u, j)
         /\ l \in 0..u[j].tam => FolgaEm(u, j)
<1>1. Len(u[j].lidos) = 2 /\ u[j].lidos[1] = l /\ u[j].lidos[2] = l
  OBVIOUS
<1>2. TiposEm(u, j) /\ EspacoEm(u, j)
  BY <1>1 DEF TiposEm, EspacoEm
<1>3. ASSUME l \in 0..u[j].tam
      PROVE  \A d \in 1..Len(u[j].lidos) : u[j].lidos[d] \in 0..u[j].tam
  <2>1. 1..Len(u[j].lidos) = {1, 2}
    BY <1>1
  <2> QED
    BY <1>1, <1>3, <2>1
<1> QED
  BY <1>2, <1>3 DEF FolgaEm

LEMMA UsosComFolga ==
  ASSUME TamanhosDAF, NEW u \in Usos
  PROVE  Folga(u)
<1>1. BufferSize \in Nat /\ BufferSize >= 10240 /\ JwtMax = 3500
  BY AlocadorAssumption DEF AlocadorAssumption, TamanhosDAF
<1>2. CASE u \in UsoRegistrar
  <2>1. PICK p \in Payloads, t \in TokensDAF, f \in TokensFinais :
            u = <<Pedido(JwtMax, p, <<>>), Pedido(JwtMax, t, <<t>>),
                  Pedido(t + 20, t + 11, <<t + 11>>), Pedido(JwtMax, f, <<>>)>>
    BY <1>2 DEF UsoRegistrar
  <2>2. p \in 0..3500 /\ t \in 0..600 /\ f \in 0..3500
    BY DEF TamanhosDAF
  <2>3. Len(u) = 4
    BY <2>1
  <2>4. u[1].tam = JwtMax /\ u[1].usados = p /\ u[1].lidos = <<>>
    BY <2>1, CamposDoPedido
  <2>5. u[2].tam = JwtMax /\ u[2].usados = t /\ u[2].lidos = <<t>>
    BY <2>1, CamposDoPedido
  <2>6. u[3].tam = t + 20 /\ u[3].usados = t + 11 /\ u[3].lidos = <<t + 11>>
    BY <2>1, CamposDoPedido
  <2>7. u[4].tam = JwtMax /\ u[4].usados = f /\ u[4].lidos = <<>>
    BY <2>1, CamposDoPedido
  <2>8. FolgaEm(u, 1)
    <3>1. u[1].tam \in Nat /\ u[1].usados \in Nat
      BY <1>1, <2>2, <2>4
    <3> QED
      BY <3>1, <2>4, FolgaSemLeitura
  <2>9. FolgaEm(u, 2)
    <3>1. u[2].tam \in Nat /\ u[2].usados \in Nat
      BY <1>1, <2>2, <2>5
    <3>2. t \in 0..u[2].tam
      BY <1>1, <2>2, <2>5
    <3>3. u[3].usados + u[2].tam + u[3].tam <= BufferSize + 1
      BY <1>1, <2>2, <2>5, <2>6
    <3>4. 3 = 2 + 1 /\ 2 \in Nat
      OBVIOUS
    <3> QED
      BY <3>1, <3>2, <3>3, <3>4, <2>5, FolgaComLeitura
  <2>10. FolgaEm(u, 3)
    <3>1. u[3].tam \in Nat /\ u[3].usados \in Nat
      BY <1>1, <2>2, <2>6
    <3>2. t + 11 \in 0..u[3].tam
      BY <1>1, <2>2, <2>6
    <3>3. u[4].usados + u[3].tam + u[4].tam <= BufferSize + 1
      BY <1>1, <2>2, <2>6, <2>7
    <3>4. 4 = 3 + 1 /\ 3 \in Nat
      OBVIOUS
    <3> QED
      BY <3>1, <3>2, <3>3, <3>4, <2>6, FolgaComLeitura
  <2>11. FolgaEm(u, 4)
    <3>1. u[4].tam \in Nat /\ u[4].usados \in Nat
      BY <1>1, <2>2, <2>7
    <3> QED
      BY <3>1, <2>7, FolgaSemLeitura
  <2> QED
    <3>1. 1..Len(u) = {1, 2, 3, 4}
      BY <2>3
    <3> QED
      BY <3>1, <2>8, <2>9, <2>10, <2>11 DEF Folga
<1>3. CASE u \in UsoRemover
  <2>1. PICK p \in Payloads, t \in TokensDAF :
            u = <<Pedido(JwtMax, p, <<100>>), Pedido(JwtMax, t, <<>>)>>
    BY <1>3 DEF UsoRemover
  <2>2. p \in 0..3500 /\ t \in 0..600
    BY DEF TamanhosDAF
  <2>3. Len(u) = 2
    BY <2>1
  <2>4. u[1].tam = JwtMax /\ u[1].usados = p /\ u[1].lidos = <<100>>
    BY <2>1, CamposDoPedido
  <2>5. u[2].tam = JwtMax /\ u[2].usados = t /\ u[2].lidos = <<>>
    BY <2>1, CamposDoPedido
  <2>6. FolgaEm(u, 1)
    <3>1. u[1].tam \in Nat /\ u[1].usados \in Nat
      BY <1>1, <2>2, <2>4
    <3>2. 100 \in 0..u[1].tam
      BY <1>1, <2>2, <2>4
    <3>3. u[2].usados + u[1].tam + u[2].tam <= BufferSize + 1
      BY <1>1, <2>2, <2>4, <2>5
    <3>4. 2 = 1 + 1 /\ 1 \in Nat
      OBVIOUS
    <3> QED
      BY <3>1, <3>2, <3>3, <3>4, <2>4, FolgaComLeitura
  <2>7. FolgaEm(u, 2)
    <3>1. u[2].tam \in Nat /\ u[2].usados \in Nat
      BY <1>1, <2>2, <2>5
    <3> QED
      BY <3>1, <2>5, FolgaSemLeitura
  <2> QED
    <3>1. 1..Len(u) = {1, 2}
      BY <2>3
    <3> QED
      BY <3>1, <2>6, <2>7 DEF Folga
<1>4. CASE u \in UsoAlterarModo
  <2>1. PICK t \in TokensHS :
            u = <<Pedido(34, 34, <<34>>), Pedido(300, 100, <<100>>), Pedido(600, t, <<>>)>>
    BY <1>4 DEF UsoAlterarModo
  <2>2. t \in 0..600
    BY DEF TamanhosDAF
  <2>3. Len(u) = 3
    BY <2>1
  <2>4. u[1].tam = 34 /\ u[1].usados = 34 /\ u[1].lidos = <<34>>
    BY <2>1, CamposDoPedido
  <2>5. u[2].tam = 300 /\ u[2].usados = 100 /\ u[2].lidos = <<100>>
    BY <2>1, CamposDoPedido
  <2>6. u[3].tam = 600 /\ u[3].usados = t /\ u[3].lidos = <<>>
    BY <2>1, CamposDoPedido
  <2>7. FolgaEm(u, 1)
    <3>1. u[1].tam \in Nat /\ u[1].usados \in Nat
      BY <1>1, <2>2, <2>4
    <3>2. 34 \in 0..u[1].tam
      BY <1>1, <2>2, <2>4
    <3>3. u[2].usados + u[1].tam + u[2].tam <= BufferSize + 1
      BY <1>1, <2>2, <2>4, <2>5
    <3>4. 2 = 1 + 1 /\ 1 \in Nat
      OBVIOUS
    <3> QED
      BY <3>1, <3>2, <3>3, <3>4, <2>4, FolgaComLeitura
  <2>8. FolgaEm(u, 2)
    <3>1. u[2].tam \in Nat /\ u[2].usados \in Nat
      BY <1>1, <2>2, <2>5
    <3>2. 100 \in 0..u[2].tam
      BY <1>1, <2>2, <2>5
    <3>3. u[3].usados + u[2].tam + u[3].tam <= BufferSize + 1
      BY <1>1, <2>2, <2>5, <2>6
    <3>4. 3 = 2 + 1 /\ 2 \in Nat
      OBVIOUS
    <3> QED
      BY <3>1, <3>2, <3>3, <3>4, <2>5, FolgaComLeitura
  <2>9. FolgaEm(u, 3)
    <3>1. u[3].tam \in Nat /\ u[3].usados \in Nat
      BY <1>1, <2>2, <2>6
    <3> QED
      BY <3>1, <2>6, FolgaSemLeitura
  <2> QED
    <3>1. 1..Len(u) = {1, 2, 3}
      BY <2>3
    <3> QED
      BY <3>1, <2>7, <2>8, <2>9 DEF Folga
<1>5. CASE u \in UsoAutorizar
  <2>1. PICK t \in TokensHS :
            u = <<Pedido(3052, 3052, <<>>), Pedido(300, 300, <<300>>),
                  Pedido(JwtMax, t, <<>>)>>
    BY <1>5 DEF UsoAutorizar, TamanhosDAF
  <2>2. t \in 0..600
    BY DEF TamanhosDAF
  <2>3. Len(u) = 3
    BY <2>1
  <2>4. u[1].tam = 3052 /\ u[1].usados = 3052 /\ u[1].lidos = <<>>
    BY <2>1, CamposDoPedido
  <2>5. u[2].tam = 300 /\ u[2].usados = 300 /\ u[2].lidos = <<300>>
    BY <2>1, CamposDoPedido
  <2>6. u[3].tam = JwtMax /\ u[3].usados = t /\ u[3].lidos = <<>>
    BY <2>1, CamposDoPedido
  <2>7. FolgaEm(u, 1)
    <3>1. u[1].tam \in Nat /\ u[1].usados \in Nat
      BY <1>1, <2>2, <2>4
    <3> QED
      BY <3>1, <2>4, FolgaSemLeitura
  <2>8. FolgaEm(u, 2)
    <3>1. u[2].tam \in Nat /\ u[2].usados \in Nat
      BY <1>1, <2>2, <2>5
    <3>2. 300 \in 0..u[2].tam
      BY <1>1, <2>2, <2>5
    <3>3. u[3].usados + u[2].tam + u[3].tam <= BufferSize + 1
      BY <1>1, <2>2, <2>5, <2>6
    <3>4. 3 = 2 + 1 /\ 2 \in Nat
      OBVIOUS
    <3> QED
      BY <3>1, <3>2, <3>3, <3>4, <2>5, FolgaComLeitura
  <2>9. FolgaEm(u, 3)
    <3>1. u[3].tam \in Nat /\ u[3].usados \in Nat
      BY <1>1, <2>2, <2>6
    <3> QED
      BY <3>1, <2>6, FolgaSemLeitura
  <2> QED
    <3>1. 1..Len(u) = {1, 2, 3}
      BY <2>3
    <3> QED
      BY <3>1, <2>7, <2>8, <2>9 DEF Folga
<1>9. ASSUME NEW f \in Fragmentos, Recusado(f),
             u = <<Pedido(3052, 3052, <<>>), Pedido(Pedida(f), 0, <<>>)>>
      PROVE  Folga(u)
  <2>1. f \in Nat /\ Pedida(f) \in Nat
    BY DEF TamanhosDAF, Pedida
  <2>2. u[1].tam = 3052 /\ u[1].usados = 3052 /\ u[1].lidos = <<>>
    BY <1>9, CamposDoPedido
  <2>3. u[2].tam = Pedida(f) /\ u[2].usados = 0 /\ u[2].lidos = <<>>
    BY <1>9, CamposDoPedido
  <2>4. FolgaEm(u, 1) /\ FolgaEm(u, 2)
    BY <2>1, <2>2, <2>3, FolgaSemLeitura
  <2>5. 1..Len(u) = {1, 2}
    BY <1>9
  <2> QED
    BY <2>4, <2>5 DEF Folga
<1>6. ASSUME NEW f \in Fragmentos, ~Recusado(f), NEW t \in TokensHS,
             u = <<Pedido(3052, 3052, << 116 >>),
                   Pedido(Pedida(f), Codificado(f), <<Codificado(f), Codificado(f)>>),
                   Pedido(300, 300, << 300 >>), Pedido(JwtMax, t, <<>>)>>
      PROVE  Folga(u)
  <2> DEFINE r == Pedida(f)
             c == Codificado(f)
  <2>2. t \in 0..600 /\ f \in 1..2932
    BY DEF TamanhosDAF
  <2>3. /\ r \in 0..4398 /\ c \in 0..3911
        /\ f <= 2537 => r + c + 3052 <= 10241
        /\ f \notin {2, 3, 4, 5, 7} => c <= r
    BY <1>6, <2>2 DEF Codificado, EncodedSize, Pedida, Recusado
  <2>13. \A F : f \in F => u \in Descarregamentos(F)
    BY <1>6 DEF Descarregamentos, Documento, TamanhosDAF
  <2> HIDE DEF r, c
  <2>4. Len(u) = 4
    BY <1>6
  <2>5. u[1].tam = 3052 /\ u[1].usados = 3052 /\ u[1].lidos = <<116>>
    BY <1>6, CamposDoPedido DEF r, c
  <2>6. u[2].tam = r /\ u[2].usados = c /\ u[2].lidos = <<c, c>>
    BY <1>6, CamposDoPedido DEF r, c
  <2>7. u[3].tam = 300 /\ u[3].usados = 300 /\ u[3].lidos = <<300>>
    BY <1>6, CamposDoPedido DEF r, c
  <2>8. u[4].tam = JwtMax /\ u[4].usados = t /\ u[4].lidos = <<>>
    BY <1>6, CamposDoPedido DEF r, c
  <2>9. FolgaEm(u, 1) \/ SemEspaco(u, 1)
    <3>1. u[1].tam \in Nat /\ u[1].usados \in Nat
      BY <2>5
    <3>2. 116 \in 0..u[1].tam
      BY <2>5
    <3>3. CASE f <= 2537
      <4>1. u[2].usados + u[1].tam + u[2].tam <= BufferSize + 1
        BY <1>1, <2>2, <2>3, <2>5, <2>6, <3>3
      <4>2. 2 = 1 + 1 /\ 1 \in Nat
        OBVIOUS
      <4> QED
        BY <3>1, <3>2, <4>1, <4>2, <2>5, FolgaComLeitura
    <3>4. CASE f > 2537
      <4>1. u \in Descarregamentos(Longos)
        BY <2>13, <3>4 DEF Longos
      <4>2. Len(u[1].lidos) = 1
        BY <2>5
      <4> QED
        BY <3>1, <4>1, <4>2 DEF SemEspaco, TiposEm
    <3> QED
      BY <2>2, <3>3, <3>4
  <2>10. FolgaEm(u, 2) \/ SemTerminador(u, 2)
    <3>1. u[2].tam \in Nat /\ u[2].usados \in Nat
      BY <2>3, <2>6
    <3>3. u[3].usados + u[2].tam + u[3].tam <= BufferSize + 1
      BY <1>1, <2>2, <2>3, <2>6, <2>7, <2>8
    <3>4. /\ u[4].usados + (u[2].tam + u[3].tam) + u[4].tam <= BufferSize + 1
          /\ u[4].usados + (u[2].tam + u[3].tam) + u[3].tam <= BufferSize + 1
          /\ u[3].tam + u[4].tam <= BufferSize
      BY <1>1, <2>2, <2>3, <2>6, <2>7, <2>8
    <3>5. 3 = 2 + 1 /\ 4 = 2 + 2 /\ 2 \in Nat
      OBVIOUS
    <3>6. TiposEm(u, 2) /\ EspacoEm(u, 2) /\ (c \in 0..u[2].tam => FolgaEm(u, 2))
      BY <3>1, <3>3, <3>4, <3>5, <2>6, EspacoComLeituras
    <3>7. CASE f \in {2, 3, 4, 5, 7}
      <4>1. u \in Descarregamentos(Curtos)
        BY <2>13, <3>7 DEF Curtos
      <4> QED
        BY <3>6, <4>1 DEF SemTerminador
    <3>8. CASE f \notin {2, 3, 4, 5, 7}
      <4>1. c \in 0..u[2].tam
        BY <2>3, <2>6, <3>8
      <4> QED
        BY <3>6, <4>1
    <3> QED
      BY <3>7, <3>8
  <2>11. FolgaEm(u, 3)
    <3>1. u[3].tam \in Nat /\ u[3].usados \in Nat
      BY <1>1, <2>2, <2>3, <2>7
    <3>2. 300 \in 0..u[3].tam
      BY <1>1, <2>2, <2>3, <2>7
    <3>3. u[4].usados + u[3].tam + u[4].tam <= BufferSize + 1
      BY <1>1, <2>2, <2>3, <2>7, <2>8
    <3>4. 4 = 3 + 1 /\ 3 \in Nat
      OBVIOUS
    <3> QED
      BY <3>1, <3>2, <3>3, <3>4, <2>7, FolgaComLeitura
  <2>12. FolgaEm(u, 4)
    <3>1. t \in Nat /\ JwtMax \in Nat
      BY <1>1, <2>2
    <3>2. u[4].tam \in Nat /\ u[4].usados \in Nat
      BY <2>8, <3>1
    <3> QED
      BY <3>2, <2>8, FolgaSemLeitura
  <2> QED
    <3>1. 1..Len(u) = {1, 2, 3, 4}
      BY <2>4
    <3> QED
      BY <3>1, <2>9, <2>10, <2>11, <2>12 DEF Folga
<1>7. CASE u \in UsoConsultar
  <2>1. u = <<Pedido(44, 44, <<44>>), Pedido(88, 88, <<88>>), Pedido(176, 176, <<176>>),
              Pedido(352, 352, <<352>>), Pedido(704, 440, <<>>)>>
    BY <1>7 DEF UsoConsultar
  <2>2. Len(u) = 5
    BY <2>1
  <2>3. u[1].tam = 44 /\ u[1].usados = 44 /\ u[1].lidos = <<44>>
    BY <2>1, CamposDoPedido
  <2>4. u[2].tam = 88 /\ u[2].usados = 88 /\ u[2].lidos = <<88>>
    BY <2>1, CamposDoPedido
  <2>5. u[3].tam = 176 /\ u[3].usados = 176 /\ u[3].lidos = <<176>>
    BY <2>1, CamposDoPedido
  <2>6. u[4].tam = 352 /\ u[4].usados = 352 /\ u[4].lidos = <<352>>
    BY <2>1, CamposDoPedido
  <2>7. u[5].tam = 704 /\ u[5].usados = 440 /\ u[5].lidos = <<>>
    BY <2>1, CamposDoPedido
  <2>8. FolgaEm(u, 1)
    <3>1. u[1].tam \in Nat /\ u[1].usados \in Nat
      BY <1>1, <2>3
    <3>2. 44 \in 0..u[1].tam
      BY <1>1, <2>3
    <3>3. u[2].usados + u[1].tam + u[2].tam <= BufferSize + 1
      BY <1>1, <2>3, <2>4
    <3>4. 2 = 1 + 1 /\ 1 \in Nat
      OBVIOUS
    <3> QED
      BY <3>1, <3>2, <3>3, <3>4, <2>3, FolgaComLeitura
  <2>9. FolgaEm(u, 2)
    <3>1. u[2].tam \in Nat /\ u[2].usados \in Nat
      BY <1>1, <2>4
    <3>2. 88 \in 0..u[2].tam
      BY <1>1, <2>4
    <3>3. u[3].usados + u[2].tam + u[3].tam <= BufferSize + 1
      BY <1>1, <2>4, <2>5
    <3>4. 3 = 2 + 1 /\ 2 \in Nat
      OBVIOUS
    <3> QED
      BY <3>1, <3>2, <3>3, <3>4, <2>4, FolgaComLeitura
  <2>10. FolgaEm(u, 3)
    <3>1. u[3].tam \in Nat /\ u[3].usados \in Nat
      BY <1>1, <2>5
    <3>2. 176 \in 0..u[3].tam
      BY <1>1, <2>5
    <3>3. u[4].usados + u[3].tam + u[4].tam <= BufferSize + 1
      BY <1>1, <2>5, <2>6
    <3>4. 4 = 3 + 1 /\ 3 \in Nat
      OBVIOUS
    <3> QED
      BY <3>1, <3>2, <3>3, <3>4, <2>5, FolgaComLeitura
  <2>11. FolgaEm(u, 4)
    <3>1. u[4].tam \in Nat /\ u[4].usados \in Nat
      BY <1>1, <2>6
    <3>2. 352 \in 0..u[4].tam
      BY <1>1, <2>6
    <3>3. u[5].usados + u[4].tam + u[5].tam <= BufferSize + 1
      BY <1>1, <2>6, <2>7
    <3>4. 5 = 4 + 1 /\ 4 \in Nat
      OBVIOUS
    <3> QED
      BY <3>1, <3>2, <3>3, <3>4, <2>6, FolgaComLeitura
  <2>12. FolgaEm(u, 5)
    <3>1. u[5].tam \in Nat /\ u[5].usados \in Nat
      BY <1>1, <2>7
    <3> QED
      BY <3>1, <2>7, FolgaSemLeitura
  <2> QED
    <3>1. 1..Len(u) = {1, 2, 3, 4, 5}
      BY <2>2
    <3> QED
      BY <3>1, <2>8, <2>9, <2>10, <2>11, <2>12 DEF Folga
<1>8. CASE u \in UsoConfirmar
  <2>1. PICK n \in Payloads \cup {11}, m \in {3500, 11} : u = <<Pedido(m, n, <<>>)>>
    BY <1>8 DEF UsoConfirmar, TamanhosDAF
  <2>2. n \in Nat /\ m \in Nat
    BY DEF TamanhosDAF
  <2>3. Len(u) = 1 /\ u[1].tam = m /\ u[1].usados = n /\ u[1].lidos = <<>>
    BY <2>1, CamposDoPedido
  <2>4. FolgaEm(u, 1)
    BY <2>2, <2>3, FolgaSemLeitura
  <2> QED
    BY <2>3, <2>4 DEF Folga
<1> QED
  <2>1. CASE u \in UsoDescarregar
    <3> DEFINE Respondido(f, t) ==
                   /\ ~Recusado(f)
                   /\ u = <<Pedido(3052, 3052, <<116>>),
                            Pedido(Pedida(f), Codificado(f), <<Codificado(f), Codificado(f)>>),
                            Pedido(300, 300, <<300>>), Pedido(JwtMax, t, <<>>)>>
               Falhado(f) ==
                   /\ Recusado(f)
                   /\ u = <<Pedido(3052, 3052, <<>>), Pedido(Pedida(f), 0, <<>>)>>
    <3>1. Autorizacao = 3052 /\ Documento = 116
      BY DEF TamanhosDAF, Documento
    <3>2. \/ \E f \in Fragmentos, t \in TokensHS : Respondido(f, t)
          \/ \E f \in Fragmentos : Falhado(f)
      BY <2>1, <3>1 DEF UsoDescarregar, Descarregamentos
    <3>3. ASSUME NEW f \in Fragmentos, NEW t \in TokensHS, Respondido(f, t)
          PROVE  Folga(u)
      BY <1>6, <3>3
    <3>4. ASSUME NEW f \in Fragmentos, Falhado(f)
          PROVE  Folga(u)
      BY <1>9, <3>4
    <3> HIDE DEF Respondido, Falhado
    <3> QED
      BY <3>2, <3>3, <3>4
  <2> QED
    BY <2>1, <1>2, <1>3, <1>4, <1>5, <1>7, <1>8 DEF Usos

\* What the pointer does: a block begins where the one before ends, or at the beginning of the
\* buffer because it did not fit there.
Encadeados ==
    /\ blocos # <<>> => getPtr = blocos[Len(blocos)] + uso[Len(blocos)].tam
    /\ \A k \in 2..Len(blocos) :
           LET f == blocos[k - 1] + uso[k - 1].tam IN
           \/ blocos[k] = f
           \/ blocos[k] = 0 /\ f + uso[k].tam > BufferSize

LEMMA PassoEncadeados ==
  ASSUME IInvRing, Encadeados, [NextRing]_varsRing
  PROVE  Encadeados'
<1>1. CASE Aloca
  <2> DEFINE N == Len(blocos)
             n == uso[N + 1].tam
             b == Inicio(n)
  <2>1. N \in Nat /\ N + 1 \in 1..Len(uso) /\ Len(uso) \in Nat /\ uso \in Usos
    BY <1>1, UsoEhSequencia DEF Aloca, IInvRing, TipoRing
  <2>2. n \in 0..BufferSize /\ getPtr \in 0..BufferSize
    BY <2>1, PedidosCabem DEF IInvRing, TipoRing
  <2>3. blocos' = Append(blocos, b) /\ getPtr' = Proximo(n) /\ uso' = uso /\ blocos \in Seq(0..BufferSize)
    BY <1>1 DEF Aloca, IInvRing, TipoRing
  <2>4. b \in 0..BufferSize /\ Proximo(n) = b + n
    BY <2>2, AlocadorAssumption DEF AlocadorAssumption, Inicio, Proximo, Cabe
  <2>5. b = getPtr \/ (b = 0 /\ getPtr + n > BufferSize)
    BY <2>2, AlocadorAssumption DEF AlocadorAssumption, Inicio, Cabe
  <2> HIDE DEF b
  <2>6. Len(blocos') = N + 1 /\ blocos'[N + 1] = b /\ \A k \in 1..N : blocos'[k] = blocos[k]
    BY <2>3, <2>4
  <2>7. getPtr' = blocos'[Len(blocos')] + uso'[Len(blocos')].tam
    BY <2>3, <2>4, <2>6
  <2>8. ASSUME NEW k \in 2..(N + 1)
        PROVE  LET f == blocos'[k - 1] + uso[k - 1].tam IN
               \/ blocos'[k] = f
               \/ blocos'[k] = 0 /\ f + uso[k].tam > BufferSize
    <3>1. CASE k = N + 1
      <4>1. N \in 1..N /\ blocos'[N] = blocos[N] /\ blocos # <<>> /\ k - 1 = N
        BY <2>1, <2>3, <2>6, <2>8, <3>1
      <4>2. getPtr = blocos'[N] + uso[N].tam
        BY <4>1 DEF Encadeados
      <4> QED
        BY <2>5, <2>6, <3>1, <4>1, <4>2
    <3>2. CASE k # N + 1
      <4>1. k \in 2..N /\ k \in 1..N /\ k - 1 \in 1..N
        BY <2>1, <2>8, <3>2
      <4>2. blocos'[k] = blocos[k] /\ blocos'[k - 1] = blocos[k - 1]
        BY <2>6, <4>1
      <4> QED
        BY <4>1, <4>2 DEF Encadeados
    <3> QED
      BY <3>1, <3>2
  <2> QED
    BY <2>3, <2>6, <2>7, <2>8 DEF Encadeados
<1>2. ASSUME NEW u \in Usos, Atende(u) PROVE Encadeados'
  BY <1>2 DEF Atende, Encadeados
<1>3. CASE UNCHANGED varsRing
  BY <1>3 DEF varsRing, Encadeados
<1> QED
  BY <1>1, <1>2, <1>3 DEF NextRing

LEMMA ElementoDaSequencia ==
  ASSUME NEW S, NEW s \in Seq(S), NEW i \in 1..Len(s)
  PROVE  s[i] \in S
  OBVIOUS

\* Two blocks of a ring of B bytes, one after the other: what is read of the first (l) and
\* what is written in the second (w).
LEMMA DoisBlocos ==
  ASSUME NEW B \in Nat, NEW b1 \in Nat, NEW t1 \in Nat, NEW b2 \in Nat, NEW t2 \in Nat,
         NEW l \in 0..t1, NEW w \in Nat,
         b2 = b1 + t1 \/ (b2 = 0 /\ b1 + t1 + t2 > B),
         w + t1 + t2 <= B + 1
  PROVE  b1 + l <= b2 \/ b2 + w <= b1
  OBVIOUS

\* The first and the last of three.
LEMMA TresBlocos ==
  ASSUME NEW B \in Nat, NEW b1 \in Nat, NEW t1 \in Nat, NEW b2 \in Nat, NEW t2 \in Nat,
         NEW b3 \in Nat, NEW t3 \in Nat, NEW l \in 0..t1, NEW w \in Nat,
         b2 = b1 + t1 \/ (b2 = 0 /\ b1 + t1 + t2 > B),
         b3 = b2 + t2 \/ (b3 = 0 /\ b2 + t2 + t3 > B),
         w + (t1 + t2) + t3 <= B + 1, w + (t1 + t2) + t2 <= B + 1, t2 + t3 <= B
  PROVE  b1 + l <= b3 \/ b3 + w <= b1
  OBVIOUS

\* In a ring that moves so, room is enough to keep what is read, within what was asked for,
\* apart from what is written.
LEMMA EspacoSepara ==
  ASSUME IInvRing, Encadeados, TamanhosDAF, NEW k \in 1..Len(blocos), NEW j \in 1..(k - 1),
         EspacoEm(uso, j), k - j <= Len(uso[j].lidos), NEW l \in 0..uso[j].tam
  PROVE  Apartados(j, k, l)
<1> SUFFICES blocos[j] + l <= blocos[k] \/ blocos[k] + uso[k].usados <= blocos[j]
  BY DEF Apartados
<1>1. /\ Len(blocos) \in Nat /\ Len(uso) \in Nat /\ Len(blocos) <= Len(uso)
      /\ uso \in Usos /\ BufferSize \in Nat
  BY UsoEhSequencia, AlocadorAssumption DEF AlocadorAssumption, IInvRing, TipoRing
<1>2. j \in 1..Len(uso) /\ k \in 1..Len(uso) /\ j \in 1..Len(blocos) /\ k - j \in Nat \ {0}
  BY <1>1
<1>3. TiposEm(uso, j) /\ TiposEm(uso, k)
  BY <1>1, <1>2, UsosComFolga DEF Folga, FolgaEm, SemTerminador, SemEspaco
<1>4. blocos[j] \in Nat /\ blocos[k] \in Nat
  <2>1. blocos \in Seq(0..BufferSize)
    BY DEF IInvRing, TipoRing
  <2>2. blocos[j] \in 0..BufferSize /\ blocos[k] \in 0..BufferSize
    BY <1>2, <2>1, ElementoDaSequencia
  <2> QED
    BY <1>1, <2>2
<1>5. /\ uso[j].tam \in Nat /\ uso[k].tam \in Nat /\ uso[k].usados \in Nat
      /\ Len(uso[j].lidos) \in 0..2
  BY <1>3 DEF TiposEm
<1> DEFINE s == Len(uso[j].lidos)
<1>8. s \in 0..2 /\ k - j <= s /\ k \in Nat /\ j \in Nat
  BY <1>1, <1>2, <1>5
<1> HIDE DEF s
<1>6. CASE k = j + 1
  <2>1. k \in 2..Len(blocos) /\ k - 1 = j /\ k <= Len(uso) /\ Len(uso[j].lidos) >= 1
    BY <1>1, <1>2, <1>6, <1>8 DEF s
  <2>2. uso[k].usados + uso[j].tam + uso[k].tam <= BufferSize + 1
    BY <1>6, <2>1 DEF EspacoEm
  <2>3. blocos[k] = blocos[j] + uso[j].tam
          \/ (blocos[k] = 0 /\ blocos[j] + uso[j].tam + uso[k].tam > BufferSize)
    BY <2>1 DEF Encadeados
  <2> QED
    BY <1>1, <1>4, <1>5, <2>2, <2>3, DoisBlocos
<1>7. CASE k = j + 2
  <2> DEFINE i == j + 1
  <2>1. /\ i \in 2..Len(blocos) /\ i - 1 = j /\ k \in 2..Len(blocos) /\ k - 1 = i
        /\ k <= Len(uso) /\ i \in 1..Len(uso) /\ i \in 1..Len(blocos) /\ Len(uso[j].lidos) = 2
    <3>1. s = 2 /\ i = j + 1 /\ k = i + 1
      BY <1>7, <1>8
    <3> HIDE DEF i
    <3> QED
      BY <1>1, <1>2, <1>8, <3>1 DEF s
  <2>2. /\ uso[k].usados + (uso[j].tam + uso[i].tam) + uso[k].tam <= BufferSize + 1
        /\ uso[k].usados + (uso[j].tam + uso[i].tam) + uso[i].tam <= BufferSize + 1
        /\ uso[i].tam + uso[k].tam <= BufferSize
    BY <1>7, <2>1 DEF EspacoEm
  <2>3. uso[i].tam \in Nat /\ blocos[i] \in Nat
    <3>1. TiposEm(uso, i)
      BY <1>1, <2>1, UsosComFolga DEF Folga, FolgaEm, SemTerminador, SemEspaco
    <3>2. blocos \in Seq(0..BufferSize)
      BY DEF IInvRing, TipoRing
    <3>3. blocos[i] \in 0..BufferSize
      BY <2>1, <3>2, ElementoDaSequencia
    <3> QED
      BY <1>1, <3>1, <3>3 DEF TiposEm
  <2>4. blocos[i] = blocos[j] + uso[j].tam
          \/ (blocos[i] = 0 /\ blocos[j] + uso[j].tam + uso[i].tam > BufferSize)
    BY <2>1 DEF Encadeados
  <2>5. blocos[k] = blocos[i] + uso[i].tam
          \/ (blocos[k] = 0 /\ blocos[i] + uso[i].tam + uso[k].tam > BufferSize)
    BY <2>1 DEF Encadeados
  <2> HIDE DEF i
  <2> QED
    BY <1>1, <1>4, <1>5, <2>2, <2>3, <2>4, <2>5, TresBlocos
<1> QED
  BY <1>2, <1>6, <1>7, <1>8

\* What is read is apart from what is written, but for the two exceptions.
LEMMA FolgaSepara ==
  ASSUME IInvRing, Encadeados, TamanhosDAF, NEW k \in 1..Len(blocos), NEW j \in 1..(k - 1)
  PROVE  \/ Separados(j, k)
         \/ j = 2 /\ uso \in Descarregamentos(Curtos) /\ Apartados(j, k, uso[j].tam)
         \/ j = 1 /\ k = 2 /\ uso \in Descarregamentos(Longos)
<1> SUFFICES ASSUME k - j <= Len(uso[j].lidos)
             PROVE  \/ Apartados(j, k, uso[j].lidos[k - j])
                    \/ j = 2 /\ uso \in Descarregamentos(Curtos) /\ Apartados(j, k, uso[j].tam)
                    \/ j = 1 /\ k = 2 /\ uso \in Descarregamentos(Longos)
  BY DEF Separados
<1>1. uso \in Usos /\ Len(blocos) \in Nat /\ Len(uso) \in Nat /\ Len(blocos) <= Len(uso)
  BY UsoEhSequencia DEF IInvRing, TipoRing
<1>2. j \in 1..Len(uso) /\ k - j \in Nat \ {0}
  BY <1>1
<1>3. CASE FolgaEm(uso, j)
  <2>1. uso[j].lidos[k - j] \in 0..uso[j].tam
    BY <1>2, <1>3 DEF FolgaEm, TiposEm
  <2> QED
    BY <1>3, <2>1, EspacoSepara DEF FolgaEm
<1>4. CASE SemTerminador(uso, j)
  <2>1. uso[j].tam \in 0..uso[j].tam
    BY <1>4 DEF SemTerminador, TiposEm
  <2> QED
    BY <1>4, <2>1, EspacoSepara DEF SemTerminador
<1>5. CASE SemEspaco(uso, j)
  BY <1>2, <1>5 DEF SemEspaco
<1> QED
  BY <1>1, <1>2, <1>3, <1>4, <1>5, UsosComFolga DEF Folga

\* With the sizes of the code, filling a buffer of a handler destroys nothing that the handler
\* reads meanwhile or later, wherever the ring stands when the request comes, but for the
\* terminator of a fragment of 2, 3, 4, 5 or 7 bytes and the fields of an authorisation
\* whose fragment has more than 2537 (alocador_de_memoria.h:24-41 under the handlers of
\* daf.cpp).
THEOREM DadosSempreIntactos ==
  ASSUME TamanhosDAF
  PROVE  SpecRing => []DadosVivosIntactos
<1>1. InitRing => Encadeados
  BY DEF InitRing, Encadeados
<1>2. IInvRing /\ Encadeados /\ [NextRing]_varsRing => Encadeados'
  BY PassoEncadeados
<1>3. IInvRing /\ Encadeados => DadosVivosIntactos
  BY FolgaSepara DEF DadosVivosIntactos
<1> QED
  BY <1>1, <1>2, <1>3, SempreRing, PTL DEF SpecRing

=============================================================================
