------------------------------ MODULE JWT_proofs ------------------------------
(***************************************************************************)
(* Proofs about the tokens, for any keys, payloads and number of tokens:   *)
(* what a verification accepts was signed; what is generated is accepted;  *)
(* the calls of the handlers give it room.                                 *)
(***************************************************************************)
EXTENDS JWT, TLAPS

\* What a part may decode to without being a signature.
Soltos ==
    {Lixo, <<"iv", 16, "jwe">>, <<"chave", 64, "jwe">>}
        \cup {<<alg, jwk, "cabecalho">> : alg \in Algs, jwk \in BOOLEAN}
        \cup {<<p, Tamanho[p], "conteudo">> : p \in Conteudos}

Partes == [sz : Nat, dado : Soltos \cup assinados]

\* The strengthening: the only signatures in circulation are those that were made.
IInvJWT ==
    /\ tokens \subseteq Seq(Partes)
    /\ \A a \in assinados : a = <<a[1], a[2]>>
    /\ Autentico

LEMMA CabecalhoSolto ==
  ASSUME NEW alg \in Algs, NEW jwk \in BOOLEAN
  PROVE  <<alg, jwk, "cabecalho">> \in Soltos
  BY DEF Soltos

LEMMA TamanhoNatural ==
  ASSUME NEW n \in Nat
  PROVE  EncodedSize(n) \in Nat
  BY DEF EncodedSize

\* Sequences of five parts: TokenJWE.
LEMMA CincoPartes ==
  ASSUME NEW S, NEW a \in S, NEW b \in S, NEW c \in S, NEW d \in S
  PROVE  <<a, b, c, d, c>> \in Seq(S)
  OBVIOUS

\* A pair is none of the other things a part decodes to.
LEMMA SoltoNaoEhPar ==
  ASSUME NEW k, NEW msg
  PROVE  <<k, msg>> \notin Soltos
  BY DEF Soltos, Lixo

\* A step that adds signatures leaves the parts there were.
LEMMA PartesCrescem ==
  ASSUME assinados \subseteq assinados', NEW t \in Seq(Partes)
  PROVE  t \in Seq(Partes')
<1>1. Partes \subseteq Partes'
  BY DEF Partes
<1> QED
  BY <1>1

\* The bytes compared by a verification are a signature only if it was made.
LEMMA ComparadaFoiAssinada ==
  ASSUME IInvJWT, NEW alg, NEW k, NEW msg, NEW t \in tokens, TemCampos(t),
         <<k, msg>> \in Comparadas(alg, CampoAssinatura(t))
  PROVE  <<k, msg>> \in assinados
<1> DEFINE campo == CampoAssinatura(t)
<1>1. <<k, msg>> # Lixo
  BY SoltoNaoEhPar DEF Soltos
<1>2. campo.dado \in Soltos \cup assinados
  <2>1. t \in Seq(Partes) /\ Len(t) >= 3
    BY DEF IInvJWT, TemCampos
  <2>2. t[3] \in Partes
    BY <2>1
  <2> QED
    BY <2>2 DEF CampoAssinatura, Ultimo, Partes, Soltos
<1>3. Comparadas(alg, campo) \subseteq {campo.dado, Lixo} \cup assinados
  BY DEF Comparadas, Assinatura, IInvJWT
<1> QED
  BY <1>1, <1>2, <1>3, SoltoNaoEhPar

LEMMA PassoGera ==
  ASSUME IInvJWT, NEW c \in Chamadas, NEW k \in Chaves, NEW p \in Conteudos, NEW ok \in BOOLEAN,
         Gera(c, k, p, ok)
  PROVE  IInvJWT'
<1> DEFINE t == Token(c.alg, c.jwk, k, p)
<1>1. assinados \subseteq assinados' /\ verificacao' = NadaVerificado
  BY DEF Gera
<1>2. Autentico'
  BY <1>1 DEF Autentico, NadaVerificado
<1>3. \A a \in assinados' : a = <<a[1], a[2]>>
  BY DEF Gera, IInvJWT
<1>4. tokens \subseteq Seq(Partes')
  BY <1>1, PartesCrescem DEF IInvJWT
<1>5. CASE tokens' = tokens
  BY <1>2, <1>3, <1>4, <1>5 DEF IInvJWT
<1>6. CASE tokens' = tokens \cup {t} /\ assinados' = assinados \cup {<<k, Mensagem(t)>>}
  <2> DEFINE cab == Cabecalho(c.alg, c.jwk)
             cont == Conteudo(p)
             ass == Parte(TamAssinatura(c.alg), Assinatura(k, <<cab, cont>>))
  <2>1. t = <<cab, cont, ass>>
    BY DEF Token
  <2>2. TamCabecalho(c.alg, c.jwk) \in Nat /\ TamAssinatura(c.alg) \in Nat /\ Tamanho[p] \in Nat
    BY JWTAssumption DEF JWTAssumption, TamCabecalho, TamAssinatura
  <2>3. cab \in Partes' /\ cont \in Partes'
    BY <2>2, TamanhoNatural, JWTAssumption
    DEF JWTAssumption, Cabecalho, Conteudo, Parte, Partes, Soltos
  <2>4. Assinatura(k, <<cab, cont>>) \in assinados'
    <3>1. Mensagem(t) = <<cab, cont>>
      BY <2>1 DEF Mensagem
    <3> QED
      BY <1>6, <3>1 DEF Assinatura
  <2>5. ass \in Partes'
    BY <2>2, <2>4, TamanhoNatural DEF Parte, Partes
  <2>6. t \in Seq(Partes')
    <3> HIDE DEF cab, cont, ass
    <3> QED
      BY <2>1, <2>3, <2>5
  <2> QED
    BY <1>2, <1>3, <1>4, <1>6, <2>6 DEF IInvJWT
<1> QED
  BY <1>5, <1>6 DEF Gera

LEMMA PassoRecebe ==
  ASSUME IInvJWT, RecebeJWE
  PROVE  IInvJWT'
<1>1. tokens' = tokens \cup {TokenJWE} /\ assinados' = assinados /\ verificacao' = NadaVerificado
  BY DEF RecebeJWE
<1>2. TokenJWE \in Seq(Partes)
  <2>1. Cabecalho("HS256", FALSE) \in Partes
    <3>1. TamCabecalho("HS256", FALSE) = 27
      BY DEF TamCabecalho
    <3>2. EncodedSize(27) \in Nat
      BY TamanhoNatural
    <3>3. <<"HS256", FALSE, "cabecalho">> \in Soltos
      <4>1. "HS256" \in Algs /\ FALSE \in BOOLEAN
        BY DEF Algs
      <4> QED
        BY <4>1, CabecalhoSolto
    <3> QED
      BY <3>1, <3>2, <3>3 DEF Cabecalho, Parte, Partes
  <2>2. Vazia \in Partes /\ Miolo \in Partes /\ Parte(64, <<"chave", 64, "jwe">>) \in Partes
    BY TamanhoNatural DEF Vazia, Miolo, Parte, Partes, Soltos
  <2> QED
    BY <2>1, <2>2, CincoPartes DEF TokenJWE
<1>3. Partes' = Partes
  BY <1>1 DEF Partes
<1> QED
  BY <1>1, <1>2, <1>3 DEF IInvJWT, Autentico, NadaVerificado

LEMMA PassoAltera ==
  ASSUME IInvJWT, NEW t \in tokens, NEW u \in tokens, NEW k \in 1..Len(t), k <= Len(u),
         Altera(t, u, k)
  PROVE  IInvJWT'
<1>1. t \in Seq(Partes) /\ u \in Seq(Partes) /\ t[k] \in Partes /\ u[k] \in Partes
  BY DEF IInvJWT
<1>2. [sz |-> t[k].sz, dado |-> Lixo] \in Partes
  BY <1>1 DEF Partes, Soltos
<1>3. /\ [t EXCEPT ![k] = u[k]] \in Seq(Partes) /\ Append(t, u[k]) \in Seq(Partes)
      /\ [t EXCEPT ![k] = [sz |-> t[k].sz, dado |-> Lixo]] \in Seq(Partes)
  BY <1>1, <1>2
<1>4. SubSeq(t, 1, k) \in Seq(Partes)
  BY <1>1
<1>5. tokens' \subseteq Seq(Partes)
  BY <1>3, <1>4 DEF Altera, IInvJWT
<1>6. assinados' = assinados /\ verificacao' = NadaVerificado
  BY DEF Altera
<1>7. Partes' = Partes
  BY <1>6 DEF Partes
<1> QED
  BY <1>5, <1>6, <1>7 DEF IInvJWT, Autentico, NadaVerificado

\* The only positive result is that of a signature which agrees.
LEMMA PassoVerifica ==
  ASSUME IInvJWT, NEW alg \in Algs, NEW k \in Chaves, NEW t \in tokens, NEW max \in Maximos,
         Verifica(alg, k, t, max)
  PROVE  IInvJWT'
<1>1. PICK ass \in IF TemCampos(t) THEN Comparadas(alg, CampoAssinatura(t)) ELSE {Lixo} :
          verificacao' = [alg |-> alg, k |-> k, t |-> t, max |-> max,
                          ret |-> RetVerifica(alg, k, t, max, ass)]
  BY DEF Verifica
<1>2. UNCHANGED <<tokens, assinados>>
  BY DEF Verifica
<1>3. ASSUME RetVerifica(alg, k, t, max, ass) > 0 PROVE <<k, Mensagem(t)>> \in assinados
  <2>1. TemCampos(t) /\ Confere(ass, k, Mensagem(t))
    BY <1>3 DEF RetVerifica, ERR_TAMANHO_TOKEN, ERR_BASE64, ERR_ASSINATURA
  <2> QED
    BY <1>1, <2>1, ComparadaFoiAssinada DEF Confere, Assinatura
<1>4. Autentico'
  BY <1>1, <1>2, <1>3 DEF Autentico, Mensagem
<1>5. Partes' = Partes
  BY <1>2 DEF Partes
<1> QED
  BY <1>2, <1>4, <1>5 DEF IInvJWT

LEMMA PassoVerificaJWE ==
  ASSUME IInvJWT, NEW t \in tokens, VerificaJWE(t)
  PROVE  IInvJWT'
<1>1. UNCHANGED <<tokens, assinados>> /\ verificacao'.alg = "JWE"
  BY DEF VerificaJWE
<1>2. Partes' = Partes
  BY <1>1 DEF Partes
<1> QED
  BY <1>1, <1>2 DEF IInvJWT, Autentico

LEMMA PassoJWT ==
  ASSUME IInvJWT, [NextJWT]_varsJWT
  PROVE  IInvJWT'
<1>1. CASE UNCHANGED varsJWT
  <2>1. Partes' = Partes
    BY <1>1 DEF varsJWT, Partes
  <2> QED
    BY <1>1, <2>1 DEF varsJWT, IInvJWT, Autentico, Mensagem
<1>2. CASE NextJWT
  BY <1>2, PassoGera, PassoRecebe, PassoAltera, PassoVerifica, PassoVerificaJWE DEF NextJWT
<1> QED
  BY <1>1, <1>2

\* A token that a verification accepts was signed with the key it was verified with, header
\* and payload together, also where the code compares bytes that it did not decode
\* (jwt.cpp:62-166).
THEOREM SempreAutentico == SpecJWT => []Autentico
<1>1. InitJWT => IInvJWT
  BY DEF InitJWT, IInvJWT, Autentico, NadaVerificado
<1>2. IInvJWT => Autentico
  BY DEF IInvJWT
<1> QED
  BY <1>1, <1>2, PassoJWT, PTL DEF SpecJWT

-----------------------------------------------------------------------------
(* Types                                                                     *)

\* What a generation and a verification return is an error or a size.
LEMMA TipoDaGeracao ==
  ASSUME NEW alg \in Algs, NEW jwk \in BOOLEAN, NEW n \in Nat, NEW max \in Nat, NEW ok
  PROVE  Geracao(alg, jwk, n, max, ok).ret \in Erros \cup Nat
<1> DEFINE h == TamCabecalho(alg, jwk)
           p1 == Depois(0, h)
           p2 == Depois(p1, n)
           p3 == Depois(p2, TamAssinatura(alg))
<1>1. h \in Nat /\ TamAssinatura(alg) \in Nat
  BY DEF TamCabecalho, TamAssinatura
<1>2. \A i, j \in Nat : Depois(i, j) \in Nat
  BY TamanhoNatural DEF Depois
<1> HIDE DEF h
<1>3. p3 \in Nat
  BY <1>1, <1>2
<1> HIDE DEF p1, p2, p3
<1>4. Geracao(alg, jwk, n, max, ok).ret \in {ERR_TAMANHO_TOKEN, ERR_CRIPTO, p3}
  BY DEF Geracao, h, p1, p2, p3
<1> QED
  BY <1>3, <1>4 DEF Erros, ERR_TAMANHO_TOKEN, ERR_CRIPTO

LEMMA TipoDaVerificacao ==
  ASSUME NEW alg, NEW k, NEW t, NEW max \in Nat, NEW ass
  PROVE  RetVerifica(alg, k, t, max, ass) \in Erros \cup Nat
<1>1. Decodifica64(t[2], max) => DecodedSize(t[2].sz) \in Nat
  BY DEF Decodifica64
<1>2. RetVerifica(alg, k, t, max, ass) \in {ERR_TAMANHO_TOKEN, ERR_BASE64, ERR_ASSINATURA, 0}
      \/ (Decodifica64(t[2], max)
            /\ RetVerifica(alg, k, t, max, ass) = DecodedSize(t[2].sz))
  BY DEF RetVerifica
<1> QED
  BY <1>1, <1>2 DEF Erros, ERR_TAMANHO_TOKEN, ERR_BASE64, ERR_ASSINATURA

LEMMA PassoTipoJWT ==
  ASSUME IInvJWT, TipoJWT, [NextJWT]_varsJWT
  PROVE  TipoJWT'
<1> DEFINE Ret(r) == r \in Erros \cup Nat
<1>1. \A t \in tokens' : \A k \in 1..Len(t) : t[k].sz \in Nat
  <2>1. IInvJWT'
    BY PassoJWT
  <2>2. SUFFICES ASSUME NEW t \in tokens', NEW k \in 1..Len(t) PROVE t[k].sz \in Nat
    OBVIOUS
  <2>3. t \in Seq(Partes')
    BY <2>1 DEF IInvJWT
  <2>4. t[k] \in Partes'
    BY <2>3
  <2> QED
    BY <2>4 DEF Partes
<1>0. 0 \in Nat
  OBVIOUS
<1>2. CASE UNCHANGED varsJWT
  BY <1>2 DEF varsJWT, TipoJWT
<1>3. ASSUME NEW c \in Chamadas, NEW k \in Chaves, NEW p \in Conteudos, NEW ok \in BOOLEAN,
             Gera(c, k, p, ok)
      PROVE  TipoJWT'
  <2>1. /\ c.alg \in Algs /\ c.jwk \in BOOLEAN /\ c.buf \in Nat /\ Tamanho[p] \in Nat
    BY JWTAssumption DEF JWTAssumption
  <2>2. Ret(geracao'.ret)
    BY <1>3, <2>1, TipoDaGeracao DEF Gera
  <2>3. Ret(verificacao'.ret)
    BY <1>3 DEF Gera, NadaVerificado
  <2>4. \A a \in assinados' : a[1] \in Chaves
    BY <1>3 DEF Gera, TipoJWT
  <2> QED
    BY <1>1, <2>2, <2>3, <2>4 DEF TipoJWT
<1>4. ASSUME geracao' = NadaGerado, Ret(verificacao'.ret), UNCHANGED assinados PROVE TipoJWT'
  BY <1>0, <1>1, <1>4 DEF TipoJWT, NadaGerado
<1>5. CASE RecebeJWE
  BY <1>4, <1>5 DEF RecebeJWE, NadaVerificado
<1>6. ASSUME NEW t \in tokens, NEW u \in tokens, NEW k \in 1..Len(t), Altera(t, u, k)
      PROVE  TipoJWT'
  BY <1>4, <1>6 DEF Altera, NadaVerificado
<1>7. ASSUME NEW alg \in Algs, NEW k \in Chaves, NEW t \in tokens, NEW max \in Maximos,
             Verifica(alg, k, t, max)
      PROVE  TipoJWT'
  <2>1. max \in Nat
    BY JWTAssumption DEF JWTAssumption
  <2>2. PICK ass : verificacao'.ret = RetVerifica(alg, k, t, max, ass)
    BY <1>7 DEF Verifica
  <2>3. Ret(verificacao'.ret)
    BY <2>1, <2>2, TipoDaVerificacao
  <2> QED
    BY <1>4, <1>7, <2>3 DEF Verifica
<1>8. ASSUME NEW t \in tokens, VerificaJWE(t) PROVE TipoJWT'
  <2>1. verificacao'.ret = 0 \/ verificacao'.ret \in 1..TamChaveSEF
    BY <1>8 DEF VerificaJWE, Decodifica64
  <2>2. Ret(verificacao'.ret)
    BY <2>1 DEF TamChaveSEF
  <2> QED
    BY <1>4, <1>8, <2>2 DEF VerificaJWE
<1> QED
  BY <1>2, <1>3, <1>5, <1>6, <1>7, <1>8 DEF NextJWT

LEMMA InicioJWT == InitJWT => IInvJWT /\ TipoJWT
  BY DEF InitJWT, IInvJWT, TipoJWT, Autentico, NadaGerado, NadaVerificado

-----------------------------------------------------------------------------
(* Generation: the room for the token                                        *)

\* A longer text is not encoded in fewer characters.
LEMMA EncodedCresce ==
  ASSUME NEW m \in Nat, NEW n \in 0..m
  PROVE  EncodedSize(n) \in 0..EncodedSize(m)
  BY DEF EncodedSize

LEMMA RestoPequeno ==
  ASSUME NEW M \in Nat \ {0}, NEW x \in 0..(M - 1)
  PROVE  x % M = x
  OBVIOUS

\* If the three parts, their dots and the terminator fit, each finds room and the last
\* position written is in the buffer, whether the signature can be made or not.
LEMMA GeracaoCabe ==
  ASSUME NEW alg \in Algs, NEW jwk \in BOOLEAN, NEW n \in Nat \ {0}, NEW ok \in BOOLEAN,
         NEW max \in 0..(MaxSize - 1),
         EncodedSize(TamCabecalho(alg, jwk)) + EncodedSize(n)
             + EncodedSize(TamAssinatura(alg)) + 3 <= max
  PROVE  LET g == Geracao(alg, jwk, n, max, ok) IN g.ret # ERR_TAMANHO_TOKEN /\ g.extremo <= max
<1> DEFINE h  == TamCabecalho(alg, jwk)
           s  == TamAssinatura(alg)
           eh == EncodedSize(h)
           en == EncodedSize(n)
           es == EncodedSize(s)
<1>1. h \in Nat \ {0} /\ s \in Nat \ {0}
  BY DEF TamCabecalho, TamAssinatura
<1>2. eh \in Nat /\ en \in Nat /\ es \in Nat
  BY <1>1, TamanhoNatural
<1>3. MaxSize \in Nat \ {0} /\ max \in Nat
  BY JWTAssumption DEF JWTAssumption
<1> HIDE DEF h, s
<1>4. CabeParte(0, h, max)
  <2>1. max - 0 = max /\ Resto(0, max) = max
    BY <1>3, RestoPequeno DEF Resto
  <2> QED
    BY <1>1, <1>2, <1>3, <2>1 DEF CabeParte, h, s
<1>5. Depois(0, h) = eh + 1 /\ Depois(eh + 1, n) = eh + en + 2
      /\ Depois(eh + en + 2, s) = eh + en + es + 3
  BY <1>2 DEF Depois
<1>6. CabeParte(eh + 1, n, max)
  <2>1. Resto(eh + 1, max) = max - (eh + 1)
    BY <1>2, <1>3, RestoPequeno DEF Resto, h, s
  <2> QED
    BY <1>2, <1>3, <2>1 DEF CabeParte, h, s
<1>7. CabeParte(eh + en + 2, s, max)
  <2>1. Resto(eh + en + 2, max) = max - (eh + en + 2)
    BY <1>2, <1>3, RestoPequeno DEF Resto, h, s
  <2> QED
    BY <1>1, <1>2, <1>3, <2>1 DEF CabeParte, h, s
<1>8. eh + en + es + 3 \in Nat /\ eh + en + es + 3 <= max /\ eh + en + 2 <= max
  BY <1>2, <1>3 DEF h, s
<1>9. Geracao(alg, jwk, n, max, ok)
        = IF ok THEN [ret |-> eh + en + es + 3, extremo |-> eh + en + es + 3]
                ELSE [ret |-> ERR_CRIPTO, extremo |-> eh + en + 2]
  <2> HIDE DEF eh, en, es
  <2> QED
    BY <1>4, <1>5, <1>6, <1>7 DEF Geracao, h, s
<1> QED
  BY <1>8, <1>9 DEF ERR_TAMANHO_TOKEN, ERR_CRIPTO

\* What a call needs for a payload of n bytes: three parts, two dots and the terminator.
Precisa(c, n) ==
    EncodedSize(TamCabecalho(c.alg, c.jwk)) + EncodedSize(n) + EncodedSize(TamAssinatura(c.alg)) + 3

\* The calls of daf.cpp leave that room for the largest of their payloads.
LEMMA ChamadasDAFCabem ==
  ASSUME NEW c \in ChamadasDAF
  PROVE  /\ c.alg \in Algs /\ c.payload \in Nat
         /\ c.buf \in 0..3500 /\ Precisa(c, c.payload) <= c.buf
<1>1. /\ EncodedSize(27) = 36 /\ EncodedSize(160) = 214 /\ EncodedSize(202) = 270
      /\ EncodedSize(32) = 43 /\ EncodedSize(64) = 86 /\ EncodedSize(96) = 128
      /\ EncodedSize(300) = 400 /\ EncodedSize(100) = 134 /\ EncodedSize(447) = 596
  BY DEF EncodedSize
<1>2. CASE c = Chamada("HS256", FALSE, 600, 300)
  <2>1. c.alg = "HS256" /\ c.jwk = FALSE /\ c.buf = 600 /\ c.payload = 300
    BY <1>2 DEF Chamada
  <2>2. TamCabecalho(c.alg, c.jwk) = 27 /\ TamAssinatura(c.alg) = 32
    BY <2>1 DEF TamCabecalho, TamAssinatura
  <2>3. c.alg \in Algs
    BY <2>1 DEF Algs
  <2> QED
    BY <1>1, <2>1, <2>2, <2>3 DEF Precisa
<1>3. CASE c = Chamada("ES256", TRUE, 3500, 100)
  <2>1. c.alg = "ES256" /\ c.jwk = TRUE /\ c.buf = 3500 /\ c.payload = 100
    BY <1>3 DEF Chamada
  <2>2. TamCabecalho(c.alg, c.jwk) = 160 /\ TamAssinatura(c.alg) = 64
    BY <2>1 DEF TamCabecalho, TamAssinatura
  <2>3. c.alg \in Algs
    BY <2>1 DEF Algs
  <2> QED
    BY <1>1, <2>1, <2>2, <2>3 DEF Precisa
<1>4. CASE c = Chamada("ES384", TRUE, 3500, 447)
  <2>1. c.alg = "ES384" /\ c.jwk = TRUE /\ c.buf = 3500 /\ c.payload = 447
    BY <1>4 DEF Chamada
  <2>2. TamCabecalho(c.alg, c.jwk) = 202 /\ TamAssinatura(c.alg) = 96
    BY <2>1 DEF TamCabecalho, TamAssinatura
  <2>3. c.alg \in Algs
    BY <2>1 DEF Algs
  <2> QED
    BY <1>1, <2>1, <2>2, <2>3 DEF Precisa
<1>5. CASE c = Chamada("HS256", FALSE, 3500, 300)
  <2>1. c.alg = "HS256" /\ c.jwk = FALSE /\ c.buf = 3500 /\ c.payload = 300
    BY <1>5 DEF Chamada
  <2>2. TamCabecalho(c.alg, c.jwk) = 27 /\ TamAssinatura(c.alg) = 32
    BY <2>1 DEF TamCabecalho, TamAssinatura
  <2>3. c.alg \in Algs
    BY <2>1 DEF Algs
  <2> QED
    BY <1>1, <2>1, <2>2, <2>3 DEF Precisa
<1>6. CASE c = Chamada("ES256", FALSE, 3500, 100)
  <2>1. c.alg = "ES256" /\ c.jwk = FALSE /\ c.buf = 3500 /\ c.payload = 100
    BY <1>6 DEF Chamada
  <2>2. TamCabecalho(c.alg, c.jwk) = 27 /\ TamAssinatura(c.alg) = 64
    BY <2>1 DEF TamCabecalho, TamAssinatura
  <2>3. c.alg \in Algs
    BY <2>1 DEF Algs
  <2> QED
    BY <1>1, <2>1, <2>2, <2>3 DEF Precisa
<1> QED
  BY <1>2, <1>3, <1>4, <1>5, <1>6 DEF ChamadasDAF, Chamada

LEMMA PrecisaCresce ==
  ASSUME NEW c, c.alg \in Algs, c.jwk \in BOOLEAN, NEW m \in Nat, NEW n \in 0..m
  PROVE  Precisa(c, n) <= Precisa(c, m)
<1> DEFINE eh == EncodedSize(TamCabecalho(c.alg, c.jwk))
           es == EncodedSize(TamAssinatura(c.alg))
           em == EncodedSize(m)
           en == EncodedSize(n)
<1>1. eh \in Nat /\ es \in Nat
  BY TamanhoNatural DEF TamCabecalho, TamAssinatura
<1>2. em \in Nat /\ en \in 0..em
  BY TamanhoNatural, EncodedCresce
<1> HIDE DEF eh, es, em, en
<1>3. eh + en + es + 3 <= eh + em + es + 3
  BY <1>1, <1>2
<1> QED
  BY <1>3 DEF Precisa, eh, es, em, en

LEMMA PassoCabe ==
  ASSUME Chamadas \subseteq ChamadasDAF, MaxSize > 3500, CabeNasChamadas, [NextJWT]_varsJWT
  PROVE  CabeNasChamadas'
<1>1. ASSUME NEW c \in Chamadas, NEW k \in Chaves, NEW p \in Conteudos, NEW ok \in BOOLEAN,
             Gera(c, k, p, ok)
      PROVE  CabeNasChamadas'
  <2> DEFINE g == Geracao(c.alg, c.jwk, Tamanho[p], c.buf, ok)
  <2>1. Tamanho[p] \in 1..c.payload /\ Tamanho[p] \in Nat \ {0}
    BY <1>1, JWTAssumption DEF Gera, JWTAssumption
  <2>2. /\ c.alg \in Algs /\ c.jwk \in BOOLEAN /\ c.payload \in Nat
        /\ c.buf \in 0..3500 /\ Precisa(c, c.payload) <= c.buf
    BY ChamadasDAFCabem, JWTAssumption DEF JWTAssumption
  <2> DEFINE buf == c.buf
             pz  == c.payload
             n   == Tamanho[p]
  <2>3. buf \in 0..3500 /\ pz \in Nat /\ n \in 1..pz /\ Precisa(c, pz) <= buf
        /\ Precisa(c, n) \in Nat /\ Precisa(c, pz) \in Nat
    BY <2>1, <2>2, TamanhoNatural DEF Precisa, TamCabecalho, TamAssinatura
  <2> HIDE DEF buf, pz, n
  <2>4. n \in 0..pz /\ buf \in 0..(MaxSize - 1)
    BY <2>3, JWTAssumption DEF JWTAssumption
  <2>5. Precisa(c, n) <= buf
    <3>1. Precisa(c, n) <= Precisa(c, pz)
      BY <2>2, <2>3, <2>4, PrecisaCresce
    <3> QED
      BY <2>3, <3>1
  <2>6. g.ret # ERR_TAMANHO_TOKEN /\ g.extremo <= c.buf
    BY <2>1, <2>2, <2>4, <2>5, GeracaoCabe DEF Precisa, buf, n
  <2>7. geracao' = [buf |-> c.buf, ret |-> g.ret, extremo |-> g.extremo]
    BY <1>1 DEF Gera
  <2> QED
    BY <2>6, <2>7 DEF CabeNasChamadas
<1>2. CASE geracao' = NadaGerado
  BY <1>2 DEF CabeNasChamadas, NadaGerado, ERR_TAMANHO_TOKEN
<1>3. CASE UNCHANGED varsJWT
  BY <1>3 DEF varsJWT, CabeNasChamadas
<1> QED
  BY <1>1, <1>2, <1>3 DEF NextJWT, RecebeJWE, Altera, Verifica, VerificaJWE

\* No token that daf.cpp has made is written outside its buffer or finds it too small, for any
\* payload that the call admits (jwt.cpp:5-60, 168-345; daf.cpp:231, 375, 394, 689, 837, 1128).
THEOREM SempreCabe ==
  ASSUME Chamadas \subseteq ChamadasDAF, MaxSize > 3500
  PROVE  SpecJWT => []CabeNasChamadas
<1>1. InitJWT => CabeNasChamadas
  BY DEF InitJWT, CabeNasChamadas, NadaGerado, ERR_TAMANHO_TOKEN
<1>2. CabeNasChamadas /\ [NextJWT]_varsJWT => CabeNasChamadas'
  BY PassoCabe
<1> QED
  BY <1>1, <1>2, PTL DEF SpecJWT

-----------------------------------------------------------------------------
(* Verification of what the link did not touch                               *)

\* The sizes of the two directions agree.
LEMMA DecodedDeEncoded ==
  ASSUME NEW n \in Nat
  PROVE  DecodedSize(EncodedSize(n)) = n /\ (n > 0 => EncodedSize(n) > 0)
  BY DEF DecodedSize, EncodedSize

\* A part of the right size that is not garbage decodes.
LEMMA ParteDecodifica ==
  ASSUME NEW n \in Nat \ {0}, NEW max \in Nat, n <= max, NEW dado, dado # Lixo
  PROVE  /\ Parte(n, dado).sz > 0 /\ DecodedSize(Parte(n, dado).sz) = n
         /\ Parte(n, dado).dado = dado /\ Decodifica64(Parte(n, dado), max)
<1>1. Parte(n, dado).sz = EncodedSize(n) /\ Parte(n, dado).dado = dado
  BY DEF Parte
<1>2. EncodedSize(n) > 0 /\ DecodedSize(EncodedSize(n)) = n
  BY DecodedDeEncoded
<1>3. n \in 1..max
  OBVIOUS
<1> QED
  BY <1>1, <1>2, <1>3 DEF Decodifica64

\* What a verification of a token as it was generated returns.
LEMMA TokenIntacto ==
  ASSUME NEW alg \in Algs, NEW jwk \in BOOLEAN, NEW k, NEW p \in Conteudos, NEW max \in Nat,
         Tamanho[p] <= max, NEW t, t = Token(alg, jwk, k, p)
  PROVE  /\ TemCampos(t)
         /\ \A ass \in Comparadas(alg, CampoAssinatura(t)) :
                RetVerifica(alg, k, t, max, ass) = Tamanho[p]
<1> DEFINE cab  == Cabecalho(alg, jwk)
           cont == Conteudo(p)
           msg  == <<cab, cont>>
           s    == TamAssinatura(alg)
           ass  == Parte(s, Assinatura(k, msg))
<1>1. Tamanho[p] \in Nat \ {0} /\ TamCabecalho(alg, jwk) \in Nat \ {0} /\ s \in Nat \ {0}
  BY JWTAssumption DEF JWTAssumption, TamCabecalho, TamAssinatura
<1>2. t = <<cab, cont, ass>>
  BY DEF Token
<1>3. Assinatura(k, msg) # Lixo /\ <<p, Tamanho[p], "conteudo">> # Lixo
      /\ <<alg, jwk, "cabecalho">> # Lixo
  BY DEF Assinatura, Lixo
<1>4. ass.sz > 0 /\ DecodedSize(ass.sz) = s /\ ass.dado = Assinatura(k, msg) /\ Decodifica64(ass, s)
  BY <1>1, <1>3, ParteDecodifica
<1>5. cont.sz > 0 /\ DecodedSize(cont.sz) = Tamanho[p] /\ Decodifica64(cont, max)
  BY <1>1, <1>3, ParteDecodifica DEF Conteudo
<1>6. cab.sz > 0
  BY <1>1, <1>3, ParteDecodifica DEF Cabecalho
<1> HIDE DEF cab, cont, ass, s
<1>7. Len(t) = 3 /\ t[1] = cab /\ t[2] = cont /\ Ultimo(t, 3) = ass
  BY <1>2 DEF Ultimo
<1>8. TemCampos(t) /\ CampoAssinatura(t) = ass /\ Mensagem(t) = msg
  BY <1>4, <1>5, <1>6, <1>7 DEF TemCampos, CampoAssinatura, Mensagem
<1>9. Comparadas(alg, ass) = {Assinatura(k, msg)}
  BY <1>4 DEF Comparadas, s
<1>10. ~(alg = "HS256" /\ ~(Decodifica64(ass, 32) /\ DecodedSize(ass.sz) = 32))
  BY <1>4 DEF s, TamAssinatura
<1>11. RetVerifica(alg, k, t, max, Assinatura(k, msg)) = Tamanho[p]
  <2>1. Confere(Assinatura(k, msg), k, Mensagem(t))
    BY <1>8 DEF Confere
  <2> QED
    BY <1>5, <1>7, <1>8, <1>10, <2>1 DEF RetVerifica
<1> QED
  BY <1>8, <1>9, <1>11

\* A token that nobody touched is accepted by a verification with its key and gives back its
\* payload, and the token of the SEF key gives the whole key: generation and verification
\* agree, for any payloads and any key (jwt.cpp:5-432).
THEOREM IntactoSempreAceito == SpecJWT => IntactoAceito
<1> DEFINE
      Pronto(v) == /\ \A c \in Chamadas, k \in Chaves, p \in Conteudos :
                          v.alg = c.alg /\ v.k = k /\ v.t = Token(c.alg, c.jwk, k, p)
                              /\ v.max >= Tamanho[p] => v.ret = Tamanho[p]
                   /\ v.alg = "JWE" /\ v.t = TokenJWE => v.ret = TamChaveSEF
<1>1. ASSUME [NextJWT]_varsJWT, verificacao' # verificacao PROVE Pronto(verificacao')
  <2>1. CASE verificacao' = NadaVerificado
    <3>1. \A alg, jwk, k, p : Token(alg, jwk, k, p) # <<>>
      BY DEF Token
    <3> QED
      BY <2>1, <3>1 DEF NadaVerificado
  <2>2. ASSUME NEW alg \in Algs, NEW k \in Chaves, NEW t \in tokens, NEW max \in Maximos,
               Verifica(alg, k, t, max)
        PROVE  Pronto(verificacao')
    <3>1. PICK ass \in IF TemCampos(t) THEN Comparadas(alg, CampoAssinatura(t)) ELSE {Lixo} :
              verificacao' = [alg |-> alg, k |-> k, t |-> t, max |-> max,
                              ret |-> RetVerifica(alg, k, t, max, ass)]
      BY <2>2 DEF Verifica
    <3>2. max \in Nat /\ alg # "JWE"
      BY JWTAssumption DEF JWTAssumption, Algs
    <3>3. ASSUME NEW c \in Chamadas, NEW p \in Conteudos, alg = c.alg,
                 t = Token(c.alg, c.jwk, k, p), max >= Tamanho[p]
          PROVE  RetVerifica(alg, k, t, max, ass) = Tamanho[p]
      <4>1. c.jwk \in BOOLEAN /\ Tamanho[p] \in Nat /\ t = Token(alg, c.jwk, k, p)
        BY <3>3, JWTAssumption DEF JWTAssumption
      <4>2. Tamanho[p] <= max
        BY <3>2, <3>3, <4>1
      <4> QED
        BY <3>1, <3>2, <4>1, <4>2, TokenIntacto
    <3> QED
      BY <3>1, <3>2, <3>3
  <2>3. ASSUME NEW t \in tokens, VerificaJWE(t) PROVE Pronto(verificacao')
    <3>1. verificacao'.alg = "JWE" /\ verificacao'.t = t
      BY <2>3 DEF VerificaJWE
    <3>2. \A c \in Chamadas : c.alg # "JWE"
      BY JWTAssumption DEF JWTAssumption, Algs
    <3>3. ASSUME t = TokenJWE PROVE verificacao'.ret = TamChaveSEF
      <4>1. <<"chave", 64, "jwe">> # Lixo /\ <<"iv", 16, "jwe">> # Lixo
            /\ <<"HS256", FALSE, "cabecalho">> # Lixo
        BY DEF Lixo
      <4> DEFINE chave == Parte(64, <<"chave", 64, "jwe">>)
      <4>2. Decodifica64(chave, 64) /\ DecodedSize(chave.sz) = 64
        BY <4>1, ParteDecodifica
      <4>3. Miolo.sz > 0
        BY <4>1, ParteDecodifica DEF Miolo
      <4>4. Cabecalho("HS256", FALSE).sz > 0
        <5>1. TamCabecalho("HS256", FALSE) = 27
          BY DEF TamCabecalho
        <5> DEFINE d   == <<"HS256", FALSE, "cabecalho">>
                   cab == Cabecalho("HS256", FALSE)
        <5>2. cab = Parte(27, d)
          BY <5>1 DEF Cabecalho
        <5> HIDE DEF d, cab
        <5>3. EncodedSize(27) > 0
          BY DecodedDeEncoded
        <5>4. cab.sz > 0
          BY <5>2, <5>3 DEF Parte
        <5> QED
          BY <5>4 DEF cab
      <4> HIDE DEF chave
      <4>5. t = <<Cabecalho("HS256", FALSE), Vazia, Miolo, chave, Miolo>>
        BY <3>3 DEF TokenJWE, chave
      <4>6. TemCamposJWE(t) /\ t[4] = chave
        <5> DEFINE cab == Cabecalho("HS256", FALSE)
        <5> HIDE DEF cab
        <5>1. Len(t) = 5 /\ t[1] = cab /\ t[3] = Miolo /\ t[4] = chave /\ t[5] = Miolo
          BY <4>5 DEF cab
        <5>2. Ultimo(t, 5) = Miolo
          BY <5>1 DEF Ultimo
        <5>3. cab.sz > 0
          BY <4>4 DEF cab
        <5> QED
          BY <4>3, <5>1, <5>2, <5>3 DEF TemCamposJWE
      <4> QED
        BY <2>3, <4>2, <4>6 DEF VerificaJWE, TamChaveSEF
    <3> QED
      BY <3>1, <3>2, <3>3
  <2>4. CASE UNCHANGED varsJWT
    BY <1>1, <2>4 DEF varsJWT
  <2> HIDE DEF Pronto
  <2> QED
    BY <1>1, <2>1, <2>2, <2>3, <2>4 DEF NextJWT, Gera, RecebeJWE, Altera
<1>2. [NextJWT]_varsJWT => [verificacao' # verificacao => Pronto(verificacao')]_varsJWT
  BY <1>1
<1> QED
  BY <1>2, PTL DEF SpecJWT, IntactoAceito

=============================================================================
