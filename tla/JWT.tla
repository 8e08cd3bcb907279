---------------------------------- MODULE JWT ----------------------------------
(***************************************************************************)
(* The tokens (src/src/utils/jwt/jwt.cpp), as the parts between their dots. *)
(* A part has a number of characters and what they decode to.  A signature *)
(* is the pair of the key and of the message: nobody makes one without the *)
(* key.  Generation is modelled with the position of every byte it writes, *)
(* verification with the tokens that come back: those generated and what   *)
(* the link makes of them.                                                 *)
(***************************************************************************)
EXTENDS TamanhosB64, Sequences, FiniteSets

CONSTANTS
    Chaves,    \* pairs of keys, or the SEF key
    Conteudos, \* payloads
    Tamanho,   \* bytes of each payload
    Chamadas,  \* the calls of daf.cpp: algorithm, JWK, buffer, largest payload
    Maximos,   \* payload_max_sz of the calls that verify
    LimTokens, \* bound of the model: tokens in circulation
    MaxSize    \* values of size_t (2^32 in the code)

Algs == {"HS256", "ES256", "ES384"}

ASSUME JWTAssumption ==
    /\ Tamanho \in [Conteudos -> Nat \ {0}] /\ Maximos \subseteq Nat
    /\ LimTokens \in Nat /\ MaxSize \in Nat \ {0}
    /\ \A c \in Chamadas : c.alg \in Algs /\ c.jwk \in BOOLEAN /\ c.buf \in Nat /\ c.payload \in Nat

Chamada(alg, jwk, buf, payload) == [alg |-> alg, jwk |-> jwk, buf |-> buf, payload |-> payload]

\* The calls of daf.cpp, with the size of the buffer for the token and the largest payload:
\* AlterarModo (231), the two tokens of RegistrarDAF (375, 394: the second holds the first),
\* AutorizarDFE and DescarregarRetidos (689, 1128), RemoverRegistro (837).
ChamadasDAF ==
    {Chamada("HS256", FALSE, 600, 300), Chamada("ES256", TRUE, 3500, 100),
     Chamada("ES384", TRUE, 3500, 447), Chamada("HS256", FALSE, 3500, 300),
     Chamada("ES256", FALSE, 3500, 100)}

\* ERR_CODE.  All are negative; what they are called matters to the handlers only.
Erros == {-1, -2, -3, -4, -5}
ERR_BASE64        == -1
ERR_ASSINATURA    == -2
ERR_TAMANHO_TOKEN == -3
ERR_CRIPTO        == -4

\* What does not decode, or was never written by anyone.
Lixo == <<"lixo">>

VARIABLES
    tokens,     \* tokens in circulation, as sequences of parts
    assinados,  \* history: pairs of key and message that were signed
    geracao,    \* the last generation: the call, what it returned and wrote
    verificacao \* the last verification: the call, what it returned and its payload

varsJWT == <<tokens, assinados, geracao, verificacao>>

NadaGerado == [buf |-> 0, ret |-> 0, extremo |-> 0]
NadaVerificado == [alg |-> "HS256", k |-> Lixo, t |-> <<>>, max |-> 0, ret |-> 0]

-----------------------------------------------------------------------------
\* Parts of a token

\* An encoded part of n bytes.
Parte(n, dado) == [sz |-> EncodedSize(n), dado |-> dado]

\* Bytes of a header, with the public key in it or not.
TamCabecalho(alg, jwk) ==
    CASE alg = "ES256" /\ jwk -> 160
      [] alg = "ES384" /\ jwk -> 202
      [] OTHER -> 27

\* Bytes of a signature: HMAC-SHA256, r and s of P-256, r and s of P-384.
TamAssinatura(alg) == CASE alg = "HS256" -> 32 [] alg = "ES256" -> 64 [] OTHER -> 96

\* gera_assinatura_ECC and gera_HMAC_SHA256, of the header, its dot and the payload.
Assinatura(k, msg) == <<k, msg>>

\* mutant: the key is not looked at
ConfereMut(ass, k, msg) == ass # Lixo /\ ass[2] = msg

\* verifica_assinatura_ECC and verifica_HMAC_SHA256 return 0.
Confere(ass, k, msg) == ass = Assinatura(k, msg)

-----------------------------------------------------------------------------
\* geraTokenHS256, geraTokenES256 and geraTokenES384

\* What b64url_encode leaves when n bytes are encoded at pos of a buffer of max characters,
\* of which the caller believes that it has the rest: the position after the text and
\* its dot, and the positions written.  size_t wraps.
Resto(pos, max) == (max - pos) % MaxSize
CabeParte(pos, n, max) == n > 0 /\ EncodedSize(n) <= Resto(pos, max)
Depois(pos, n) == pos + EncodedSize(n) + 1

\* The three parts one after the other; the last terminator is counted.  The library may
\* fail to sign (ok).
Geracao(alg, jwk, n, max, ok) ==
    LET h == TamCabecalho(alg, jwk)
        p1 == Depois(0, h)
        p2 == Depois(p1, n)
        p3 == Depois(p2, TamAssinatura(alg))
    IN  CASE ~CabeParte(0, h, max) -> [ret |-> ERR_TAMANHO_TOKEN, extremo |-> 0]
          [] CabeParte(0, h, max) /\ ~CabeParte(p1, n, max) ->
                [ret |-> ERR_TAMANHO_TOKEN, extremo |-> p1]
          [] CabeParte(0, h, max) /\ CabeParte(p1, n, max) /\ ~ok ->
                [ret |-> ERR_CRIPTO, extremo |-> p2]
          [] OTHER -> IF CabeParte(p2, TamAssinatura(alg), max)
                      THEN [ret |-> p3, extremo |-> p3]
                      ELSE [ret |-> ERR_TAMANHO_TOKEN, extremo |-> p2]

Mensagem(t) == <<t[1], t[2]>>

Cabecalho(alg, jwk) == Parte(TamCabecalho(alg, jwk), <<alg, jwk, "cabecalho">>)
Conteudo(p) == Parte(Tamanho[p], <<p, Tamanho[p], "conteudo">>)

Token(alg, jwk, k, p) ==
    LET cab == Cabecalho(alg, jwk)
        msg == <<cab, Conteudo(p)>>
    IN  <<cab, Conteudo(p), Parte(TamAssinatura(alg), Assinatura(k, msg))>>

\* One of the calls of daf.cpp.
Gera(c, k, p, ok) ==
    LET g == Geracao(c.alg, c.jwk, Tamanho[p], c.buf, ok)
        t == Token(c.alg, c.jwk, k, p)
    IN  /\ Tamanho[p] \in 1..c.payload
        /\ Cardinality(tokens) < LimTokens
        /\ tokens' = IF g.ret > 0 THEN tokens \cup {t} ELSE tokens
        /\ assinados' = IF g.ret > 0 THEN assinados \cup {<<k, Mensagem(t)>>} ELSE assinados
        /\ geracao' = [buf |-> c.buf, ret |-> g.ret, extremo |-> g.extremo]
        /\ verificacao' = NadaVerificado

-----------------------------------------------------------------------------
\* What comes back: external

\* The token that the SEF makes: header, no encrypted key, iv, the key, tag.
Vazia == [sz |-> 0, dado |-> Lixo]
Miolo == Parte(16, <<"iv", 16, "jwe">>)
TokenJWE == <<Cabecalho("HS256", FALSE), Vazia, Miolo, Parte(64, <<"chave", 64, "jwe">>), Miolo>>

RecebeJWE ==
    /\ Cardinality(tokens) < LimTokens /\ tokens' = tokens \cup {TokenJWE}
    /\ geracao' = NadaGerado /\ verificacao' = NadaVerificado /\ UNCHANGED assinados

\* A token with a part of another, or cut, or with a part of another after it, or with a
\* part that is not Base64URL.
Altera(t, u, k) ==
    /\ Cardinality(tokens) < LimTokens
    /\ \E novo \in {[t EXCEPT ![k] = u[k]], SubSeq(t, 1, k), Append(t, u[k]),
                    [t EXCEPT ![k] = [sz |-> t[k].sz, dado |-> Lixo]]} :
           tokens' = tokens \cup {novo}
    /\ geracao' = NadaGerado /\ verificacao' = NadaVerificado /\ UNCHANGED assinados

-----------------------------------------------------------------------------
\* verificaTokenHS256, verificaTokenES256 and verificaTokenES384

\* The last field of a token is all that is left: not Base64URL if there is a dot in it.
Ultimo(t, n) ==
    IF Len(t) = n THEN t[n] ELSE [sz |-> t[n].sz + 1 + t[n + 1].sz, dado |-> Lixo]

\* getParametrosToken: three fields, none empty.  That the sizes add up, which the callers
\* check again, follows.
TemCampos(t) == Len(t) >= 3 /\ t[1].sz > 0 /\ t[2].sz > 0 /\ Ultimo(t, 3).sz > 0

CampoAssinatura(t) == Ultimo(t, 3)

Decodifica64(campo, max) == campo.dado # Lixo /\ DecodedSize(campo.sz) \in 1..max

\* The bytes that are compared: those decoded, if they fill the buffer.  ES256 and ES384 do
\* not look at what b64url_decode returned: the buffer, or the end of it, is then what
\* the stack held, maybe the signature of an earlier token.
Comparadas(alg, campo) ==
    IF Decodifica64(campo, TamAssinatura(alg)) /\ DecodedSize(campo.sz) = TamAssinatura(alg)
    THEN {campo.dado}
    ELSE {Lixo} \cup {Assinatura(a[1], a[2]) : a \in assinados}

\* mutant: the signature of HS256 has to decode to the size of its characters
RetVerificaMut(alg, k, t, max, ass) ==
    CASE ~TemCampos(t) -> ERR_TAMANHO_TOKEN
      [] TemCampos(t) /\ alg = "HS256" /\ CampoAssinatura(t).sz # 32 -> ERR_BASE64
      [] OTHER -> IF ~Confere(ass, k, Mensagem(t)) THEN ERR_ASSINATURA
                  ELSE IF Decodifica64(t[2], max) THEN DecodedSize(t[2].sz) ELSE 0

\* What the verification returns when the bytes compared are ass.
RetVerifica(alg, k, t, max, ass) ==
    CASE ~TemCampos(t) -> ERR_TAMANHO_TOKEN
      [] TemCampos(t) /\ alg = "HS256"
             /\ ~(Decodifica64(CampoAssinatura(t), 32) /\ DecodedSize(CampoAssinatura(t).sz) = 32)
            -> ERR_BASE64
      [] OTHER -> IF ~Confere(ass, k, Mensagem(t)) THEN ERR_ASSINATURA
                  ELSE IF Decodifica64(t[2], max) THEN DecodedSize(t[2].sz) ELSE 0

Verifica(alg, k, t, max) ==
    /\ \E ass \in IF TemCampos(t) THEN Comparadas(alg, CampoAssinatura(t)) ELSE {Lixo} :
           verificacao' = [alg |-> alg, k |-> k, t |-> t, max |-> max,
                           ret |-> RetVerifica(alg, k, t, max, ass)]
    /\ geracao' = NadaGerado /\ UNCHANGED <<tokens, assinados>>

\* getParametrosTokenJWE: five fields, of which the header, the iv and the tag are not empty.
TemCamposJWE(t) == Len(t) >= 5 /\ t[1].sz > 0 /\ t[3].sz > 0 /\ Ultimo(t, 5).sz > 0

\* Bytes of chave_SEF_t, where the only call stores the key (daf.cpp:469).
TamChaveSEF == 64

\* verificaTokenJWE, as the number of bytes of the key that it stores, 0 when it refuses.
\* The private key is not used, and a key of fewer bytes than the buffer is accepted.
VerificaJWE(t) ==
    /\ verificacao' = [alg |-> "JWE", k |-> Lixo, t |-> t, max |-> TamChaveSEF,
                       ret |-> IF TemCamposJWE(t) /\ Decodifica64(t[4], TamChaveSEF)
                               THEN DecodedSize(t[4].sz) ELSE 0]
    /\ geracao' = NadaGerado /\ UNCHANGED <<tokens, assinados>>

-----------------------------------------------------------------------------
InitJWT ==
    /\ tokens = {} /\ assinados = {}
    /\ geracao = NadaGerado /\ verificacao = NadaVerificado

NextJWT ==
    \/ \E c \in Chamadas, k \in Chaves, p \in Conteudos, ok \in BOOLEAN : Gera(c, k, p, ok)
    \/ RecebeJWE
    \/ \E t, u \in tokens : \E k \in 1..Len(t) : k <= Len(u) /\ Altera(t, u, k)
    \/ \E alg \in Algs, k \in Chaves, t \in tokens, max \in Maximos : Verifica(alg, k, t, max)
    \/ \E t \in tokens : VerificaJWE(t)

SpecJWT == InitJWT /\ [][NextJWT]_varsJWT

-----------------------------------------------------------------------------
TipoJWT ==
    /\ \A t \in tokens : \A k \in 1..Len(t) : t[k].sz \in Nat
    /\ \A a \in assinados : a[1] \in Chaves
    /\ geracao.ret \in Erros \cup Nat /\ verificacao.ret \in Erros \cup Nat

\* A verification that succeeds, with a key, returns the payload of a token that was signed
\* with that key, header and payload together: also when ES256 and ES384 verify what
\* the stack held, and whatever the link made of the token (jwt.cpp:62-166).
Autentico ==
    verificacao.ret > 0 /\ verificacao.alg # "JWE"
        => <<verificacao.k, Mensagem(verificacao.t)>> \in assinados

\* A token that the link did not touch is accepted with its key, and gives back its payload if
\* the caller has room for it: generation and verification agree on the parts, the sizes
\* and what is signed (jwt.cpp:5-345).  So is the token in which the SEF key comes, which
\* has no encrypted key, and the key is stored whole (jwt.cpp:348-432).
IntactoAceito ==
    [][LET v == verificacao' IN v # verificacao =>
       /\ \A c \in Chamadas, k \in Chaves, p \in Conteudos :
              v.alg = c.alg /\ v.k = k /\ v.t = Token(c.alg, c.jwk, k, p) /\ v.max >= Tamanho[p]
                  => v.ret = Tamanho[p]
       /\ v.alg = "JWE" /\ v.t = TokenJWE => v.ret = TamChaveSEF]_varsJWT

\* The calls of daf.cpp give every token the room it needs: none writes outside its buffer,
\* or fails for want of room, although the room left, max - pos, is a size_t that would
\* wrap, and although two of the calls (daf.cpp:689, 1128) ignore what was returned.
CabeNasChamadas ==
    geracao.ret # ERR_TAMANHO_TOKEN /\ geracao.extremo <= geracao.buf

=============================================================================
