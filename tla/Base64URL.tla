------------------------------- MODULE Base64URL -------------------------------
(***************************************************************************)
(* Base64URL (src/src/utils/base64url/base64url.cpp): one call of encode   *)
(* or decode, a block of the loop at each step, with what each step leaves *)
(* in the output buffer.  A caller encodes some bytes into a buffer, and   *)
(* decodes what came out, or decodes a text it received.                   *)
(***************************************************************************)
EXTENDS TamanhosB64, Sequences

CONSTANTS
    Entradas, \* sequences of bytes that are encoded
    Textos,   \* sequences of character codes that are decoded
    Saidas    \* sizes of the output buffers (out_sz)

ASSUME Base64Assumption ==
    /\ Entradas \subseteq Seq(0..255)
    /\ Textos \subseteq Seq(0..255)
    /\ Saidas \subseteq Nat

VARIABLES
    etapa,   \* "codifica", "codificado", "decodifica" or "fim"
    dados,   \* in, of encode
    texto,   \* out of encode, in of decode, without the terminator
    bytes,   \* out of decode
    pos,       \* characters or bytes of the input already used
    outSz,   \* out_sz of the call
    ret,     \* what the last call returned
    extremo  \* positions of the output buffer written, up to the last one

varsB64 == <<etapa, dados, texto, bytes, pos, outSz, ret, extremo>>

TipoB64 ==
    /\ etapa \in {"codifica", "codificado", "decodifica", "fim"}
    /\ dados \in Seq(0..255) /\ texto \in Seq(0..255) /\ bytes \in Seq(0..255)
    /\ pos \in Nat /\ outSz \in Nat /\ ret \in Nat /\ extremo \in Nat

-----------------------------------------------------------------------------
\* b64chars: the character of six bits
B64Char(v) ==
    CASE v < 26 -> 65 + v
      [] v \in 26..51 -> 97 + (v - 26)
      [] v \in 52..61 -> 48 + (v - 52)
      [] v = 62 -> 45
      [] OTHER -> 95

\* b64_isvalidchar
ValidChar(c) == c \in (48..57) \cup (65..90) \cup (97..122) \cup {45, 95}

\* mutant: the minus and the underscore are swapped
B64InvMut(c) ==
    CASE c \in 65..90 -> c - 65
      [] c \in 97..122 -> c - 97 + 26
      [] c \in 48..57 -> c - 48 + 52
      [] c = 95 -> 62
      [] OTHER -> 63

\* b64urlinvs, of a valid character
B64Inv(c) ==
    CASE c \in 65..90 -> c - 65
      [] c \in 97..122 -> c - 97 + 26
      [] c \in 48..57 -> c - 48 + 52
      [] c = 45 -> 62
      [] OTHER -> 63

Menor(a, b) == IF a <= b THEN a ELSE b

\* The characters of the block that begins at pos: one more than it has bytes.
BlocoCodificado ==
    LET byte(k) == IF k <= Len(dados) THEN dados[k] ELSE 0
        v == byte(pos + 1) * 65536 + byte(pos + 2) * 256 + byte(pos + 3)
        peso == <<262144, 4096, 64, 1>>
    IN  [k \in 1..(Menor(3, Len(dados) - pos) + 1) |-> B64Char((v \div peso[k]) % 64)]

\* The bytes of the block that begins at pos; a block of one character gives one byte.
BlocoDecodificado ==
    LET inv(k) == B64Inv(texto[pos + k])
        k == Menor(4, Len(texto) - pos)
    IN  CASE k = 1 -> <<inv(1)>>
          [] k = 2 -> <<(inv(1) * 64 + inv(2)) \div 16>>
          [] k = 3 -> LET v == inv(1) * 4096 + inv(2) * 64 + inv(3)
                      IN  <<v \div 1024, (v \div 4) % 256>>
          [] OTHER -> LET v == inv(1) * 262144 + inv(2) * 4096 + inv(3) * 64 + inv(4)
                      IN  <<v \div 65536, (v \div 256) % 256, v % 256>>

-----------------------------------------------------------------------------
\* b64url_encode

RecusaCodificar == EncodedSize(Len(dados)) > outSz \/ Len(dados) = 0

Codifica ==
    /\ etapa = "codifica" /\ RecusaCodificar
    /\ ret' = 0 /\ etapa' = "fim"
    /\ UNCHANGED <<dados, texto, bytes, pos, outSz, extremo>>

CodificaBloco ==
    /\ etapa = "codifica" /\ ~RecusaCodificar /\ pos < Len(dados)
    /\ texto' = texto \o BlocoCodificado
    /\ pos' = pos + 3
    /\ extremo' = Len(texto')
    /\ UNCHANGED <<etapa, dados, bytes, outSz, ret>>

\* mutant: the terminator one position later
TerminaMut ==
    /\ etapa = "codifica" /\ ~RecusaCodificar /\ pos >= Len(dados)
    /\ ret' = EncodedSize(Len(dados))
    /\ extremo' = ret' + 2
    /\ etapa' = "codificado"
    /\ UNCHANGED <<dados, texto, bytes, pos, outSz>>

\* The terminator, wherever the text ends.
Termina ==
    /\ etapa = "codifica" /\ ~RecusaCodificar /\ pos >= Len(dados)
    /\ ret' = EncodedSize(Len(dados))
    /\ extremo' = ret' + 1
    /\ etapa' = "codificado"
    /\ UNCHANGED <<dados, texto, bytes, pos, outSz>>

-----------------------------------------------------------------------------
\* b64url_decode

\* The caller decodes what encode returned, into a buffer of n bytes.
ChamaDecode(n) ==
    /\ etapa = "codificado" /\ etapa' = "decodifica"
    /\ pos' = 0 /\ outSz' = n /\ ret' = 0 /\ extremo' = 0 /\ bytes' = <<>>
    /\ UNCHANGED <<dados, texto>>

RecusaDecodificar ==
    \/ DecodedSize(Len(texto)) > outSz
    \/ Len(texto) = 0
    \/ \E k \in 1..Len(texto) : ~ValidChar(texto[k])

Decodifica ==
    /\ etapa = "decodifica" /\ RecusaDecodificar
    /\ ret' = 0 /\ etapa' = "fim"
    /\ UNCHANGED <<dados, texto, bytes, pos, outSz, extremo>>

DecodificaBloco ==
    /\ etapa = "decodifica" /\ ~RecusaDecodificar /\ pos < Len(texto)
    /\ bytes' = bytes \o BlocoDecodificado
    /\ pos' = pos + 4
    /\ extremo' = Len(bytes')
    /\ UNCHANGED <<etapa, dados, texto, outSz, ret>>

Conclui ==
    /\ etapa = "decodifica" /\ ~RecusaDecodificar /\ pos >= Len(texto)
    /\ ret' = DecodedSize(Len(texto)) /\ etapa' = "fim"
    /\ UNCHANGED <<dados, texto, bytes, pos, outSz, extremo>>

-----------------------------------------------------------------------------
InitB64 ==
    /\ bytes = <<>> /\ pos = 0 /\ ret = 0 /\ extremo = 0 /\ outSz \in Saidas
    /\ \/ etapa = "codifica" /\ dados \in Entradas /\ texto = <<>>
       \/ etapa = "decodifica" /\ dados = <<>> /\ texto \in Textos

NextB64 ==
    \/ Codifica \/ CodificaBloco \/ Termina
    \/ \E n \in Saidas : ChamaDecode(n)
    \/ Decodifica \/ DecodificaBloco \/ Conclui

SpecB64 == InitB64 /\ [][NextB64]_varsB64

-----------------------------------------------------------------------------
\* What was encoded is decoded to the same bytes and to their number, whatever the length
\* and the bits left over in the last block, if both buffers have room.
IdaEVolta ==
    etapa = "fim" /\ dados # <<>> /\ texto # <<>> /\ DecodedSize(Len(texto)) <= outSz
        => bytes = dados /\ ret = Len(dados)

\* Nothing is written outside the output buffer, except where the size that the code
\* checks says less than it writes: encode with a buffer of exactly the encoded size, which
\* is the size b64url_encode returns (base64url.h:16), and a text whose last block has one
\* character ("6 bits, teoricamente invalido", base64url.cpp:112).
EscritaDentro ==
    \/ extremo <= outSz
    \/ etapa = "codificado" /\ outSz = EncodedSize(Len(dados)) /\ extremo = outSz + 1
    \/ etapa \in {"decodifica", "fim"} /\ Len(texto) % 4 = 1 /\ extremo <= outSz + 1

=============================================================================
