SPECIFICATION SpecApoio
CONSTANTS
    BufferSize = 10240
    JwtMax = 3500
    Autorizacao = 3052
    Payloads = {3500}
    TokensHS = {483}
    TokensDAF = {557}
    TokensFinais = {1289}
    Fragmentos = {2860}
    a = a
    b = b
    Nenhum = nulo
    Callbacks = {a, b}
    Timeout <- MCTimeout
    MaxSlots = 3
    ModSize = 4
    LimMs = 3
    LimPend = 2
    LoteUsb = 1
    Entradas <- MCEntradas
    Textos <- MCTextos
    Saidas = {0, 1, 2, 3, 4, 6, 7}
    p = p
    q = q
    k1 = k1
    k2 = k2
    Chaves = {k1, k2}
    Conteudos = {p, q}
    Tamanho <- MCTamanho
    Chamadas <- MCChamadas
    Maximos = {300}
    LimTokens = 3
    MaxSize = 65536
CHECK_DEADLOCK FALSE
INVARIANTS
    TudoSeparado
