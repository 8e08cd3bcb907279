SPECIFICATION Spec
CONSTANTS
    Base = 4
    Mensagens <- MCMensagens
    LimQuadros = 2
    LimUsb = 12
    Lote = 12
    NTimers = 2
    Ambientes <- MCPontual
CHECK_DEADLOCK TRUE
INVARIANTS
    TamanhoDaMensagemRecebida
