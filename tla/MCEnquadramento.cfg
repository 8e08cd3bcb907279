SPECIFICATION SpecJusta
CONSTANTS
    Base = 4
    Mensagens <- MCMensagens
    LimQuadros = 3
    LimUsb = 12
    Lote = 12
    NTimers = 2
    Ambientes <- MCAmbientes
CHECK_DEADLOCK TRUE
INVARIANTS
    TypeOK
    QuadrosFieis
    SemVazamento
PROPERTIES
    QuadrosChegam
    VoltaAoRepouso
