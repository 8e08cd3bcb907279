SPECIFICATION SpecJusta
CONSTANTS
    NPedidos = 3
    LimCanal = 2
    TENTATIVAS_MAX = 3
    Timers = {t1, t2}
    SemTimer = nenhum
CHECK_DEADLOCK TRUE
INVARIANTS
    TypeOK
    RespostaUmaVez
    RespostaConfirmadaChegou
    EsperaVigiada
PROPERTIES
    ImplementaEntrega
    EsperaTermina
