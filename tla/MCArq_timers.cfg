SPECIFICATION Spec
CONSTANTS
    NPedidos = 3
    LimCanal = 2
    TENTATIVAS_MAX = 3
    Timers = {t1, t2}
    SemTimer = nenhum
SYMMETRY Simetria
CHECK_DEADLOCK TRUE
INVARIANTS
    EsperaTemTimer
