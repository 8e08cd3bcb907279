SPECIFICATION SpecQueda
CONSTANTS
    NSetores = 3
    MaxDFEModel = 2
    ModNum = 8
    Auts <- MCAuts
    Ruido <- MCRuido
CHECK_DEADLOCK TRUE
INVARIANTS
    Duravel
    RecusaJustificada
