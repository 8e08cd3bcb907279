SPECIFICATION Spec
CONSTANTS
    NSetores = 4
    MaxDFEModel = 2
    ModNum = 8
    Auts <- MCAuts5
    Ruido <- MCRuido
CHECK_DEADLOCK TRUE
INVARIANTS
    TypeOK
    ContagemDeSetores
    RemocaoEfetiva
PROPERTIES
    ImplementaConjunto
