SPECIFICATION SpecCortes
CONSTANTS
    MaxDFE = 1
    MaxDFEModel = 1
    LimContador = 4
    LimCortes = 2
    NSetores = 3
    ModNum = 4
    Ruido = ruido
    Modos = {0}
    ChavesSEF = {ks1}
    ChavesPAF = {kp1}
    ChavesDAF = {kd1}
    ChavesCert = {kc1}
    CertFabrica = kc1
    ChaveZero = zero
    Nonces = {n1}
    Resumos = {h1, h2}
VIEW Visao
SYMMETRY SimetriaCortes
INVARIANTS
    NumeracaoUnica
