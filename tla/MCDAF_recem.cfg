SPECIFICATION SpecQueda
CONSTANTS
    MaxDFE = 2
    MaxDFEModel = 2
    LimContador = 3
    ChavesSEF = {ks1, ks2}
    ChavesPAF = {kp1}
    ChavesDAF = {kd1}
    ChavesCert = {kc1, kc2}
    CertFabrica = kc1
    ChaveZero = zero
    Modos = {0, 1}
    Nonces = {n1, n2}
    Resumos = {h1, h2, h3}
SYMMETRY Simetria
CHECK_DEADLOCK TRUE
INVARIANTS
    FabricaSemProcesso
