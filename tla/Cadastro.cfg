SPECIFICATION Spec
CONSTANTS
    r1 = r1
    r2 = r2
    k1 = k1
    k2 = k2
    e1 = e1
    e2 = e2
    c1 = c1
    c2 = c2
    s1 = s1
    s2 = s2
    Registros = {r1, r2}
    Cnpjs = {k1, k2}
    Emails = {e1, e2}
    Criacoes = {c1, c2}
    Sessoes = {s1, s2}
    MaxFalhas = 2
\* Every call may have been answered.
CHECK_DEADLOCK FALSE
SYMMETRY Simetria
INVARIANTS
    CnpjUnico
    RecusaVerdadeira
    TrancadoSoComFalhas
    SemPapelExplicado
    EmailRepetidoSoComCorrida
    RegistroInteiro
