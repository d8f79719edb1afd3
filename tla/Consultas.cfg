SPECIFICATION MCSpec
CONSTANTS
    u1 = u1 g1 = g1 g2 = g2 c1 = c1 c2 = c2 c3 = c3 d1 = d1 d2 = d2 l1 = l1 l2 = l2
    NaN = NaN
    Unidades = {u1}
    Geracoes = {g1, g2}
    Confirmacoes = {c1, c2, c3}
    Despesas = {d1, d2}
    MesDe <- MCMesDe
    BoletoDe <- MCBoletoDe
    ReferenciaDe <- MCReferenciaDe
    Leitores = {l1, l2}
    Relatorios = {r1}
    UnidadeDe <- MCUnidadeDe
    Meses <- MCMeses
    LimiteMeses = 3
    TTL = 2
    MaxMes = 2
\* The reports are done and the tables full.
CHECK_DEADLOCK FALSE
INVARIANTS
    DefasagemLimitada
    NuncaDuasVezes
    SerieFiel
PROPERTIES
    AcabaAtual
