SPECIFICATION Spec
CONSTANTS
    u1 = u1
    u2 = u2
    g1 = g1
    g2 = g2
    w1 = w1
    w2 = w2
    Unidades = {u1, u2}
    Geracoes = {g1, g2}
    Webhooks = {w1, w2}
    ComTenant = {u1}
    MaxFalhas = 2
\* Every call may have ended.
CHECK_DEADLOCK FALSE
INVARIANTS
    RespostaDuravel
    DuplicataSoSobreposta
    TotalConfere
    NadaSemAnuncio
    NenhumaUnidadeEsquecida
    ReplayEmQualquerOrdem
PROPERTIES
    ImplementaCiclo
