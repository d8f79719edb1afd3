SPECIFICATION Spec
CONSTANTS
    u1 = u1
    g1 = g1
    w1 = w1
    w2 = w2
    Unidades = {u1}
    Geracoes = {g1}
    Webhooks = {w1, w2}
    ComTenant = {u1}
    MaxFalhas = 0
\* Every call may have ended.
CHECK_DEADLOCK FALSE
INVARIANTS
    PagamentoUnico
