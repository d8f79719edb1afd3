SPECIFICATION Spec
CONSTANTS
    c1 = c1
    i1 = i1
    u1 = u1
    u2 = u2
    v1 = v1
    v2 = v2
    v3 = v3
    q1 = q1
    Convocacoes = {c1}
    Itens = {i1}
    Unidades = {u1, u2}
    Pedidos = {v1, v2, v3}
    Leituras = {q1}
    MaxFalhas = 1
\* Every call may have been answered and every pauta closed.
CHECK_DEADLOCK FALSE
SYMMETRY Simetria
INVARIANTS
    UmVotoPorUnidade
    RespostaVerdadeira
    QuorumCoerente
PROPERTIES
    ApuracaoCongela
    ImplementaUrna
