SPECIFICATION Spec
CONSTANTS
    u1 = u1
    u2 = u2
    p1 = p1
    p2 = p2
    r1 = r1
    r2 = r2
    r3 = r3
    Usuarios = {u1, u2}
    Pedidos = {p1, p2}
    Redefinicoes = {r1, r2, r3}
    MaxFalhas = 2
\* Every call may have been answered.
CHECK_DEADLOCK FALSE
SYMMETRY Simetria
INVARIANTS
    UsoRepetidoExplicado
    RecusaJustificada
    SenhaEmVigor
