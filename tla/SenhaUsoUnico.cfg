SPECIFICATION Spec
CONSTANTS
    u1 = u1
    p1 = p1
    r1 = r1
    r2 = r2
    Usuarios = {u1}
    Pedidos = {p1}
    Redefinicoes = {r1, r2}
    MaxFalhas = 1
CHECK_DEADLOCK FALSE
INVARIANT UsoUnico
