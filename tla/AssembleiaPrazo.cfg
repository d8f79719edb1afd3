SPECIFICATION Spec
CONSTANTS
    c1 = c1
    i1 = i1
    u1 = u1
    v1 = v1
    Convocacoes = {c1}
    Itens = {i1}
    Unidades = {u1}
    Pedidos = {v1}
    Leituras = {}
    MaxFalhas = 0
CHECK_DEADLOCK FALSE
PROPERTIES
    EncerradaNaoRecebeVoto
