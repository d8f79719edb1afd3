SPECIFICATION SpecCompostoJusto
CONSTANTS
    f1 = f1
    f2 = f2
    f3 = f3
    Flushes = {f1, f2, f3}
    Eventos = {1}
    LimiteTentativas = 2
    Lote = 1
    MaxFalhas = 1
    MaxInterrupcoes = 1
\* Once every call is answered and every event resolved nothing is left to do.
CHECK_DEADLOCK FALSE
INVARIANTS
    PublicadoImplicaEntregue
    TentativasNaoExageram
    AnuncioFiel
PROPERTIES
    EventoAcabaTratado
