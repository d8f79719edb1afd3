SPECIFICATION FairSpec
CONSTANTS
    f1 = f1
    f2 = f2
    Flushes = {f1, f2}
    Eventos = {1, 2, 3}
    LimiteTentativas = 1
    Lote = 2
    MaxFalhas = 1
\* Once every event is resolved and recorded nothing is left to do.
CHECK_DEADLOCK FALSE
INVARIANTS
    EntregueUmaVez
PROPERTIES
    DesfechoDefinitivo
    ImplementaEntregaJusta
