SPECIFICATION Spec
CONSTANTS
    Valores = {0, 25, 50025}
    Percentuais = {100, 500}
    JurosDia = {10}
    Dias = {0, 3}
    MaxEventos = 5
\* A stored and paid boleto offers no command that changes it at the bound.
CHECK_DEADLOCK FALSE
INVARIANTS
    TypeOK
    ReplayFiel
    PagamentoEncerra
    MultaLegal
