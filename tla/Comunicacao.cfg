SPECIFICATION FairSpec
CONSTANTS
    ana = ana
    caio = caio
    bia = bia
    un1 = un1
    un2 = un2
    un3 = un3
    b1 = b1
    b2 = b2
    p1 = p1
    Usuarios = {caio, ana, bia}
    Unidades = {un1, un2, un3}
    Blocos = {b1, b2}
    Vinculos <- MCVinculos
    BlocoDe <- MCBlocoDe
    Publicacoes = {p1}
    MaxCanais = 3
    MaxFalhas = 2
\* Every call may have been answered.
CHECK_DEADLOCK FALSE
INVARIANTS
    ResultadoConfiavel
    NinguemPreterido
PROPERTY
    PublicacaoTermina
