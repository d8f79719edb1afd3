----------------------------- MODULE Consultas -----------------------------
(***************************************************************************)
(* The query side of financeiro.  ListarBoletosUnidadeHandler reads the     *)
(* rows of a unit through a cache that only time invalidates;               *)
(* ObterRelatorioFinanceiroHandler builds its answer from three queries,    *)
(* which are no snapshot, and from two clocks.  The tables change under     *)
(* them by the two procedures of the schema.  A list of rows is a set, a    *)
(* sum is the set of the rows summed, and a date is its month: months count  *)
(* from a January, month 0.  Where the day within a month decides, a step    *)
(* picks any of the rows it may concern.                                    *)
(***************************************************************************)
EXTENDS Integers, Sequences, FiniteSets

CONSTANTS
    Unidades, Geracoes,   \* units; calls of sp_gerar_boletos_mes
    Confirmacoes,         \* calls of sp_confirmar_pagamento
    Despesas,             \* rows that may be inserted in financeiro.despesas
    MesDe,                \* the competencia of each generation and of each despesa
    BoletoDe, ReferenciaDe,  \* the arguments of each confirmation
    Leitores, Relatorios, \* callers of the list, who ask again; calls of the report
    UnidadeDe,            \* the unit each reader asks for
    Meses, NaN,           \* values of the parameter meses; Number() of what is no number
    LimiteMeses,          \* 36 in the code
    TTL,                  \* 30 s, in ticks
    MaxMes                \* bound: months that begin in a behaviour

\* A number is its floor and whether something is left: Number(meses) may be 2.5.
Numero == [inteiro : Int, fracao : BOOLEAN]

Boletos == Unidades \X Geracoes

ASSUME ConsultasAssumption ==
    /\ MesDe \in [Geracoes \cup Despesas -> 0..MaxMes]
    /\ BoletoDe \in [Confirmacoes -> Boletos]
    /\ UnidadeDe \in [Leitores -> Unidades]
    /\ Meses \subseteq Numero \cup {NaN} /\ NaN \notin Numero
    /\ LimiteMeses \in Nat \ {0} /\ TTL \in Nat \ {0} /\ MaxMes \in Nat

VARIABLES
    boletos, pagos,       \* rows of financeiro.boletos, and those with status PAGO
    pagamentos, despesas, \* rows of the two tables
    pcC,                  \* where each confirmation is
    mesBanco, mesNode,    \* the month of current_date, and of new Date()
    leste,                \* the process runs in a zone east of UTC
    cache,                \* the entry of each unit and its life; history: whether it is old news
    mudouHa,              \* history: ticks since the rows of the unit changed, at most TTL
    pcL, achados, codigo, \* each reader: where it is, the rows it found, its last answer
    pcR, meses,           \* each report: where it is, its number of months (clamped)
    receita, custo,       \* the rows its first two queries summed
    resposta,             \* its answer
    antes                 \* history: pagamentos when it was asked for

tabelas == <<boletos, pagos, pagamentos, despesas, pcC>>
relogios == <<mesBanco, mesNode, leste>>
lista == <<cache, mudouHa, pcL, achados, codigo>>
relatorio == <<pcR, meses, receita, custo, resposta, antes>>
vars == <<tabelas, relogios, lista, relatorio>>

Nenhum == <<>>
Linhas(u) == {<<b, b \in pagos>> : b \in {x \in boletos : x[1] = u}}
Linha == Boletos \X BOOLEAN
Mes(c) == MesDe[BoletoDe[c][2]]

\* What the clamp leaves: from 1 to 36, with or without a fraction.
Janelas == {m \in [inteiro : 1..LimiteMeses, fracao : BOOLEAN] :
                m.fracao => m.inteiro < LimiteMeses}
Inteiro(i) == [inteiro |-> i, fracao |-> FALSE]

TypeOK ==
    /\ boletos \subseteq Boletos /\ pagos \subseteq boletos
    /\ pagamentos \subseteq Confirmacoes /\ despesas \subseteq Despesas
    /\ pcC \in [Confirmacoes -> {"inicio", "nova", "fim"}]
    /\ mesBanco \in 0..MaxMes /\ mesNode \in 0..MaxMes /\ leste \in BOOLEAN
    /\ cache \in [Unidades -> [linhas : SUBSET Linha, vida : 0..TTL, velha : BOOLEAN]]
    /\ mudouHa \in [Unidades -> 0..TTL]
    /\ pcL \in [Leitores -> {"inicio", "achar", "guardar"}]
    /\ achados \in [Leitores -> SUBSET Linha]
    /\ codigo \in [Leitores -> {"200", "500"}]
    /\ pcR \in [Relatorios -> {"inicio", "receita", "despesa", "inadimplencia", "200", "500"}]
    /\ meses \in [Relatorios -> Janelas \cup {NaN}]
    /\ receita \in [Relatorios -> SUBSET Confirmacoes] /\ custo \in [Relatorios -> SUBSET Despesas]
    /\ DOMAIN resposta = Relatorios
    /\ antes \in [Relatorios -> SUBSET Confirmacoes]

Init ==
    /\ boletos = {} /\ pagos = {} /\ pagamentos = {} /\ despesas = {}
    /\ pcC = [c \in Confirmacoes |-> "inicio"]
    /\ mesBanco \in 0..MaxMes /\ mesNode = mesBanco /\ leste \in BOOLEAN
    /\ cache = [u \in Unidades |-> [linhas |-> {}, vida |-> 0, velha |-> FALSE]]
    /\ mudouHa = [u \in Unidades |-> TTL]
    /\ pcL = [l \in Leitores |-> "inicio"]
    /\ achados = [l \in Leitores |-> {}]
    /\ codigo = [l \in Leitores |-> "200"]
    /\ pcR = [r \in Relatorios |-> "inicio"]
    /\ meses = [r \in Relatorios |-> Inteiro(1)]
    /\ receita = [r \in Relatorios |-> {}] /\ custo = [r \in Relatorios |-> {}]
    /\ resposta = [r \in Relatorios |-> Nenhum]
    /\ antes = [r \in Relatorios |-> {}]

-----------------------------------------------------------------------------
(* The tables and the clocks. *)

LancarDespesa(d) ==
    /\ despesas' = despesas \cup {d}
    /\ UNCHANGED <<boletos, pagos, pagamentos, pcC, relogios, lista, relatorio>>

\* The rows of the units in S have just changed.
Mudaram(S) == mudouHa' = [u \in Unidades |-> IF u \in S THEN 0 ELSE mudouHa[u]]

\* sp_gerar_boletos_mes: one transaction, which a month with no despesas makes fail (its base
\* value is null).  Of what it writes the queries read the boletos, not the outbox row.
GerarBoletos(g) ==
    /\ \A u \in Unidades : <<u, g>> \notin boletos
    /\ \E d \in despesas : MesDe[d] = MesDe[g]
    /\ boletos' = boletos \cup (Unidades \X {g})
    /\ Mudaram(Unidades)
    /\ UNCHANGED <<pagos, pagamentos, despesas, pcC, relogios, cache, pcL, achados, codigo, relatorio>>

\* sp_confirmar_pagamento: the EXISTS; a reference already there returns early.
Verificar(c) ==
    /\ pcC[c] = "inicio"
    /\ BoletoDe[c] \in boletos
    /\ pcC' = [pcC EXCEPT ![c] =
                 IF \E d \in pagamentos : ReferenciaDe[d] = ReferenciaDe[c] THEN "fim" ELSE "nova"]
    /\ UNCHANGED <<boletos, pagos, pagamentos, despesas, relogios, lista, relatorio>>

\* Mutant: the payment is committed before the status of its boleto.
BaixarSemStatus(c) ==
    /\ pcC[c] = "nova"
    /\ pcC' = [pcC EXCEPT ![c] = "fim"]
    /\ pagamentos' = pagamentos \cup {c}
    /\ Mudaram({BoletoDe[c][1]})
    /\ UNCHANGED <<boletos, pagos, despesas, relogios, cache, pcL, achados, codigo, relatorio>>

\* ... the INSERT and the UPDATE, seen together when the transaction commits.
Baixar(c) ==
    /\ pcC[c] = "nova"
    /\ pcC' = [pcC EXCEPT ![c] = "fim"]
    /\ pagamentos' = pagamentos \cup {c}
    /\ pagos' = pagos \cup {BoletoDe[c]}
    /\ Mudaram({BoletoDe[c][1]})
    /\ UNCHANGED <<boletos, despesas, relogios, cache, pcL, achados, codigo, relatorio>>

\* A month begins: the database and the process may be in different zones.
VirarMes ==
    /\ \/ mesBanco' = mesBanco + 1 /\ mesBanco <= mesNode /\ mesNode' = mesNode
       \/ mesNode' = mesNode + 1 /\ mesNode <= mesBanco /\ mesBanco' = mesBanco
    /\ mesBanco' <= MaxMes /\ mesNode' <= MaxMes
    /\ UNCHANGED <<leste, tabelas, lista, relatorio>>

\* Time passes: entries grow older, and one without life is gone.
Passar ==
    /\ cache' = [u \in Unidades |-> [cache[u] EXCEPT !.vida = IF @ = 0 THEN 0 ELSE @ - 1]]
    /\ mudouHa' = [u \in Unidades |-> IF mudouHa[u] = TTL THEN TTL ELSE mudouHa[u] + 1]
    /\ UNCHANGED <<tabelas, relogios, pcL, achados, codigo, relatorio>>

-----------------------------------------------------------------------------
(* ListarBoletosUnidadeHandler: the answer frees the reader to ask again. *)

Responder(l, c) == /\ pcL' = [pcL EXCEPT ![l] = "inicio"]
                   /\ codigo' = [codigo EXCEPT ![l] = c]

\* Mutant: a hit gives the entry a new life.
AcertarRenovando(l) ==
    LET u == UnidadeDe[l] IN
    /\ pcL[l] = "inicio" /\ cache[u].vida > 0
    /\ cache' = [cache EXCEPT ![u].vida = TTL]
    /\ Responder(l, "200")
    /\ UNCHANGED <<tabelas, relogios, mudouHa, achados, relatorio>>

\* cache.get finds an entry: also an empty list is one.
Acertar(l) ==
    /\ pcL[l] = "inicio" /\ cache[UnidadeDe[l]].vida > 0
    /\ Responder(l, "200")
    /\ UNCHANGED <<tabelas, relogios, cache, mudouHa, achados, relatorio>>

Errar(l) ==
    /\ pcL[l] = "inicio" /\ cache[UnidadeDe[l]].vida = 0
    /\ pcL' = [pcL EXCEPT ![l] = "achar"]
    /\ UNCHANGED <<tabelas, relogios, cache, mudouHa, achados, codigo, relatorio>>

Achar(l) ==
    /\ pcL[l] = "achar"
    /\ achados' = [achados EXCEPT ![l] = Linhas(UnidadeDe[l])]
    /\ pcL' = [pcL EXCEPT ![l] = "guardar"]
    /\ UNCHANGED <<tabelas, relogios, cache, mudouHa, codigo, relatorio>>

\* Mutant: the entry lives longer than its TTL.
EntradaLonga(l) ==
    [linhas |-> achados[l], vida |-> TTL + 1, velha |-> achados[l] # Linhas(UnidadeDe[l])]

Entrada(l) == [linhas |-> achados[l], vida |-> TTL, velha |-> achados[l] # Linhas(UnidadeDe[l])]

\* cache.set: the last one to write wins, whoever read first.
Guardar(l) ==
    /\ pcL[l] = "guardar"
    /\ cache' = [cache EXCEPT ![UnidadeDe[l]] = Entrada(l)]
    /\ achados' = [achados EXCEPT ![l] = {}]
    /\ Responder(l, "200")
    /\ UNCHANGED <<tabelas, relogios, mudouHa, relatorio>>

\* Redis or the database fails at any of the three awaits: an error for the caller, also when
\* the rows were read; a set whose answer was lost is done all the same.
FalharLista(l) ==
    /\ \/ cache' = cache
       \/ pcL[l] = "guardar" /\ cache' = [cache EXCEPT ![UnidadeDe[l]] = Entrada(l)]
    /\ achados' = [achados EXCEPT ![l] = {}]
    /\ Responder(l, "500")
    /\ UNCHANGED <<tabelas, relogios, mudouHa, relatorio>>

Ler(l) == Acertar(l) \/ Errar(l) \/ Achar(l) \/ Guardar(l) \/ FalharLista(l)

-----------------------------------------------------------------------------
(* ObterRelatorioFinanceiroHandler. *)

\* Math.max(1, Math.min(meses, 36)): it bounds the number and does not round it.
Limitar(q) ==
    CASE q = NaN                              -> NaN
      [] q # NaN /\ q.inteiro < 1             -> Inteiro(1)
      [] q # NaN /\ q.inteiro >= LimiteMeses  -> Inteiro(LimiteMeses)
      [] OTHER                                -> q

PedirRelatorio(r, q) ==
    /\ pcR[r] = "inicio"
    /\ meses' = [meses EXCEPT ![r] = Limitar(q)]
    /\ antes' = [antes EXCEPT ![r] = pagamentos]
    /\ pcR' = [pcR EXCEPT ![r] = "receita"]
    /\ UNCHANGED <<tabelas, relogios, lista, receita, custo, resposta>>

\* Mutant: a month less.
NaJanelaCurta(m, r) == m >= mesBanco - (meses[r].inteiro - 2)

\* competencia >= date_trunc('month', current_date) - (meses - 1) months, the whole months of it.
NaJanela(m, r) == m >= mesBanco - (meses[r].inteiro - 1)

\* The interval takes a fraction of a month as up to 30 days: the window begins in the month
\* before its whole months, or two before if that is a February, and has some of its days.
EmParte(m, r) ==
    /\ meses[r].fracao
    /\ LET inicio == mesBanco - (meses[r].inteiro - 1) IN m \in (inicio - 2)..(inicio - 1)

LerReceita(r) ==
    /\ pcR[r] = "receita" /\ meses[r] # NaN
    /\ \E parte \in SUBSET {c \in pagamentos : EmParte(Mes(c), r)} :
          receita' = [receita EXCEPT ![r] = {c \in pagamentos : NaJanela(Mes(c), r)} \cup parte]
    /\ pcR' = [pcR EXCEPT ![r] = "despesa"]
    /\ UNCHANGED <<tabelas, relogios, lista, meses, custo, resposta, antes>>

LerDespesa(r) ==
    /\ pcR[r] = "despesa"
    /\ \E parte \in SUBSET {d \in despesas : EmParte(MesDe[d], r)} :
          custo' = [custo EXCEPT ![r] = {d \in despesas : NaJanela(MesDe[d], r)} \cup parte]
    /\ pcR' = [pcR EXCEPT ![r] = "inadimplencia"]
    /\ UNCHANGED <<tabelas, relogios, lista, meses, receita, resposta, antes>>

\* A query fails, as the first one does for "NaN months".
FalharRelatorio(r) ==
    /\ pcR[r] \in {"receita", "despesa", "inadimplencia"}
    /\ pcR' = [pcR EXCEPT ![r] = "500"]
    /\ UNCHANGED <<tabelas, relogios, lista, meses, receita, custo, resposta, antes>>

\* vw_inadimplencia_por_condominio: a boleto is due ten days after the first of its month,
\* hence overdue in later months, and in its own from the day after that.
EmAberto == boletos \ pagos
EmAtraso == {b \in EmAberto : MesDe[b[2]] < mesBanco}
TalvezEmAtraso == {b \in EmAberto : MesDe[b[2]] = mesBanco}

\* chave(): the month in UTC of a date that the driver puts at local midnight.
Chave(m) == IF leste THEN m - 1 ELSE m

\* new Date(ano, mes - i, 1), with i = k or k and a fraction: Date truncates towards zero, so
\* that the fraction takes a month more off unless that leads before January.
MesDaSerie(k, fracao) ==
    LET mes == mesNode % 12
        a   == mes - k
    IN  mesNode - mes + IF fracao /\ a >= 1 THEN a - 1 ELSE a

\* for (let i = meses - 1; i >= 0; i--): one entry for each whole month.
Serie(r) ==
    [i \in 1..meses[r].inteiro |->
        LET m == MesDaSerie(meses[r].inteiro - i, meses[r].fracao) IN
        [competencia |-> m,
         receita |-> {c \in receita[r] : Chave(Mes(c)) = m},
         despesa |-> {d \in custo[r] : Chave(MesDe[d]) = m}]]

\* The view is read and the series built, around the month of new Date().
LerInadimplencia(r) ==
    /\ pcR[r] = "inadimplencia"
    /\ \E parte \in SUBSET TalvezEmAtraso :
          resposta' = [resposta EXCEPT ![r] =
             [serie |-> Serie(r),
              vencidos |-> EmAtraso \cup parte,
              mes |-> mesNode, adiantado |-> mesBanco > mesNode]]   \* history: the two clocks
    /\ pcR' = [pcR EXCEPT ![r] = "200"]
    /\ UNCHANGED <<tabelas, relogios, lista, meses, receita, custo, antes>>

Relatar(r) ==
    \/ \E q \in Meses : PedirRelatorio(r, q)
    \/ LerReceita(r)
    \/ LerDespesa(r)
    \/ LerInadimplencia(r)
    \/ FalharRelatorio(r)

-----------------------------------------------------------------------------
Mudar ==
    \/ \E d \in Despesas : LancarDespesa(d)
    \/ \E g \in Geracoes : GerarBoletos(g)
    \/ \E c \in Confirmacoes : Verificar(c) \/ Baixar(c)

Next ==
    \/ Mudar
    \/ VirarMes
    \/ Passar
    \/ \E l \in Leitores : Ler(l)
    \/ \E r \in Relatorios : Relatar(r)

Spec == Init /\ [][Next]_vars

\* Time passes, and what the handler waits for answers or fails.
FairSpec == Spec /\ WF_vars(Passar)
                 /\ \A l \in Leitores : WF_vars(Achar(l) \/ Guardar(l) \/ FalharLista(l))

-----------------------------------------------------------------------------
(* Properties. *)

\* The cache serves rows that are no longer the table's for less than its 30 s, however many
\* readers hit it, unless the reader that filled it was still between its find and its set
\* when the table changed.
DefasagemLimitada ==
    \A u \in Unidades :
        cache[u].vida > 0 /\ cache[u].linhas # Linhas(u) => cache[u].velha \/ mudouHa[u] < TTL

\* No command invalidates the cache, and a late set may put old rows over new ones; yet when
\* the boletos stop changing, every list is right in the end, and stays so.
AcabaAtual ==
    <>[](\A u \in Unidades : cache[u].vida > 0 => cache[u].linhas = Linhas(u))

\* The three queries are no snapshot, but their order and the one transaction of the payment
\* see to it that no report counts a boleto as received and as overdue.
NuncaDuasVezes ==
    \A r \in Relatorios : pcR[r] = "200" =>
        \A c \in receita[r] : BoletoDe[c] \notin resposta[r].vencidos

\* The payments of the month that an entry stands for: east of UTC a month shows the figures
\* of the next.
DoMes(S, entrada) == {c \in S : Chave(Mes(c)) = entrada.competencia}

\* No entry of the series has a payment that does not exist or is of another month; and each
\* has all those made when the report was asked for, also when a month begins meanwhile, unless
\* it is older than the whole months of the window: as the oldest one may be when the month of
\* the database was ahead, and as it is for most numbers with a fraction.  A whole number of
\* months gives each month once, up to the current one.
SerieFiel ==
    \A r \in Relatorios : pcR[r] = "200" =>
        LET serie == resposta[r].serie
            desde == resposta[r].mes - (meses[r].inteiro - 1)
                        + IF resposta[r].adiantado THEN 1 ELSE 0
        IN  \A i \in 1..meses[r].inteiro :
                /\ serie[i].receita \subseteq DoMes(pagamentos, serie[i])
                /\ serie[i].competencia >= desde =>
                       DoMes(antes[r], serie[i]) \subseteq serie[i].receita
                /\ ~meses[r].fracao =>
                       serie[i].competencia = resposta[r].mes - (meses[r].inteiro - i)
=============================================================================
