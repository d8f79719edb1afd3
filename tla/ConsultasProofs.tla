--------------------------- MODULE ConsultasProofs ---------------------------
(***************************************************************************)
(* Theorems about Consultas, for any tables, callers, life of the cache and  *)
(* numbers of months, with a fraction or without.                           *)
(*                                                                         *)
(* The list: an entry whose rows are not the table's was either put late or *)
(* overtaken by a change, and then its life and the age of the change fit   *)
(* in the TTL.  The report: whatever its first query summed belongs to      *)
(* boletos that were PAGO by then, and PAGO they stay.  Its series: the      *)
(* windows of its three queries only move on, the clock of the process is   *)
(* at most a month behind the one that bounded the sum, and the whole        *)
(* months of the window are in the sum, whatever part of an older one is.    *)
(***************************************************************************)
EXTENDS Consultas, TLAPS

\* A payment in progress is for a boleto that exists.
EmAndamento == \A c \in Confirmacoes : pcC[c] = "nova" => BoletoDe[c] \in boletos

\* Payments, also those a report has summed, are for boletos that are PAGO.
Pagos ==
    /\ \A c \in pagamentos : BoletoDe[c] \in pagos
    /\ \A r \in Relatorios : \A c \in receita[r] : BoletoDe[c] \in pagos

Prazo ==
    \A u \in Unidades :
        cache[u].vida > 0 /\ cache[u].linhas # Linhas(u) /\ ~cache[u].velha
            => mudouHa[u] + cache[u].vida <= TTL

IInv == TypeOK /\ EmAndamento /\ Pagos /\ Prazo /\ NuncaDuasVezes

LEMMA InitIInv == ASSUME ConsultasAssumption, Init PROVE IInv
<1>1. TypeOK
  <2>1. Inteiro(1) \in Janelas
    BY DEF ConsultasAssumption, Inteiro, Janelas
  <2> QED
    BY <2>1 DEF ConsultasAssumption, Init, TypeOK
<1>2. EmAndamento /\ Pagos /\ Prazo /\ NuncaDuasVezes
  BY DEF Init, EmAndamento, Pagos, Prazo, NuncaDuasVezes
<1>3. QED
  BY <1>1, <1>2 DEF IInv

LEMMA LinhasDeUnidade == ASSUME TypeOK, NEW u \in Unidades PROVE Linhas(u) \in SUBSET Linha
<1>1. boletos \subseteq Boletos
  BY DEF TypeOK
<1>2. ASSUME NEW b \in boletos PROVE <<b, b \in pagos>> \in Linha
  <2>1. (b \in pagos) \in BOOLEAN
    OBVIOUS
  <2>2. QED
    BY <1>1, <2>1, Zenon DEF Linha
<1>3. QED
  BY <1>2 DEF Linhas

-----------------------------------------------------------------------------
(* The tables and the clocks. *)

LEMMA MudarIInv == ASSUME ConsultasAssumption, IInv, Mudar PROVE IInv'
<1>1. ASSUME NEW d \in Despesas, LancarDespesa(d) PROVE IInv'
  <2>1. TypeOK'
    BY <1>1 DEF IInv, TypeOK, LancarDespesa, relogios, lista, relatorio
  <2>2. EmAndamento' /\ Pagos' /\ Prazo' /\ NuncaDuasVezes'
    BY <1>1 DEF IInv, EmAndamento, Pagos, Prazo, NuncaDuasVezes, Linhas, LancarDespesa,
                relogios, lista, relatorio
  <2>3. QED
    BY <2>1, <2>2 DEF IInv
<1>2. ASSUME NEW g \in Geracoes, GerarBoletos(g) PROVE IInv'
  <2>1. TypeOK'
    BY <1>2 DEF ConsultasAssumption, IInv, TypeOK, GerarBoletos, Mudaram, Boletos, relogios, relatorio
  <2>2. EmAndamento' /\ Pagos' /\ NuncaDuasVezes'
    BY <1>2 DEF IInv, EmAndamento, Pagos, NuncaDuasVezes, GerarBoletos, relatorio
  <2>3. Prazo'
    BY <1>2 DEF ConsultasAssumption, IInv, TypeOK, Prazo, GerarBoletos, Mudaram
  <2>4. QED
    BY <2>1, <2>2, <2>3 DEF IInv
<1>3. ASSUME NEW c \in Confirmacoes, Verificar(c) PROVE IInv'
  <2>1. TypeOK'
    BY <1>3 DEF IInv, TypeOK, Verificar, relogios, lista, relatorio
  <2>2. EmAndamento'
    BY <1>3 DEF IInv, TypeOK, EmAndamento, Verificar
  <2>3. Pagos' /\ Prazo' /\ NuncaDuasVezes'
    BY <1>3 DEF IInv, Pagos, Prazo, NuncaDuasVezes, Linhas, Verificar, lista, relatorio
  <2>4. QED
    BY <2>1, <2>2, <2>3 DEF IInv
<1>4. ASSUME NEW c \in Confirmacoes, Baixar(c) PROVE IInv'
  <2>1. BoletoDe[c] \in boletos
    BY <1>4 DEF IInv, EmAndamento, Baixar
  <2>2. TypeOK'
    BY <1>4, <2>1 DEF ConsultasAssumption, IInv, TypeOK, Baixar, Mudaram, relogios, relatorio
  <2>3. EmAndamento'
    BY <1>4 DEF IInv, TypeOK, EmAndamento, Baixar
  <2>4. Pagos' /\ NuncaDuasVezes'
    BY <1>4 DEF IInv, Pagos, NuncaDuasVezes, Baixar, relatorio
  <2>5. ASSUME NEW u \in Unidades, u # BoletoDe[c][1] PROVE Linhas(u)' = Linhas(u)
    BY <1>4, <2>5 DEF Baixar, Linhas
  <2>6. Prazo'
    <3>1. cache' = cache
      BY <1>4 DEF Baixar
    <3>2. ASSUME NEW u \in Unidades, u = BoletoDe[c][1]
          PROVE  mudouHa'[u] + cache[u].vida <= TTL
      BY <1>4, <3>2 DEF ConsultasAssumption, IInv, TypeOK, Baixar, Mudaram
    <3>3. ASSUME NEW u \in Unidades, u # BoletoDe[c][1] PROVE mudouHa'[u] = mudouHa[u]
      BY <1>4, <3>3 DEF Baixar, Mudaram
    <3>4. QED
      BY <2>5, <3>1, <3>2, <3>3 DEF IInv, Prazo
  <2>7. QED
    BY <2>2, <2>3, <2>4, <2>6 DEF IInv
<1>5. QED
  BY <1>1, <1>2, <1>3, <1>4 DEF Mudar

LEMMA TempoIInv == ASSUME ConsultasAssumption, IInv, VirarMes \/ Passar PROVE IInv'
<1>1. CASE VirarMes
  <2>1. TypeOK'
    BY <1>1 DEF ConsultasAssumption, IInv, TypeOK, VirarMes, tabelas, lista, relatorio
  <2>2. EmAndamento' /\ Pagos' /\ Prazo' /\ NuncaDuasVezes'
    BY <1>1 DEF IInv, EmAndamento, Pagos, Prazo, NuncaDuasVezes, Linhas, VirarMes,
                tabelas, lista, relatorio
  <2>3. QED
    BY <2>1, <2>2 DEF IInv
<1>2. CASE Passar
  <2>1. \A u \in Unidades :
            /\ cache'[u].linhas = cache[u].linhas /\ cache'[u].velha = cache[u].velha
            /\ cache'[u].vida = IF cache[u].vida = 0 THEN 0 ELSE cache[u].vida - 1
            /\ mudouHa'[u] = IF mudouHa[u] = TTL THEN TTL ELSE mudouHa[u] + 1
    BY <1>2 DEF IInv, TypeOK, Passar
  <2>2. TypeOK'
    <3>1. \A u \in Unidades :
              [cache[u] EXCEPT !.vida = IF @ = 0 THEN 0 ELSE @ - 1]
                 \in [linhas : SUBSET Linha, vida : 0..TTL, velha : BOOLEAN]
      <4>1. /\ cache \in [Unidades -> [linhas : SUBSET Linha, vida : 0..TTL, velha : BOOLEAN]]
            /\ TTL \in Nat
        BY DEF ConsultasAssumption, IInv, TypeOK
      <4> SUFFICES ASSUME NEW u \in Unidades
                   PROVE  [cache[u] EXCEPT !.vida = IF @ = 0 THEN 0 ELSE @ - 1]
                             \in [linhas : SUBSET Linha, vida : 0..TTL, velha : BOOLEAN]
        OBVIOUS
      <4> DEFINE c == cache[u]
                 v == IF c.vida = 0 THEN 0 ELSE c.vida - 1
      <4>2. c \in [linhas : SUBSET Linha, vida : 0..TTL, velha : BOOLEAN]
        BY <4>1
      <4>3. v \in 0..TTL
        <5>1. c.vida \in 0..TTL
          BY <4>2
        <5> HIDE DEF c
        <5> QED
          BY <4>1, <5>1
      <4>4. ASSUME NEW x \in 0..TTL
            PROVE  [c EXCEPT !.vida = x] \in [linhas : SUBSET Linha, vida : 0..TTL, velha : BOOLEAN]
        <5> HIDE DEF c
        <5> QED
          BY <4>2
      <4> QED
        BY <4>3, <4>4
    <3>2. cache' \in [Unidades -> [linhas : SUBSET Linha, vida : 0..TTL, velha : BOOLEAN]]
      BY <1>2, <3>1, Zenon DEF Passar
    <3>3. mudouHa' \in [Unidades -> 0..TTL]
      <4>1. mudouHa' = [u \in Unidades |-> IF mudouHa[u] = TTL THEN TTL ELSE mudouHa[u] + 1]
        BY <1>2 DEF Passar
      <4>2. \A u \in Unidades : mudouHa[u] \in 0..TTL /\ TTL \in Nat
        BY DEF ConsultasAssumption, IInv, TypeOK
      <4>3. QED
        BY <4>1, <4>2
    <3>4. QED
      BY <1>2, <3>2, <3>3 DEF IInv, TypeOK, Passar, tabelas, relogios, relatorio
  <2>3. EmAndamento' /\ Pagos' /\ NuncaDuasVezes'
    BY <1>2 DEF IInv, EmAndamento, Pagos, NuncaDuasVezes, Passar, tabelas, relatorio
  <2>4. \A u \in Unidades : Linhas(u)' = Linhas(u)
    BY <1>2 DEF Passar, tabelas, Linhas
  <2>5. \A u \in Unidades : cache[u].vida \in 0..TTL /\ mudouHa[u] \in 0..TTL
    BY DEF IInv, TypeOK
  <2>6. Prazo'
    BY <2>1, <2>4, <2>5 DEF ConsultasAssumption, IInv, Prazo
  <2>7. QED
    BY <2>2, <2>3, <2>6 DEF IInv
<1>3. QED
  BY <1>1, <1>2

-----------------------------------------------------------------------------
(* The queries. *)

LEMMA LerIInv == ASSUME ConsultasAssumption, IInv, NEW l \in Leitores, Ler(l) PROVE IInv'
<1>1. UnidadeDe[l] \in Unidades /\ Linhas(UnidadeDe[l]) \in SUBSET Linha
  BY LinhasDeUnidade DEF ConsultasAssumption, IInv
<1>2. UNCHANGED <<tabelas, relogios, mudouHa, relatorio>>
  BY DEF Ler, Acertar, Errar, Achar, Guardar, FalharLista
<1>3. cache' = cache \/ cache' = [cache EXCEPT ![UnidadeDe[l]] = Entrada(l)]
  BY DEF Ler, Acertar, Errar, Achar, Guardar, FalharLista
<1>4. Entrada(l) \in [linhas : SUBSET Linha, vida : 0..TTL, velha : BOOLEAN]
  BY DEF ConsultasAssumption, IInv, TypeOK, Entrada
<1>5. cache' \in [Unidades -> [linhas : SUBSET Linha, vida : 0..TTL, velha : BOOLEAN]]
  BY <1>1, <1>3, <1>4 DEF IInv, TypeOK
<1>6. /\ pcL' \in [Leitores -> {"inicio", "achar", "guardar"}]
      /\ achados' \in [Leitores -> SUBSET Linha]
      /\ codigo' \in [Leitores -> {"200", "500"}]
  <2>1. CASE Acertar(l) \/ Errar(l)
    BY <2>1 DEF IInv, TypeOK, Acertar, Errar, Responder
  <2>2. CASE Achar(l)
    BY <1>1, <2>2 DEF IInv, TypeOK, Achar
  <2>3. CASE Guardar(l) \/ FalharLista(l)
    BY <2>3 DEF IInv, TypeOK, Guardar, FalharLista, Responder
  <2>4. QED
    BY <2>1, <2>2, <2>3 DEF Ler
<1>7. TypeOK'
  BY <1>2, <1>5, <1>6 DEF IInv, TypeOK, tabelas, relogios, relatorio
<1>8. EmAndamento' /\ Pagos' /\ NuncaDuasVezes'
  BY <1>2 DEF IInv, EmAndamento, Pagos, NuncaDuasVezes, tabelas, relatorio
<1>9. Prazo'
  <2>1. \A u \in Unidades : Linhas(u)' = Linhas(u) /\ mudouHa'[u] = mudouHa[u]
    BY <1>2 DEF tabelas, Linhas
  <2>2. ASSUME NEW u \in Unidades, cache'[u] # cache[u]
        PROVE  cache'[u].velha = (cache'[u].linhas # Linhas(u))
    BY <1>1, <1>3, <2>2 DEF IInv, TypeOK, Entrada
  <2>3. QED
    BY <2>1, <2>2 DEF IInv, Prazo
<1>10. QED
  BY <1>7, <1>8, <1>9 DEF IInv

\* The clamp: a number from 1 to the limit, with the fraction it came with.
LEMMA Limitado == ASSUME ConsultasAssumption, NEW q \in Meses PROVE Limitar(q) \in Janelas \cup {NaN}
<1>1. CASE q = NaN
  BY <1>1 DEF Limitar
<1>2. CASE q # NaN
  <2>1. q \in Numero /\ q.inteiro \in Int /\ q.fracao \in BOOLEAN /\ LimiteMeses \in Nat \ {0}
    BY <1>2 DEF ConsultasAssumption, Numero
  <2>2. Inteiro(1) \in Janelas /\ Inteiro(LimiteMeses) \in Janelas
    BY <2>1 DEF Inteiro, Janelas
  <2>3. CASE q.inteiro < 1
    BY <1>2, <2>2, <2>3 DEF Limitar
  <2>4. CASE q.inteiro >= LimiteMeses
    BY <1>2, <2>1, <2>2, <2>4 DEF Limitar
  <2>5. CASE q.inteiro >= 1 /\ q.inteiro < LimiteMeses
    <3>1. Limitar(q) = q
      BY <1>2, <2>1, <2>5 DEF Limitar
    <3>2. q \in Janelas
      BY <2>1, <2>5 DEF Janelas, Numero
    <3> QED
      BY <3>1, <3>2
  <2> QED
    BY <2>1, <2>3, <2>4, <2>5
<1> QED
  BY <1>1, <1>2

LEMMA RelatarIInv == ASSUME ConsultasAssumption, IInv, NEW r \in Relatorios, Relatar(r) PROVE IInv'
<1>1. UNCHANGED <<tabelas, relogios, lista>>
  BY DEF Relatar, PedirRelatorio, LerReceita, LerDespesa, LerInadimplencia, FalharRelatorio
<1>2. EmAndamento' /\ Prazo'
  BY <1>1 DEF IInv, EmAndamento, Prazo, Linhas, tabelas, lista
<1>3. ASSUME NEW q \in Meses, PedirRelatorio(r, q) PROVE TypeOK' /\ Pagos' /\ NuncaDuasVezes'
  <2>1. Limitar(q) \in Janelas \cup {NaN}
    BY Limitado
  <2>2. TypeOK'
    BY <1>1, <1>3, <2>1 DEF IInv, TypeOK, PedirRelatorio, tabelas, relogios, lista
  <2>3. Pagos' /\ NuncaDuasVezes'
    BY <1>1, <1>3 DEF IInv, TypeOK, Pagos, NuncaDuasVezes, PedirRelatorio, tabelas
  <2>4. QED
    BY <2>2, <2>3
<1>4. CASE LerReceita(r)
  <2>1. TypeOK'
    BY <1>1, <1>4 DEF IInv, TypeOK, LerReceita, tabelas, relogios, lista
  <2>2. Pagos' /\ NuncaDuasVezes'
    BY <1>1, <1>4 DEF IInv, TypeOK, Pagos, NuncaDuasVezes, LerReceita, tabelas
  <2>3. QED
    BY <1>2, <2>1, <2>2 DEF IInv
<1>5. CASE LerDespesa(r)
  <2>1. TypeOK'
    BY <1>1, <1>5 DEF IInv, TypeOK, LerDespesa, tabelas, relogios, lista
  <2>2. Pagos' /\ NuncaDuasVezes'
    BY <1>1, <1>5 DEF IInv, TypeOK, Pagos, NuncaDuasVezes, LerDespesa, tabelas
  <2>3. QED
    BY <1>2, <2>1, <2>2 DEF IInv
<1>6. CASE LerInadimplencia(r)
  <2>1. TypeOK'
    BY <1>1, <1>6 DEF IInv, TypeOK, LerInadimplencia, tabelas, relogios, lista
  <2>2. \A c \in receita[r] : BoletoDe[c] \notin EmAtraso \cup TalvezEmAtraso
    BY DEF IInv, Pagos, EmAtraso, TalvezEmAtraso, EmAberto
  <2>3. /\ receita' = receita
        /\ \A s \in Relatorios : s # r => pcR'[s] = pcR[s] /\ resposta'[s] = resposta[s]
        /\ resposta'[r].vencidos \subseteq EmAtraso \cup TalvezEmAtraso
    BY <1>6 DEF IInv, TypeOK, LerInadimplencia
  <2>4. Pagos' /\ NuncaDuasVezes'
    BY <1>1, <2>2, <2>3 DEF IInv, Pagos, NuncaDuasVezes, tabelas
  <2>5. QED
    BY <1>2, <2>1, <2>4 DEF IInv
<1>7. CASE FalharRelatorio(r)
  <2>1. TypeOK'
    BY <1>1, <1>7 DEF IInv, TypeOK, FalharRelatorio, tabelas, relogios, lista
  <2>2. Pagos' /\ NuncaDuasVezes'
    BY <1>1, <1>7 DEF IInv, TypeOK, Pagos, NuncaDuasVezes, FalharRelatorio, tabelas
  <2>3. QED
    BY <1>2, <2>1, <2>2 DEF IInv
<1>8. QED
  BY <1>2, <1>3, <1>4, <1>5, <1>6, <1>7 DEF IInv, Relatar

-----------------------------------------------------------------------------

LEMMA NextIInv == ASSUME ConsultasAssumption, IInv, [Next]_vars PROVE IInv'
<1>1. CASE Next
  BY <1>1, MudarIInv, TempoIInv, LerIInv, RelatarIInv DEF Next
<1>2. CASE UNCHANGED vars
  BY <1>2 DEF IInv, TypeOK, EmAndamento, Pagos, Prazo, NuncaDuasVezes, Linhas, vars, tabelas,
              relogios, lista, relatorio
<1>3. QED
  BY <1>1, <1>2

LEMMA Invariante == ASSUME ConsultasAssumption PROVE Spec => []IInv
<1>1. Init => IInv
  BY InitIInv
<1>2. IInv /\ [Next]_vars => IInv'
  BY NextIInv
<1>3. QED
  BY <1>1, <1>2, PTL DEF Spec

\* Type correctness of the tables, the cache and the requests in progress.
THEOREM TypeCorrect == ASSUME ConsultasAssumption PROVE Spec => []TypeOK
<1>1. IInv => TypeOK
  BY DEF IInv
<1>2. QED
  BY <1>1, Invariante, PTL

\* The list of boletos is out of date for less than the TTL of the cache, unless the reader
\* that filled the entry was overtaken by a change between its find and its set.
THEOREM DefasagemCurta == ASSUME ConsultasAssumption PROVE Spec => []DefasagemLimitada
<1>1. IInv => DefasagemLimitada
  BY DEF ConsultasAssumption, IInv, TypeOK, Prazo, DefasagemLimitada
<1>2. QED
  BY <1>1, Invariante, PTL

\* No report counts a boleto as received and as overdue.
THEOREM RelatorioCoerente == ASSUME ConsultasAssumption PROVE Spec => []NuncaDuasVezes
<1>1. IInv => NuncaDuasVezes
  BY DEF IInv
<1>2. QED
  BY <1>1, Invariante, PTL

-----------------------------------------------------------------------------
(* The series of the report. *)

\* The two clocks are at most a month apart.
RelogiosProximos == mesBanco <= mesNode + 1 /\ mesNode <= mesBanco + 1

\* Once a report has summed the payments, it has every one that was there when it was asked
\* for and is in its window; that the window moves on takes nothing from it.
Somados ==
    \A r \in Relatorios :
        /\ receita[r] \subseteq pagamentos /\ antes[r] \subseteq pagamentos
        /\ pcR[r] \in {"despesa", "inadimplencia"} =>
              /\ meses[r] # NaN
              /\ \A c \in antes[r] : NaJanela(Mes(c), r) => c \in receita[r]

\* What SerieFiel says of one report.
SerieDe(r) ==
    LET serie == resposta[r].serie
        desde == resposta[r].mes - (meses[r].inteiro - 1)
                    + IF resposta[r].adiantado THEN 1 ELSE 0
    IN  \A i \in 1..meses[r].inteiro :
            /\ serie[i].receita \subseteq DoMes(pagamentos, serie[i])
            /\ serie[i].competencia >= desde =>
                   DoMes(antes[r], serie[i]) \subseteq serie[i].receita
            /\ ~meses[r].fracao =>
                   serie[i].competencia = resposta[r].mes - (meses[r].inteiro - i)

SerieIInv == RelogiosProximos /\ Somados /\ SerieFiel

\* The months of payments are numbers, and so is a window that has been read.
LEMMA Numeros ==
    ASSUME ConsultasAssumption, TypeOK
    PROVE  /\ \A c \in Confirmacoes : Mes(c) \in Nat
           /\ \A r \in Relatorios : meses[r] # NaN =>
                  meses[r] \in Janelas /\ meses[r].inteiro \in 1..LimiteMeses
           /\ mesBanco \in Nat /\ mesNode \in Nat /\ LimiteMeses \in Nat
<1>1. \A c \in Confirmacoes : BoletoDe[c][2] \in Geracoes
  BY DEF ConsultasAssumption, Boletos
<1>2. \A c \in Confirmacoes : Mes(c) \in 0..MaxMes
  BY <1>1 DEF ConsultasAssumption, Mes
<1>3. \A r \in Relatorios : meses[r] # NaN => meses[r] \in Janelas
  BY DEF TypeOK
<1>4. \A m \in Janelas : m.inteiro \in 1..LimiteMeses
  BY DEF Janelas
<1> QED
  BY <1>2, <1>3, <1>4 DEF ConsultasAssumption, TypeOK

\* A step of the tables or of the list, or a month that begins.
LEMMA ForaDoRelatorio ==
    ASSUME ConsultasAssumption, TypeOK, SerieIInv, UNCHANGED <<leste, relatorio>>,
           pagamentos \subseteq pagamentos', mesBanco' >= mesBanco, mesBanco' \in Nat,
           RelogiosProximos'
    PROVE  SerieIInv'
<1>1. Somados'
  <2>1. ASSUME NEW r \in Relatorios, meses[r] # NaN, NEW c \in antes[r], NaJanela(Mes(c), r)'
        PROVE  NaJanela(Mes(c), r)
    <3>1. c \in Confirmacoes
      BY DEF TypeOK
    <3> QED
      BY <2>1, <3>1, Numeros DEF NaJanela, relatorio, Mes
  <2> QED
    BY <2>1 DEF SerieIInv, Somados, relatorio, Mes
<1>2. SerieFiel'
  BY DEF SerieIInv, SerieFiel, DoMes, Chave, Mes, relatorio
<1> QED
  BY <1>1, <1>2 DEF SerieIInv

\* An entry stands for a month; without a fraction, for the k-th before the current one.
LEMMA MesInteiro ==
    ASSUME mesNode \in Nat, NEW k \in Int, NEW f \in BOOLEAN
    PROVE  MesDaSerie(k, f) \in Int /\ (~f => MesDaSerie(k, f) = mesNode - k)
<1> DEFINE mes == mesNode % 12
<1>1. mes \in Int
  OBVIOUS
<1>2. MesDaSerie(k, f) = mesNode - mes + IF f /\ mes - k >= 1 THEN (mes - k) - 1 ELSE mes - k
  BY DEF MesDaSerie
<1> HIDE DEF mes
<1> QED
  BY <1>1, <1>2

\* The series around the month of the process, out of rows summed around that of the database.
LEMMA SerieLida ==
    ASSUME ConsultasAssumption, TypeOK, SerieIInv, NEW r \in Relatorios, LerInadimplencia(r)
    PROVE  SerieDe(r)'
<1> DEFINE n == meses[r].inteiro
           serie == resposta'[r].serie
           mesDe(i) == MesDaSerie(n - i, meses[r].fracao)
<1>1. /\ serie = Serie(r)
      /\ resposta'[r].mes = mesNode
      /\ resposta'[r].adiantado = (mesBanco > mesNode)
      /\ UNCHANGED <<pagamentos, meses, antes, leste>>
  BY DEF LerInadimplencia, TypeOK, tabelas, relogios
<1>2. /\ receita[r] \subseteq pagamentos /\ antes[r] \subseteq Confirmacoes
      /\ pagamentos \subseteq Confirmacoes /\ leste \in BOOLEAN
      /\ meses[r] # NaN
      /\ \A c \in antes[r] : NaJanela(Mes(c), r) => c \in receita[r]
  BY DEF LerInadimplencia, SerieIInv, Somados, TypeOK
<1>3. /\ n \in Nat /\ meses[r].fracao \in BOOLEAN
      /\ mesBanco \in Nat /\ mesNode \in Nat /\ \A c \in Confirmacoes : Mes(c) \in Nat
  BY <1>2, Numeros DEF Janelas
<1>4. ASSUME NEW i \in 1..n
      PROVE  /\ serie[i].competencia = mesDe(i)
             /\ serie[i].receita = {c \in receita[r] : Chave(Mes(c)) = mesDe(i)}
  BY <1>1, <1>4 DEF Serie
<1>5. ASSUME NEW i \in 1..n
      PROVE  mesDe(i) \in Int /\ (~meses[r].fracao => mesDe(i) = mesNode - (n - i))
  <2>1. n - i \in Int
    BY <1>3
  <2> HIDE DEF n
  <2> QED
    BY <1>3, <2>1, MesInteiro
<1>6. \A c \in Confirmacoes : Mes(c) >= Chave(Mes(c))
  BY <1>2, <1>3 DEF Chave
<1>7. ASSUME NEW i \in 1..n, NEW c \in antes[r], Chave(Mes(c)) = mesDe(i),
             mesDe(i) >= mesNode - (n - 1) + IF mesBanco > mesNode THEN 1 ELSE 0
      PROVE  c \in receita[r]
  <2>1. Mes(c) >= mesBanco - (n - 1)
    BY <1>2, <1>3, <1>5, <1>6, <1>7 DEF SerieIInv, RelogiosProximos, Chave
  <2> QED
    BY <1>2, <2>1 DEF NaJanela
<1> HIDE DEF mesDe
<1>8. ASSUME NEW i \in 1..n
      PROVE  /\ serie[i].receita \subseteq DoMes(pagamentos, serie[i])
             /\ serie[i].competencia >= mesNode - (n - 1) + (IF mesBanco > mesNode THEN 1 ELSE 0) =>
                    DoMes(antes[r], serie[i]) \subseteq serie[i].receita
             /\ ~meses[r].fracao => serie[i].competencia = mesNode - (n - i)
  BY <1>2, <1>4, <1>5, <1>7 DEF DoMes
<1> QED
  BY <1>1, <1>8 DEF SerieDe, DoMes, Chave, Mes

LEMMA RelatarSerie ==
    ASSUME ConsultasAssumption, TypeOK, SerieIInv, NEW r \in Relatorios, Relatar(r)
    PROVE  SerieIInv'
<1>1. UNCHANGED <<tabelas, relogios>>
  BY DEF Relatar, PedirRelatorio, LerReceita, LerDespesa, LerInadimplencia, FalharRelatorio
<1>2. RelogiosProximos'
  BY <1>1 DEF SerieIInv, RelogiosProximos, relogios
<1>3. CASE LerInadimplencia(r)
  <2>1. /\ UNCHANGED <<meses, receita, antes>>
        /\ pcR'[r] = "200"
        /\ \A s \in Relatorios : s # r => pcR'[s] = pcR[s] /\ resposta'[s] = resposta[s]
    BY <1>3 DEF LerInadimplencia, TypeOK
  <2>2. Somados'
    BY <1>1, <2>1 DEF SerieIInv, Somados, NaJanela, Mes, tabelas, relogios
  <2>3. ASSUME NEW s \in Relatorios, s # r, pcR'[s] = "200" PROVE SerieDe(s)'
    <3>1. SerieDe(s)
      BY <2>1, <2>3 DEF SerieIInv, SerieFiel, SerieDe
    <3> QED
      BY <1>1, <2>1, <2>3, <3>1 DEF SerieDe, DoMes, Chave, Mes, tabelas, relogios
  <2>4. SerieFiel'
    BY <1>3, <2>3, SerieLida DEF SerieFiel, SerieDe
  <2> QED
    BY <1>2, <2>2, <2>4 DEF SerieIInv
<1>4. CASE ~LerInadimplencia(r)
  <2>1. /\ UNCHANGED resposta
        /\ \A s \in Relatorios : /\ pcR'[s] = "200" => pcR[s] = "200" /\ antes'[s] = antes[s]
                                                          /\ meses'[s] = meses[s]
                                 /\ s # r => /\ pcR'[s] = pcR[s] /\ antes'[s] = antes[s]
                                             /\ receita'[s] = receita[s] /\ meses'[s] = meses[s]
    BY <1>4 DEF Relatar, PedirRelatorio, LerReceita, LerDespesa, FalharRelatorio, TypeOK
  <2>2. SerieFiel'
    <3>1. ASSUME NEW s \in Relatorios, pcR'[s] = "200" PROVE SerieDe(s)'
      <4>1. SerieDe(s)
        BY <2>1, <3>1 DEF SerieIInv, SerieFiel, SerieDe
      <4> QED
        BY <1>1, <2>1, <3>1, <4>1 DEF SerieDe, DoMes, Chave, Mes, tabelas, relogios
    <3> QED
      BY <3>1 DEF SerieFiel, SerieDe
  <2>3. /\ receita'[r] \subseteq pagamentos /\ antes'[r] \subseteq pagamentos
        /\ pcR'[r] \in {"despesa", "inadimplencia"} =>
              /\ meses'[r] # NaN /\ meses'[r] = meses[r]
              /\ \A c \in antes'[r] : NaJanela(Mes(c), r) => c \in receita'[r]
    <3>1. ASSUME NEW q \in Meses, PedirRelatorio(r, q)
          PROVE  pcR'[r] = "receita" /\ antes'[r] = pagamentos /\ receita'[r] = receita[r]
      BY <3>1 DEF PedirRelatorio, TypeOK
    <3>2. CASE LerReceita(r)
      BY <3>2 DEF LerReceita, TypeOK, SerieIInv, Somados
    <3>3. CASE LerDespesa(r)
      BY <3>3 DEF LerDespesa, TypeOK, SerieIInv, Somados
    <3>4. CASE FalharRelatorio(r)
      BY <3>4 DEF FalharRelatorio, TypeOK, SerieIInv, Somados
    <3> QED
      BY <1>4, <3>1, <3>2, <3>3, <3>4 DEF Relatar, SerieIInv, Somados
  <2>4. Somados'
    BY <1>1, <2>1, <2>3 DEF SerieIInv, Somados, NaJanela, Mes, tabelas, relogios
  <2> QED
    BY <1>2, <2>2, <2>4 DEF SerieIInv
<1> QED
  BY <1>3, <1>4

LEMMA NextSerie ==
    ASSUME ConsultasAssumption, TypeOK, SerieIInv, [Next]_vars
    PROVE  SerieIInv'
<1>1. CASE Mudar
  <2>1. UNCHANGED <<relogios, relatorio>> /\ pagamentos \subseteq pagamentos'
    BY <1>1 DEF Mudar, LancarDespesa, GerarBoletos, Verificar, Baixar
  <2> QED
    BY <2>1, Numeros, ForaDoRelatorio DEF relogios, SerieIInv, RelogiosProximos
<1>2. CASE VirarMes
  BY <1>2, Numeros, ForaDoRelatorio DEF VirarMes, tabelas, SerieIInv, RelogiosProximos
<1>3. CASE Passar
  BY <1>3, Numeros, ForaDoRelatorio DEF Passar, tabelas, relogios, SerieIInv, RelogiosProximos
<1>4. ASSUME NEW l \in Leitores, Ler(l) PROVE SerieIInv'
  BY <1>4, Numeros, ForaDoRelatorio DEF Ler, Acertar, Errar, Achar, Guardar, FalharLista, tabelas,
                               relogios, SerieIInv, RelogiosProximos
<1>5. CASE UNCHANGED vars
  BY <1>5, Numeros, ForaDoRelatorio DEF vars, tabelas, relogios, SerieIInv, RelogiosProximos
<1> QED
  BY <1>1, <1>2, <1>3, <1>4, <1>5, RelatarSerie DEF Next

\* An entry of the report has no payment that does not exist or is of another month, and all
\* those made when it was asked for unless its month is older than the whole months of the
\* window, in whatever zone, however many months begin between the queries and whatever
\* number was asked for; a whole number gives each month once, up to the current one.
THEOREM SerieCompleta == ASSUME ConsultasAssumption PROVE Spec => []SerieFiel
<1>1. Init => SerieIInv
  BY DEF Init, SerieIInv, RelogiosProximos, Somados, SerieFiel
<1>2. TypeOK /\ SerieIInv /\ [Next]_vars => SerieIInv'
  BY NextSerie
<1>3. SerieIInv => SerieFiel
  BY DEF SerieIInv
<1> QED
  BY <1>1, <1>2, <1>3, TypeCorrect, PTL DEF Spec
=============================================================================
