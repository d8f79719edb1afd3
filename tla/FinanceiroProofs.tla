-------------------------- MODULE FinanceiroProofs --------------------------
(***************************************************************************)
(* Proofs about Financeiro, for every set of units and of calls and every   *)
(* bound on failures.                                                       *)
(*                                                                         *)
(* RespostaDuravel and DuplicataSoSobreposta say nothing of the calls that  *)
(* have loaded a boleto and not yet saved.  The invariant does: such a call *)
(* has seen exactly the BoletoGerado of its boleto, and every row of the    *)
(* event store is the BoletoGerado of its boleto or the payment, at version *)
(* 2, of a call that had seen only that.                                    *)
(*                                                                         *)
(* TotalConfere compares numbers: ContagemFiel, on top of that invariant,    *)
(* follows the rows, the count and the errors through every iteration.       *)
(*                                                                         *)
(* ReplayEmQualquerOrdem compares the rows with the fold of Boleto: what a    *)
(* fold computes comes from BoletoProofs (instance Replay).  By Historicos a  *)
(* boleto with rows has its BoletoGerado and payments, all of version 2, so   *)
(* every order of equal versions begins with the former and the replay of    *)
(* any number of payments after it is PAGO with one version per row.         *)
(***************************************************************************)
EXTENDS Financeiro, FiniteSetTheorems, TLAPS

Geradora(b) == Gerado(b, b[2])

\* What a row of the event store may be.
HistoricoBemFormado ==
    \A r \in eventos :
        \/ \E b \in Boletos : r = Geradora(b)
        \/ \E w \in Webhooks : /\ r = Pago(alvo[w], 2, w)
                               /\ pcW[w] \in {"fim", "erro"}
                               /\ alvo[w] \in Boletos
                               /\ lidos[w] = {Geradora(alvo[w])}

\* What a confirmation knows at each point.
ChamadasCoerentes ==
    \A w \in Webhooks :
        /\ pcW[w] = "gravando" => /\ alvo[w] \in Boletos
                                  /\ lidos[w] = {Geradora(alvo[w])}
                                  /\ Geradora(alvo[w]) \in eventos
        /\ pcW[w] = "fim" => \E r \in eventos : /\ r.boleto = alvo[w]
                                                /\ r.tipo = "PagamentoConfirmado"

\* What the loop of a generation has left behind.
UnidadesVisitadas ==
    \A g \in Geracoes :
        /\ \A u \in unidades[g] : \/ u \in restantes[g]
                                  \/ u \in falhou[g]
                                  \/ Gerado(<<u, g>>, g) \in eventos
        /\ pcG[g] \in {"outbox", "fim", "erro"} => restantes[g] = {}

\* The total cannot pass the number of units.
ContagemLimitada ==
    \A g \in Geracoes :
        /\ pcG[g] = "inicio" => totalGerados[g] = 0
        /\ totalGerados[g] + Cardinality(restantes[g]) <= Cardinality(Unidades)

IInv == /\ TypeOK /\ HistoricoBemFormado /\ ChamadasCoerentes
        /\ UnidadesVisitadas /\ ContagemLimitada

-----------------------------------------------------------------------------
\* Facts about finite sets of units, and about rows.

LEMMA UnidadesFinitas ==
    ASSUME NEW S \in SUBSET Unidades
    PROVE  /\ IsFiniteSet(S)
           /\ Cardinality(S) \in Nat
           /\ Cardinality(S) <= Cardinality(Unidades)
           /\ Cardinality(Unidades) \in Nat
           /\ \A u \in S : Cardinality(S \ {u}) = Cardinality(S) - 1
BY FinanceiroAssumption, FS_Subset, FS_CardinalityType, FS_RemoveElement

LEMMA GeradoEhEvento ==
    ASSUME NEW u \in Unidades, NEW g \in Geracoes
    PROVE  /\ <<u, g>> \in Boletos
           /\ Gerado(<<u, g>>, g) = Geradora(<<u, g>>)
           /\ Gerado(<<u, g>>, g) \in Evento
BY DEF Boletos, Gerado, Geradora, Evento

\* The rows of an open boleto are its BoletoGerado and nothing else.
LEMMA HistoricoAberto ==
    ASSUME IInv, NEW b \in Boletos, Status(LinhasDe(b)) = "ABERTO"
    PROVE  LinhasDe(b) = {Geradora(b)} /\ Geradora(b) \in eventos
<1>1. \A r \in LinhasDe(b) : r \in eventos /\ r.boleto = b /\ r.tipo # "PagamentoConfirmado"
  BY DEF Status, LinhasDe
<1>2. \A r \in LinhasDe(b) : r = Geradora(b)
  BY <1>1 DEF IInv, HistoricoBemFormado, Pago, Geradora, Gerado
<1>3. LinhasDe(b) # {}
  BY DEF Status
<1> QED
  BY <1>1, <1>2, <1>3

LEMMA StatusPago ==
    ASSUME NEW b, NEW r \in eventos, r.boleto = b, r.tipo = "PagamentoConfirmado"
    PROVE  Status(LinhasDe(b)) = "PAGO"
BY DEF Status, LinhasDe

\* The payment a call is about to append goes to version 2.
LEMMA NovoPagamentoVersao2 ==
    ASSUME IInv, NEW w \in Webhooks, pcW[w] = "gravando"
    PROVE  NovoPagamento(w) = Pago(alvo[w], 2, w) /\ NovoPagamento(w) \in Evento
<1>1. lidos[w] = {Geradora(alvo[w])} /\ alvo[w] \in Boletos
  BY DEF IInv, ChamadasCoerentes
<1>2. Versao(lidos[w]) = 1
  BY <1>1, FS_Singleton DEF Versao
<1>3. NovoPagamento(w) = Pago(alvo[w], 2, w)
  BY <1>2 DEF NovoPagamento
<1> QED
  BY <1>1, <1>3 DEF Pago, Evento

-----------------------------------------------------------------------------
LEMMA InitIInv == Init => IInv
<1>1. Cardinality(Unidades) \in Nat /\ Cardinality({}) = 0
  BY FinanceiroAssumption, FS_CardinalityType, FS_EmptySet
<1> QED
  BY <1>1, FinanceiroAssumption
     DEF Init, IInv, TypeOK, HistoricoBemFormado, ChamadasCoerentes, UnidadesVisitadas,
         ContagemLimitada

\* The loop starts with every unit found still to visit.
LEMMA IniciarGeracaoIInv ==
    ASSUME IInv, NEW g \in Geracoes, IniciarGeracao(g)
    PROVE  IInv'
<1>1. PICK us \in SUBSET Unidades :
        /\ unidades' = [unidades EXCEPT ![g] = us]
        /\ restantes' = [restantes EXCEPT ![g] = us]
        /\ pcG' = [pcG EXCEPT ![g] = IF us = {} THEN "fim" ELSE "gerando"]
  BY DEF IniciarGeracao
<1>2. UNCHANGED <<eventos, outbox, falhou, totalGerados, webhookVars, falhas>>
  BY DEF IniciarGeracao
<1>3. TypeOK'
  BY <1>1, <1>2 DEF IInv, TypeOK, webhookVars
<1>4. HistoricoBemFormado' /\ ChamadasCoerentes'
  BY <1>2 DEF IInv, HistoricoBemFormado, ChamadasCoerentes, webhookVars
<1>5. UnidadesVisitadas'
  BY <1>1, <1>2 DEF IInv, TypeOK, UnidadesVisitadas
<1>6. ContagemLimitada'
  BY <1>1, <1>2, UnidadesFinitas DEF IInv, TypeOK, ContagemLimitada, IniciarGeracao
<1> QED
  BY <1>3, <1>4, <1>5, <1>6 DEF IInv

-----------------------------------------------------------------------------
(* One iteration of the loop, whatever the insert did.  The condition of the count *)
(* is that it grows by at most the unit that leaves restantes.                     *)

LEMMA IteracaoIInv ==
    ASSUME IInv, NEW g \in Geracoes, NEW u \in Unidades, u \in restantes[g],
           pcG[g] = "gerando", Avancar(g, u),
           eventos' = eventos \/ eventos' = eventos \cup {Gerado(<<u, g>>, g)},
           \/ /\ eventos' = eventos \cup {Gerado(<<u, g>>, g)}
              /\ totalGerados' = [totalGerados EXCEPT ![g] = @ + 1]
              /\ falhou' = falhou
           \/ /\ totalGerados' = totalGerados
              /\ falhou' = [falhou EXCEPT ![g] = @ \cup {u}],
           falhas' \in 0..MaxFalhas,
           UNCHANGED <<outbox, unidades, webhookVars>>
    PROVE  IInv'
<1>1. /\ restantes' = [restantes EXCEPT ![g] = restantes[g] \ {u}]
      /\ pcG' = [pcG EXCEPT ![g] = IF restantes[g] = {u} THEN "outbox" ELSE "gerando"]
      /\ restantes \in [Geracoes -> SUBSET Unidades]
      /\ restantes'[g] = restantes[g] \ {u}
  BY DEF Avancar, IInv, TypeOK
<1>2. ContagemLimitada' /\ totalGerados' \in [Geracoes -> 0..Cardinality(Unidades)]
  <2>1. \A h \in Geracoes : /\ restantes[h] \in SUBSET Unidades
                            /\ totalGerados[h] \in Nat
                            /\ totalGerados[h] + Cardinality(restantes[h])
                                  <= Cardinality(Unidades)
    BY UnidadesFinitas DEF IInv, TypeOK, ContagemLimitada
  <2>2. /\ Cardinality(restantes'[g]) = Cardinality(restantes[g]) - 1
        /\ Cardinality(restantes'[g]) \in Nat
        /\ Cardinality(Unidades) \in Nat
    BY <1>1, <2>1, UnidadesFinitas
  <2>3. /\ totalGerados'[g] \in Nat
        /\ totalGerados'[g] + Cardinality(restantes'[g]) <= Cardinality(Unidades)
    BY <2>1, <2>2, UnidadesFinitas DEF IInv, TypeOK
  <2>4. \A h \in Geracoes : h # g => /\ totalGerados'[h] = totalGerados[h]
                                     /\ restantes'[h] = restantes[h]
                                     /\ pcG'[h] = pcG[h]
    BY <1>1 DEF IInv, TypeOK
  <2>5. pcG'[g] # "inicio"
    BY <1>1 DEF IInv, TypeOK
  <2>6. ContagemLimitada'
    BY <2>1, <2>3, <2>4, <2>5 DEF IInv, ContagemLimitada
  <2>7. \A h \in Geracoes : totalGerados'[h] \in 0..Cardinality(Unidades)
    BY <2>2, <2>3, <2>4 DEF IInv, TypeOK
  <2> QED
    BY <2>6, <2>7 DEF IInv, TypeOK
<1>3. eventos' \subseteq Evento
  BY GeradoEhEvento DEF IInv, TypeOK
<1>4. TypeOK'
  <2>1. falhou' \in [Geracoes -> SUBSET Unidades]
    BY DEF IInv, TypeOK
  <2>2. /\ restantes' \in [Geracoes -> SUBSET Unidades]
        /\ pcG' \in [Geracoes -> {"inicio", "gerando", "outbox", "fim", "erro", "morto"}]
    BY <1>1 DEF IInv, TypeOK
  <2> QED
    BY <1>2, <1>3, <2>1, <2>2 DEF IInv, TypeOK, webhookVars
<1>5. HistoricoBemFormado'
  BY GeradoEhEvento DEF IInv, HistoricoBemFormado, webhookVars
<1>6. ChamadasCoerentes'
  BY DEF IInv, ChamadasCoerentes, webhookVars
<1>7. UnidadesVisitadas'
  BY <1>1 DEF IInv, TypeOK, UnidadesVisitadas
<1> QED
  BY <1>2, <1>4, <1>5, <1>6, <1>7 DEF IInv

LEMMA SalvarBoletoIInv ==
    ASSUME IInv, NEW g \in Geracoes, NEW u \in Unidades, SalvarBoleto(g, u)
    PROVE  IInv'
BY IteracaoIInv DEF SalvarBoleto, IInv, TypeOK

LEMMA FalharBoletoIInv ==
    ASSUME IInv, NEW g \in Geracoes, NEW u \in Unidades, FalharBoleto(g, u)
    PROVE  IInv'
<1>1. falhas' \in 0..MaxFalhas
  BY FinanceiroAssumption DEF FalharBoleto, Falhar, IInv, TypeOK
<1> QED
  BY <1>1, IteracaoIInv DEF FalharBoleto

\* The insert into the outbox, done or failed, ends the call.
LEMMA OutboxIInv ==
    ASSUME IInv, NEW g \in Geracoes, GravarOutbox(g) \/ FalharOutbox(g)
    PROVE  IInv'
<1>1. /\ outbox' \subseteq [geracao : Geracoes, total : 0..Cardinality(Unidades)]
      /\ falhas' \in 0..MaxFalhas
  BY FinanceiroAssumption DEF GravarOutbox, FalharOutbox, Falhar, IInv, TypeOK
<1>2. /\ pcG[g] = "outbox"
      /\ \/ pcG' = [pcG EXCEPT ![g] = "fim"]
         \/ pcG' = [pcG EXCEPT ![g] = "erro"]
      /\ UNCHANGED <<eventos, unidades, restantes, falhou, totalGerados, webhookVars>>
  BY DEF GravarOutbox, FalharOutbox
<1>3. TypeOK'
  BY <1>1, <1>2 DEF IInv, TypeOK, webhookVars
<1>4. HistoricoBemFormado' /\ ChamadasCoerentes'
  BY <1>2 DEF IInv, HistoricoBemFormado, ChamadasCoerentes, webhookVars
<1>5. UnidadesVisitadas' /\ ContagemLimitada'
  BY <1>2 DEF IInv, TypeOK, UnidadesVisitadas, ContagemLimitada
<1> QED
  BY <1>3, <1>4, <1>5 DEF IInv

-----------------------------------------------------------------------------
\* A call that loads an open boleto has seen its BoletoGerado and nothing else; one
\* that finds it paid is answered with the payment already in the store.
LEMMA CarregarIInv ==
    ASSUME IInv, NEW w \in Webhooks, NEW b \in Boletos, Carregar(w, b)
    PROVE  IInv'
<1>1. /\ alvo' = [alvo EXCEPT ![w] = b]
      /\ lidos' = [lidos EXCEPT ![w] = LinhasDe(b)]
      /\ pcW[w] = "inicio"
      /\ UNCHANGED <<eventos, geracaoVars, falhas>>
  BY DEF Carregar
<1>2. /\ \A v \in Webhooks : v # w => /\ alvo'[v] = alvo[v]
                                      /\ lidos'[v] = lidos[v]
                                      /\ pcW'[v] = pcW[v]
      /\ alvo'[w] = b
      /\ lidos'[w] = LinhasDe(b)
  BY <1>1 DEF Carregar, IInv, TypeOK
<1>3. /\ pcW' \in [Webhooks -> {"inicio", "gravando", "fim", "naoEncontrado", "erro", "morto"}]
      /\ pcW'[w] = "gravando" => Status(LinhasDe(b)) = "ABERTO"
      /\ pcW'[w] = "fim" => Status(LinhasDe(b)) = "PAGO"
  BY DEF Carregar, IInv, TypeOK, Status
<1>4. TypeOK'
  BY <1>1, <1>3 DEF IInv, TypeOK, geracaoVars, LinhasDe
<1>5. HistoricoBemFormado'
  BY <1>1, <1>2 DEF IInv, HistoricoBemFormado
<1>6. ChamadasCoerentes'
  <2>1. ASSUME NEW v \in Webhooks, pcW'[v] = "gravando"
        PROVE  /\ alvo'[v] \in Boletos
               /\ lidos'[v] = {Geradora(alvo'[v])}
               /\ Geradora(alvo'[v]) \in eventos'
    <3>1. CASE v = w
      BY <1>1, <1>2, <1>3, <2>1, <3>1, HistoricoAberto
    <3>2. CASE v # w
      BY <1>1, <1>2, <2>1, <3>2 DEF IInv, ChamadasCoerentes
    <3> QED
      BY <3>1, <3>2
  <2>2. ASSUME NEW v \in Webhooks, pcW'[v] = "fim"
        PROVE  \E r \in eventos' : r.boleto = alvo'[v] /\ r.tipo = "PagamentoConfirmado"
    <3>1. CASE v = w
      BY <1>1, <1>2, <1>3, <2>2, <3>1 DEF Status, LinhasDe
    <3>2. CASE v # w
      BY <1>1, <1>2, <2>2, <3>2 DEF IInv, ChamadasCoerentes
    <3> QED
      BY <3>1, <3>2
  <2> QED
    BY <2>1, <2>2 DEF ChamadasCoerentes, Geradora, Gerado
<1>7. UnidadesVisitadas' /\ ContagemLimitada'
  BY <1>1 DEF IInv, UnidadesVisitadas, ContagemLimitada, geracaoVars
<1> QED
  BY <1>4, <1>5, <1>6, <1>7 DEF IInv

\* The save, done or failed, appends at most the payment of the call.
LEMMA PagamentoIInv ==
    ASSUME IInv, NEW w \in Webhooks, GravarPagamento(w) \/ FalharPagamento(w)
    PROVE  IInv'
<1>1. /\ pcW[w] = "gravando"
      /\ \/ /\ eventos' = eventos \cup {NovoPagamento(w)}
            /\ pcW' = [pcW EXCEPT ![w] = "fim"]
         \/ /\ eventos' \in {eventos, eventos \cup {NovoPagamento(w)}}
            /\ pcW' = [pcW EXCEPT ![w] = "erro"]
      /\ UNCHANGED <<geracaoVars, alvo, lidos>>
  BY DEF GravarPagamento, FalharPagamento
<1>2. falhas' \in 0..MaxFalhas
  BY FinanceiroAssumption DEF GravarPagamento, FalharPagamento, Falhar, IInv, TypeOK
<1>3. /\ NovoPagamento(w) = Pago(alvo[w], 2, w)
      /\ NovoPagamento(w) \in Evento
  BY <1>1, NovoPagamentoVersao2
<1>4. /\ pcW'[w] \in {"fim", "erro"}
      /\ \A v \in Webhooks : v # w => pcW'[v] = pcW[v]
  BY <1>1 DEF IInv, TypeOK
<1>5. alvo[w] \in Boletos /\ lidos[w] = {Geradora(alvo[w])}
  BY <1>1 DEF IInv, ChamadasCoerentes
<1>6. TypeOK'
  BY <1>1, <1>2, <1>3 DEF IInv, TypeOK, geracaoVars
<1>7. HistoricoBemFormado'
  BY <1>1, <1>3, <1>4, <1>5 DEF IInv, HistoricoBemFormado
<1>8. ChamadasCoerentes'
  <2>1. pcW'[w] = "fim" => NovoPagamento(w) \in eventos'
    BY <1>1 DEF IInv, TypeOK
  <2>2. /\ NovoPagamento(w).boleto = alvo[w]
        /\ NovoPagamento(w).tipo = "PagamentoConfirmado"
    BY <1>3 DEF Pago
  <2> QED
    BY <1>1, <1>4, <2>1, <2>2 DEF IInv, ChamadasCoerentes
<1>9. UnidadesVisitadas' /\ ContagemLimitada'
  BY <1>1 DEF IInv, UnidadesVisitadas, ContagemLimitada, geracaoVars
<1> QED
  BY <1>6, <1>7, <1>8, <1>9 DEF IInv

\* A crash answers nobody and leaves the rows.
LEMMA QuedaIInv == ASSUME IInv, Queda PROVE IInv'
<1>1. falhas' \in 0..MaxFalhas
  BY FinanceiroAssumption DEF Queda, Falhar, IInv, TypeOK
<1>2. /\ \A w \in Webhooks : pcW'[w] \in {pcW[w], "morto"}
                             /\ (pcW[w] \in {"fim", "erro"} => pcW'[w] = pcW[w])
      /\ \A g \in Geracoes : pcG'[g] \in {pcG[g], "morto"}
      /\ UNCHANGED <<eventos, outbox, unidades, restantes, falhou, totalGerados, alvo, lidos>>
  BY DEF Queda
<1>3. TypeOK'
  BY <1>1, <1>2 DEF Queda, IInv, TypeOK
<1>4. HistoricoBemFormado' /\ ChamadasCoerentes'
  BY <1>2 DEF IInv, HistoricoBemFormado, ChamadasCoerentes
<1>5. UnidadesVisitadas' /\ ContagemLimitada'
  BY <1>2 DEF IInv, UnidadesVisitadas, ContagemLimitada
<1> QED
  BY <1>3, <1>4, <1>5 DEF IInv

-----------------------------------------------------------------------------
LEMMA NextIInv == ASSUME IInv, [Next]_vars PROVE IInv'
<1>1. ASSUME NEW g \in Geracoes, Geracao(g) PROVE IInv'
  BY <1>1, IniciarGeracaoIInv, SalvarBoletoIInv, FalharBoletoIInv, OutboxIInv DEF Geracao
<1>2. ASSUME NEW w \in Webhooks, Confirmacao(w) PROVE IInv'
  BY <1>2, CarregarIInv, PagamentoIInv DEF Confirmacao
<1>3. CASE Queda
  BY <1>3, QuedaIInv
<1>4. CASE UNCHANGED vars
  BY <1>4 DEF vars, geracaoVars, webhookVars, IInv, TypeOK, HistoricoBemFormado,
              ChamadasCoerentes, UnidadesVisitadas, ContagemLimitada
<1> QED
  BY <1>1, <1>2, <1>3, <1>4 DEF Next

\* The inductive invariant holds in every reachable state.
THEOREM Invariante == Spec => []IInv
BY InitIInv, NextIInv, PTL DEF Spec

\* Type correctness, with totals that never pass the number of units.
THEOREM TypeCorrect == Spec => []TypeOK
<1>1. IInv => TypeOK
  BY DEF IInv
<1> QED
  BY <1>1, Invariante, PTL

\* A confirmation answered with success is durable, with any number of concurrent
\* confirmations and generations, failures and crashes.
THEOREM ConfirmacaoDuravel == Spec => []RespostaDuravel
<1>1. IInv => RespostaDuravel
  BY DEF IInv, ChamadasCoerentes, RespostaDuravel, Status, LinhasDe
<1> QED
  BY <1>1, Invariante, PTL

\* A payment is duplicated only by calls that overlapped, for any number of webhooks.
THEOREM RedeliveryInofensiva == Spec => []DuplicataSoSobreposta
<1>1. ASSUME IInv, NEW r \in eventos, NEW s \in eventos,
             r.tipo = "PagamentoConfirmado", s.tipo = "PagamentoConfirmado"
      PROVE  r.versao = s.versao /\ r \notin lidos[s.autor]
  <2>1. ASSUME NEW t \in eventos, t.tipo = "PagamentoConfirmado"
        PROVE  \E w \in Webhooks : t = Pago(alvo[w], 2, w) /\ lidos[w] = {Geradora(alvo[w])}
    BY <1>1, <2>1 DEF IInv, HistoricoBemFormado, Geradora, Gerado
  <2>2. r.versao = 2 /\ s.versao = 2
    BY <1>1, <2>1 DEF Pago
  <2>3. PICK w \in Webhooks : s = Pago(alvo[w], 2, w) /\ lidos[w] = {Geradora(alvo[w])}
    BY <1>1, <2>1
  <2>4. s.autor = w
    BY <2>3 DEF Pago
  <2>5. Geradora(alvo[w]).tipo = "BoletoGerado"
    BY DEF Geradora, Gerado
  <2> QED
    BY <1>1, <2>2, <2>3, <2>4, <2>5
<1>2. IInv => DuplicataSoSobreposta
  BY <1>1 DEF DuplicataSoSobreposta
<1> QED
  BY <1>2, Invariante, PTL

\* An error on one unit never makes the generation skip another, for any number of units.
THEOREM ErroNaoBloqueia == Spec => []NenhumaUnidadeEsquecida
<1>1. IInv => NenhumaUnidadeEsquecida
  BY DEF IInv, UnidadesVisitadas, NenhumaUnidadeEsquecida
<1> QED
  BY <1>1, Invariante, PTL

-----------------------------------------------------------------------------
(* The count of a generation against the rows it stored. *)

Gravadas(g) == {r \in eventos : r.tipo = "BoletoGerado" /\ r.autor = g}

\* A unit still to visit has neither a row nor an error, so each iteration adds at most
\* one row, and one to the count or to the errors; the announcement is the final count.
ContagemFiel ==
    /\ \A g \in Geracoes :
          /\ \A u \in restantes[g] : u \notin falhou[g] /\ Gerado(<<u, g>>, g) \notin eventos
          /\ pcG[g] = "inicio" => falhou[g] = {} /\ Gravadas(g) = {}
          /\ IsFiniteSet(Gravadas(g))
          /\ totalGerados[g] <= Cardinality(Gravadas(g))
          /\ Cardinality(Gravadas(g)) <= totalGerados[g] + Cardinality(falhou[g])
    /\ \A o \in outbox : /\ pcG[o.geracao] \in {"fim", "erro"}
                         /\ o.total = totalGerados[o.geracao]

LEMMA InitContagem == Init => ContagemFiel
<1> SUFFICES ASSUME Init PROVE ContagemFiel
  OBVIOUS
<1>1. \A g \in Geracoes : Gravadas(g) = {}
  BY DEF Init, Gravadas
<1>2. IsFiniteSet({}) /\ Cardinality({}) = 0
  BY FS_EmptySet
<1>3. \A g \in Geracoes : /\ IsFiniteSet(Gravadas(g))
                          /\ totalGerados[g] = 0
                          /\ Cardinality(Gravadas(g)) = 0
                          /\ Cardinality(falhou[g]) = 0
  BY <1>1, <1>2 DEF Init
<1> QED
  BY <1>1, <1>3 DEF Init, ContagemFiel

\* Steps that store no boleto and leave the loop of every generation as it was.
LEMMA SemBoletoContagem ==
    ASSUME IInv, ContagemFiel, UNCHANGED <<restantes, falhou, totalGerados>>,
           \A r \in eventos' : r \in eventos \/ r.tipo # "BoletoGerado",
           eventos \subseteq eventos',
           \A g \in Geracoes : pcG'[g] = "inicio" => pcG[g] = "inicio",
           \A o \in outbox' : /\ o.geracao \in Geracoes
                              /\ pcG'[o.geracao] \in {"fim", "erro"}
                              /\ o.total = totalGerados[o.geracao]
    PROVE  ContagemFiel'
<1>1. \A g \in Geracoes : Gravadas(g)' = Gravadas(g)
  BY DEF Gravadas
<1>2. \A g \in Geracoes : \A u \in restantes[g] : Gerado(<<u, g>>, g) \notin eventos'
  BY DEF ContagemFiel, Gerado
<1> QED
  BY <1>1, <1>2 DEF ContagemFiel

LEMMA IniciarContagem ==
    ASSUME IInv, ContagemFiel, NEW g \in Geracoes, IniciarGeracao(g)
    PROVE  ContagemFiel'
<1>1. PICK us \in SUBSET Unidades :
        /\ restantes' = [restantes EXCEPT ![g] = us]
        /\ pcG' = [pcG EXCEPT ![g] = IF us = {} THEN "fim" ELSE "gerando"]
  BY DEF IniciarGeracao
<1>2. pcG[g] = "inicio" /\ UNCHANGED <<eventos, outbox, falhou, totalGerados>>
  BY DEF IniciarGeracao
<1>3. \A h \in Geracoes : Gravadas(h)' = Gravadas(h)
  BY <1>2 DEF Gravadas
<1>4. \A u \in us : u \notin falhou[g] /\ Gerado(<<u, g>>, g) \notin eventos
  <2>1. \A u \in us : Gerado(<<u, g>>, g).tipo = "BoletoGerado" /\ Gerado(<<u, g>>, g).autor = g
    BY DEF Gerado
  <2>2. falhou[g] = {} /\ Gravadas(g) = {}
    BY <1>2 DEF ContagemFiel
  <2> QED
    BY <2>1, <2>2 DEF Gravadas
<1>5. \A h \in Geracoes : restantes'[h] = IF h = g THEN us ELSE restantes[h]
  BY <1>1 DEF IInv, TypeOK
<1>6. \A h \in Geracoes : pcG'[h] = "inicio" => pcG[h] = "inicio"
  BY <1>1 DEF IInv, TypeOK
<1>7. \A o \in outbox : pcG'[o.geracao] \in {"fim", "erro"}
  BY <1>1, <1>2 DEF IInv, TypeOK, ContagemFiel
<1> QED
  BY <1>2, <1>3, <1>4, <1>5, <1>6, <1>7 DEF ContagemFiel

\* One iteration: one row more, or none, and one more in the count or in the errors.
LEMMA IteracaoContagem ==
    ASSUME IInv, ContagemFiel, NEW g \in Geracoes, NEW u \in Unidades,
           SalvarBoleto(g, u) \/ FalharBoleto(g, u)
    PROVE  ContagemFiel'
<1> DEFINE x == Gerado(<<u, g>>, g)
<1>1. /\ pcG[g] = "gerando" /\ u \in restantes[g]
      /\ restantes' = [restantes EXCEPT ![g] = @ \ {u}]
      /\ pcG' = [pcG EXCEPT ![g] = IF restantes[g] = {u} THEN "outbox" ELSE "gerando"]
      /\ UNCHANGED outbox
      /\ \/ /\ eventos' = eventos \cup {x}
            /\ totalGerados' = [totalGerados EXCEPT ![g] = @ + 1]
            /\ UNCHANGED falhou
         \/ /\ eventos' \in {eventos, eventos \cup {x}}
            /\ falhou' = [falhou EXCEPT ![g] = @ \cup {u}]
            /\ UNCHANGED totalGerados
  BY DEF SalvarBoleto, FalharBoleto, Avancar
<1>2. /\ x \notin eventos /\ u \notin falhou[g]
      /\ x.tipo = "BoletoGerado" /\ x.autor = g
  BY <1>1 DEF ContagemFiel, Gerado
<1>3. /\ IsFiniteSet(Gravadas(g)) /\ Cardinality(Gravadas(g)) \in Nat
      /\ x \notin Gravadas(g)
      /\ totalGerados[g] \in Nat
      /\ totalGerados[g] <= Cardinality(Gravadas(g))
      /\ Cardinality(Gravadas(g)) <= totalGerados[g] + Cardinality(falhou[g])
  <2>1. IsFiniteSet(Gravadas(g)) /\ x \notin Gravadas(g)
    BY <1>2 DEF ContagemFiel, Gravadas
  <2>2. totalGerados[g] \in Nat
    BY UnidadesFinitas DEF IInv, TypeOK
  <2> QED
    BY <2>1, <2>2, FS_CardinalityType DEF ContagemFiel
<1>4. /\ IsFiniteSet(Gravadas(g) \cup {x})
      /\ Cardinality(Gravadas(g) \cup {x}) = Cardinality(Gravadas(g)) + 1
  BY <1>3, FS_AddElement
<1>5. /\ Cardinality(falhou[g]) \in Nat
      /\ Cardinality(falhou[g] \cup {u}) = Cardinality(falhou[g]) + 1
  <2>1. IsFiniteSet(falhou[g])
    BY UnidadesFinitas DEF IInv, TypeOK
  <2> QED
    BY <1>2, <2>1, FS_AddElement, FS_CardinalityType
<1>6. /\ eventos' = eventos => Gravadas(g)' = Gravadas(g)
      /\ eventos' = eventos \cup {x} => Gravadas(g)' = Gravadas(g) \cup {x}
      /\ \A h \in Geracoes : h # g => Gravadas(h)' = Gravadas(h)
  BY <1>1, <1>2 DEF Gravadas
<1>7. \A h \in Geracoes : h # g => /\ restantes'[h] = restantes[h]
                                   /\ pcG'[h] = pcG[h]
                                   /\ falhou'[h] = falhou[h]
                                   /\ totalGerados'[h] = totalGerados[h]
  BY <1>1 DEF IInv, TypeOK
<1>8. /\ IsFiniteSet(Gravadas(g)')
      /\ totalGerados'[g] <= Cardinality(Gravadas(g)')
      /\ Cardinality(Gravadas(g)') <= totalGerados'[g] + Cardinality(falhou'[g])
  <2>1. CASE eventos' = eventos \cup {x} /\ totalGerados'[g] = totalGerados[g] + 1
             /\ falhou'[g] = falhou[g]
    <3>1. Gravadas(g)' = Gravadas(g) \cup {x}
      BY <1>6, <2>1
    <3>2. IsFiniteSet(Gravadas(g)') /\ Cardinality(Gravadas(g)') = Cardinality(Gravadas(g)) + 1
      BY <1>4, <3>1
    <3> QED
      BY <1>3, <1>5, <2>1, <3>2
  <2>2. CASE eventos' \in {eventos, eventos \cup {x}} /\ falhou'[g] = falhou[g] \cup {u}
             /\ totalGerados'[g] = totalGerados[g]
    <3>1. Gravadas(g)' \in {Gravadas(g), Gravadas(g) \cup {x}}
      BY <1>6, <2>2
    <3>2. /\ IsFiniteSet(Gravadas(g)')
          /\ Cardinality(Gravadas(g)')
                \in {Cardinality(Gravadas(g)), Cardinality(Gravadas(g)) + 1}
      BY <1>3, <1>4, <3>1
    <3>3. Cardinality(falhou'[g]) = Cardinality(falhou[g]) + 1
      BY <1>5, <2>2
    <3> QED
      BY <1>3, <1>5, <2>2, <3>2, <3>3
  <2> QED
    BY <1>1, <2>1, <2>2 DEF IInv, TypeOK
<1>9. ASSUME NEW h \in Geracoes, NEW v \in restantes'[h]
      PROVE  v \notin falhou'[h] /\ Gerado(<<v, h>>, h) \notin eventos'
  <2>1. v \in restantes[h] /\ (h = g => v # u)
    BY <1>1, <1>9 DEF IInv, TypeOK
  <2>2. Gerado(<<v, h>>, h) # x
    BY <2>1 DEF Gerado
  <2>3. v \notin falhou'[h]
    <3>1. v \notin falhou[h]
      BY <2>1 DEF ContagemFiel
    <3>2. falhou'[h] = falhou[h] \/ (h = g /\ falhou'[h] = falhou[h] \cup {u})
      BY <1>1, <1>7 DEF IInv, TypeOK
    <3> QED
      BY <2>1, <3>1, <3>2
  <2> QED
    BY <1>1, <2>1, <2>2, <2>3 DEF ContagemFiel
<1>10. pcG'[g] # "inicio"
  BY <1>1 DEF IInv, TypeOK
<1>11. \A o \in outbox : o.geracao \in Geracoes /\ o.geracao # g
  BY <1>1 DEF IInv, TypeOK, ContagemFiel
<1>12. ASSUME NEW h \in Geracoes
       PROVE  /\ pcG'[h] = "inicio" => falhou'[h] = {} /\ Gravadas(h)' = {}
              /\ IsFiniteSet(Gravadas(h)')
              /\ totalGerados'[h] <= Cardinality(Gravadas(h)')
              /\ Cardinality(Gravadas(h)') <= totalGerados'[h] + Cardinality(falhou'[h])
  <2>1. CASE h = g
    BY <1>8, <1>10, <2>1
  <2>2. CASE h # g
    BY <1>6, <1>7, <2>2 DEF ContagemFiel
  <2> QED
    BY <2>1, <2>2
<1> QED
  BY <1>1, <1>7, <1>9, <1>11, <1>12 DEF ContagemFiel, Gravadas

LEMMA NextContagem == ASSUME IInv, ContagemFiel, [Next]_vars PROVE ContagemFiel'
<1>1. ASSUME NEW g \in Geracoes, GravarOutbox(g) \/ FalharOutbox(g) PROVE ContagemFiel'
  <2>1. /\ pcG[g] = "outbox"
        /\ outbox' \in {outbox, outbox \cup {[geracao |-> g, total |-> totalGerados[g]]}}
        /\ \/ pcG' = [pcG EXCEPT ![g] = "fim"]
           \/ pcG' = [pcG EXCEPT ![g] = "erro"]
        /\ UNCHANGED <<eventos, restantes, falhou, totalGerados>>
    BY <1>1 DEF GravarOutbox, FalharOutbox
  <2>2. \A o \in outbox' : /\ o.geracao \in Geracoes
                           /\ pcG'[o.geracao] \in {"fim", "erro"}
                           /\ o.total = totalGerados[o.geracao]
    BY <2>1 DEF IInv, TypeOK, ContagemFiel
  <2> QED
    BY <2>1, <2>2, SemBoletoContagem DEF IInv, TypeOK
<1>2. ASSUME NEW w \in Webhooks, Confirmacao(w) PROVE ContagemFiel'
  <2>1. /\ eventos' \in {eventos, eventos \cup {NovoPagamento(w)}}
        /\ UNCHANGED geracaoVars
    BY <1>2 DEF Confirmacao, Carregar, GravarPagamento, FalharPagamento
  <2>2. NovoPagamento(w).tipo = "PagamentoConfirmado"
    BY DEF NovoPagamento, Pago
  <2> QED
    BY <2>1, <2>2, SemBoletoContagem DEF geracaoVars, IInv, TypeOK, ContagemFiel
<1>3. CASE Queda
  <2>1. \A g \in Geracoes : /\ pcG'[g] \in {pcG[g], "morto"}
                            /\ pcG[g] \in {"fim", "erro"} => pcG'[g] = pcG[g]
    BY <1>3 DEF Queda
  <2> QED
    BY <1>3, <2>1, SemBoletoContagem DEF Queda, IInv, TypeOK, ContagemFiel
<1>4. CASE UNCHANGED vars
  BY <1>4 DEF vars, geracaoVars, ContagemFiel, Gravadas
<1> QED
  BY <1>1, <1>2, <1>3, <1>4, IniciarContagem, IteracaoContagem DEF Next, Geracao

\* The announced total is the number of boletos stored, but for inserts that answered
\* with an error after committing (gerar-boletos-mes.handler.ts:54 and :61).
THEOREM TotalVerdadeiro == Spec => []TotalConfere
<1>1. IInv /\ ContagemFiel => TotalConfere
  BY DEF IInv, TypeOK, ContagemFiel, TotalConfere, Gravadas
<1> QED
  BY <1>1, InitContagem, NextContagem, Invariante, PTL DEF Spec

\* A call answered with success stored nothing or announced its total.
Anunciado ==
    \A g \in Geracoes : pcG[g] = "fim" =>
        Gravadas(g) = {} \/ [geracao |-> g, total |-> totalGerados[g]] \in outbox

LEMMA NextAnunciado ==
    ASSUME IInv, ContagemFiel, Anunciado, [Next]_vars PROVE Anunciado'
<1>1. ASSUME NEW g \in Geracoes, Geracao(g) PROVE Anunciado'
  <2>1. \A h \in Geracoes : h # g =>
           /\ pcG'[h] = pcG[h] /\ totalGerados'[h] = totalGerados[h]
           /\ Gravadas(h)' = Gravadas(h)
    <3>1. /\ \A h \in Geracoes : h # g =>
                 pcG'[h] = pcG[h] /\ totalGerados'[h] = totalGerados[h]
          /\ \/ eventos' = eventos
             \/ \E u \in Unidades : eventos' = eventos \cup {Gerado(<<u, g>>, g)}
      BY <1>1 DEF Geracao, IniciarGeracao, SalvarBoleto, FalharBoleto, Avancar, GravarOutbox,
                  FalharOutbox, IInv, TypeOK
    <3>2. \A u : Gerado(<<u, g>>, g).autor = g
      BY DEF Gerado
    <3> QED
      BY <3>1, <3>2 DEF Gravadas
  <2>2. outbox \subseteq outbox'
    BY <1>1 DEF Geracao, IniciarGeracao, SalvarBoleto, FalharBoleto, GravarOutbox, FalharOutbox
  <2>3. pcG'[g] = "fim" =>
           Gravadas(g)' = {} \/ [geracao |-> g, total |-> totalGerados'[g]] \in outbox'
    <3>1. CASE IniciarGeracao(g)
      BY <3>1 DEF IniciarGeracao, ContagemFiel, Gravadas
    <3>2. CASE \E u \in Unidades : SalvarBoleto(g, u) \/ FalharBoleto(g, u)
      BY <3>2 DEF SalvarBoleto, FalharBoleto, Avancar, IInv, TypeOK
    <3>3. CASE GravarOutbox(g)
      BY <3>3 DEF GravarOutbox
    <3>4. CASE FalharOutbox(g)
      BY <3>4 DEF FalharOutbox, IInv, TypeOK
    <3> QED
      BY <1>1, <3>1, <3>2, <3>3, <3>4 DEF Geracao
  <2> QED
    BY <2>1, <2>2, <2>3 DEF Anunciado
<1>2. ASSUME NEW w \in Webhooks, Confirmacao(w) PROVE Anunciado'
  <2>1. /\ eventos' \in {eventos, eventos \cup {NovoPagamento(w)}}
        /\ UNCHANGED geracaoVars
    BY <1>2 DEF Confirmacao, Carregar, GravarPagamento, FalharPagamento
  <2>2. NovoPagamento(w).tipo = "PagamentoConfirmado"
    BY DEF NovoPagamento, Pago
  <2>3. \A g \in Geracoes : Gravadas(g)' = Gravadas(g)
    BY <2>1, <2>2 DEF Gravadas
  <2> QED
    BY <2>1, <2>3 DEF Anunciado, geracaoVars
<1>3. CASE Queda
  BY <1>3 DEF Queda, Anunciado, Gravadas
<1>4. CASE UNCHANGED vars
  BY <1>4 DEF vars, geracaoVars, Anunciado, Gravadas
<1> QED
  BY <1>1, <1>2, <1>3, <1>4 DEF Next

\* Boletos are left without an announcement only by calls that were not answered with
\* success (gerar-boletos-mes.handler.ts:68), for any units, tenants and failures.
THEOREM AnuncioGarantido == Spec => []NadaSemAnuncio
<1>1. Init => Anunciado
  BY DEF Init, Anunciado
<1>2. IInv /\ Anunciado => NadaSemAnuncio
  <2> SUFFICES ASSUME IInv, Anunciado, NEW r \in eventos, r.tipo = "BoletoGerado",
                      pcG[r.autor] = "fim"
               PROVE  [geracao |-> r.autor, total |-> totalGerados[r.autor]] \in outbox
    BY DEF NadaSemAnuncio
  <2>1. r.autor \in Geracoes
    BY DEF IInv, HistoricoBemFormado, Geradora, Gerado, Pago, Boletos
  <2> QED
    BY <2>1 DEF Anunciado, Gravadas
<1> QED
  BY <1>1, <1>2, InitContagem, NextContagem, NextAnunciado, Invariante, PTL DEF Spec

-----------------------------------------------------------------------------
(* Refinement of CicloBoleto. *)

\* A new row moves only the status of its own boleto.
LEMMA StatusMove ==
    ASSUME NEW x \in Evento, eventos' = eventos \cup {x}
    PROVE  StatusDosBoletos' = [StatusDosBoletos EXCEPT ![x.boleto] = Status(LinhasDe(x.boleto))']
<1>1. \A b \in Boletos : b # x.boleto => LinhasDe(b)' = LinhasDe(b)
  BY DEF LinhasDe
<1>2. \A b \in Boletos : b # x.boleto => Status(LinhasDe(b))' = Status(LinhasDe(b))
  BY <1>1 DEF Status
<1>3. x.boleto \in Boletos
  BY DEF Evento
<1> QED
  BY <1>2, <1>3 DEF StatusDosBoletos

\* Storing a BoletoGerado opens its boleto, or changes nothing.
LEMMA GeradoSimula ==
    ASSUME NEW u \in Unidades, NEW g \in Geracoes,
           eventos' = eventos \/ eventos' = eventos \cup {Gerado(<<u, g>>, g)}
    PROVE  [Ciclo!Next]_StatusDosBoletos
<1> DEFINE b == <<u, g>>
           x == Gerado(b, g)
<1>1. b \in Boletos /\ x \in Evento /\ x.boleto = b /\ x.tipo = "BoletoGerado"
  BY GeradoEhEvento DEF Gerado
<1>2. CASE eventos' = eventos
  BY <1>2 DEF StatusDosBoletos, Status, LinhasDe
<1>3. CASE eventos' = eventos \cup {x}
  <2>1. StatusDosBoletos' = [StatusDosBoletos EXCEPT ![b] = Status(LinhasDe(b))']
    BY <1>1, <1>3, StatusMove
  <2>2. LinhasDe(b)' = LinhasDe(b) \cup {x}
    BY <1>1, <1>3 DEF LinhasDe
  <2>3. StatusDosBoletos[b] = Status(LinhasDe(b))
    BY <1>1 DEF StatusDosBoletos
  <2>4. CASE LinhasDe(b) = {}
    <3>1. Status(LinhasDe(b)) = "inexistente" /\ Status(LinhasDe(b))' = "ABERTO"
      BY <1>1, <2>2, <2>4 DEF Status
    <3> QED
      BY <1>1, <2>1, <2>3, <3>1 DEF Ciclo!Next, Ciclo!Gerar
  <2>5. CASE LinhasDe(b) # {}
    <3>1. Status(LinhasDe(b))' = Status(LinhasDe(b))
      BY <1>1, <2>2, <2>5 DEF Status
    <3> QED
      BY <1>1, <2>1, <2>3, <3>1 DEF StatusDosBoletos
  <2> QED
    BY <2>4, <2>5
<1> QED
  BY <1>2, <1>3

\* Storing a payment pays an open boleto, or changes nothing.
LEMMA PagamentoSimula ==
    ASSUME IInv, NEW w \in Webhooks, pcW[w] = "gravando",
           eventos' = eventos \/ eventos' = eventos \cup {NovoPagamento(w)}
    PROVE  [Ciclo!Next]_StatusDosBoletos
<1>0. alvo[w] \in Boletos /\ Geradora(alvo[w]) \in eventos /\ NovoPagamento(w) \in Evento
  BY NovoPagamentoVersao2 DEF IInv, ChamadasCoerentes
<1>b. PICK b \in Boletos : b = alvo[w]
  BY <1>0
<1>x. PICK x \in Evento : x = NovoPagamento(w)
  BY <1>0
<1>1. x.boleto = b /\ x.tipo = "PagamentoConfirmado" /\ LinhasDe(b) # {}
  BY <1>0, <1>b, <1>x DEF NovoPagamento, Pago, LinhasDe, Geradora, Gerado
<1>2. CASE eventos' = eventos
  BY <1>2 DEF StatusDosBoletos, Status, LinhasDe
<1>3. CASE eventos' = eventos \cup {x}
  <2>1. StatusDosBoletos' = [StatusDosBoletos EXCEPT ![b] = Status(LinhasDe(b))']
    BY <1>1, <1>3, StatusMove
  <2>2. LinhasDe(b)' = LinhasDe(b) \cup {x}
    BY <1>1, <1>3 DEF LinhasDe
  <2>3. StatusDosBoletos[b] = Status(LinhasDe(b))
    BY <1>1 DEF StatusDosBoletos
  <2>4. Status(LinhasDe(b))' = "PAGO"
    BY <1>1, <2>2 DEF Status
  <2>5. Status(LinhasDe(b)) \in {"ABERTO", "PAGO"}
    BY <1>1 DEF Status
  <2>6. CASE Status(LinhasDe(b)) = "ABERTO"
    BY <1>1, <2>1, <2>3, <2>4, <2>6 DEF Ciclo!Next, Ciclo!Pagar
  <2>7. CASE Status(LinhasDe(b)) = "PAGO"
    BY <1>1, <2>1, <2>3, <2>4, <2>7 DEF StatusDosBoletos
  <2> QED
    BY <2>5, <2>6, <2>7
<1> QED
  BY <1>x, <1>2, <1>3

\* Every other step leaves the event store, hence every status, as it was.
LEMMA PassoSimula == ASSUME IInv, [Next]_vars PROVE [Ciclo!Next]_StatusDosBoletos
<1>1. CASE eventos' = eventos
  BY <1>1 DEF StatusDosBoletos, Status, LinhasDe
<1>2. ASSUME NEW g \in Geracoes, NEW u \in Unidades, SalvarBoleto(g, u) \/ FalharBoleto(g, u)
      PROVE  [Ciclo!Next]_StatusDosBoletos
  BY <1>2, GeradoSimula DEF SalvarBoleto, FalharBoleto
<1>3. ASSUME NEW w \in Webhooks, GravarPagamento(w) \/ FalharPagamento(w)
      PROVE  [Ciclo!Next]_StatusDosBoletos
  BY <1>3, PagamentoSimula DEF GravarPagamento, FalharPagamento
<1> QED
  BY <1>1, <1>2, <1>3
     DEF Next, Geracao, Confirmacao, IniciarGeracao, GravarOutbox, FalharOutbox, Carregar,
         Queda, vars

\* Financeiro implements the abstract life of a boleto: no interleaving of generations,
\* confirmations, failures and crashes makes a boleto pay before it exists or un-pay.
THEOREM Refinamento == Spec => ImplementaCiclo
<1>1. Init => Ciclo!Init
  BY DEF Init, Ciclo!Init, StatusDosBoletos, Status, LinhasDe
<1> QED
  BY <1>1, PassoSimula, Invariante, PTL DEF Spec, ImplementaCiclo, Ciclo!Spec


-----------------------------------------------------------------------------
(* The replay of the stored rows. *)

\* BoletoProofs says what the fold behind fromHistory() computes; of the aggregate it
\* describes only the replay is needed here.
Replay == INSTANCE BoletoProofs WITH
    Valores <- {100}, Percentuais <- {}, JurosDia <- {}, Dias <- {}, MaxEventos <- 2,
    vivo <- FALSE, boleto <- Agregado!Inexistente, pendentes <- <<>>, armazem <- <<>>

LEMMA ReplayIgual == ASSUME NEW ev PROVE Agregado!FromHistory(ev) = Replay!FromHistory(ev)
BY DEF Agregado!FromHistory, Replay!FromHistory, Agregado!FoldLeft, Replay!FoldLeft,
       Agregado!MapThenFoldSet, Replay!MapThenFoldSet, Agregado!Apply, Replay!Apply,
       Agregado!Inexistente, Replay!Inexistente, Agregado!Max, Replay!Max

LEMMA ReplayVazio == Agregado!FromHistory(<<>>) = Agregado!Inexistente
<1>1. Replay!Inexistente = Agregado!Inexistente
  BY DEF Replay!Inexistente, Agregado!Inexistente
<1> QED
  BY <1>1, ReplayIgual, Replay!FromHistoryVazia

LEMMA ReplayAppend ==
    ASSUME NEW T, NEW ev \in Seq(T), NEW e \in T
    PROVE  Agregado!FromHistory(Append(ev, e)) = Agregado!Apply(Agregado!FromHistory(ev), e)
<1>1. Replay!FromHistory(Append(ev, e)) = Replay!Apply(Replay!FromHistory(ev), e)
  BY Replay!FromHistoryAppend
<1>2. Replay!Apply(Replay!FromHistory(ev), e) = Agregado!Apply(Replay!FromHistory(ev), e)
  BY DEF Replay!Apply, Agregado!Apply
<1> QED
  BY <1>1, <1>2, ReplayIgual

\* The aggregate after the BoletoGerado and the payments of the first n rows.
Reconstruido(n) ==
    [valorOriginal |-> 100, valorMulta |-> 0, valorJuros |-> 0,
     status |-> IF n = 1 THEN "ABERTO" ELSE "PAGO", version |-> n]

LEMMA AplicarGeracao ==
    Agregado!Apply(Agregado!Inexistente, Agregado!BoletoGerado(100)) = Reconstruido(1)
<1>1. Agregado!Inexistente.version + 1 = 1
  BY DEF Agregado!Inexistente
<1>2. Agregado!Apply(Agregado!Inexistente, Agregado!BoletoGerado(100)) =
        [Agregado!Inexistente EXCEPT !.valorOriginal = 100, !.status = "ABERTO", !.version = 1]
  BY <1>1 DEF Agregado!Apply, Agregado!BoletoGerado
<1> QED
  BY <1>2 DEF Agregado!Inexistente, Reconstruido

Objeto == [valorOriginal : Nat, valorMulta : Nat, valorJuros : Nat,
           status : {"ABERTO", "PAGO"}, version : Nat]

LEMMA Pagando ==
    ASSUME NEW b \in Objeto, NEW n \in Nat
    PROVE  [b EXCEPT !.status = "PAGO", !.version = n] =
             [valorOriginal |-> b.valorOriginal, valorMulta |-> b.valorMulta,
              valorJuros |-> b.valorJuros, status |-> "PAGO", version |-> n]
<1> DEFINE r == [b EXCEPT !.status = "PAGO", !.version = n]
<1>1. r \in Objeto
  BY DEF Objeto
<1>2. /\ r.valorOriginal = b.valorOriginal /\ r.valorMulta = b.valorMulta
      /\ r.valorJuros = b.valorJuros
  BY DEF Objeto
<1>3. r.status = "PAGO"
  BY DEF Objeto
<1>4. r.version = n
  BY DEF Objeto
<1> HIDE DEF r
<1>5. r = [valorOriginal |-> b.valorOriginal, valorMulta |-> b.valorMulta,
           valorJuros |-> b.valorJuros, status |-> "PAGO", version |-> n]
  BY <1>1, <1>2, <1>3, <1>4 DEF Objeto
<1> QED
  BY <1>5 DEF r

LEMMA AplicarPagamento ==
    ASSUME NEW n \in Nat \ {0}
    PROVE  Agregado!Apply(Reconstruido(n), Agregado!PagamentoConfirmado) = Reconstruido(n + 1)
<1> DEFINE b == Reconstruido(n)
<1>1. /\ b \in Objeto
      /\ b.valorOriginal = 100 /\ b.valorMulta = 0 /\ b.valorJuros = 0 /\ b.version = n
  BY DEF Reconstruido, Objeto
<1>2. Agregado!Apply(b, Agregado!PagamentoConfirmado) =
        [b EXCEPT !.status = "PAGO", !.version = n + 1]
  BY <1>1 DEF Agregado!Apply, Agregado!PagamentoConfirmado
<1>3. n + 1 \in Nat /\ n + 1 # 1
  OBVIOUS
<1> HIDE DEF b
<1>4. [b EXCEPT !.status = "PAGO", !.version = n + 1] =
        [valorOriginal |-> b.valorOriginal, valorMulta |-> b.valorMulta,
         valorJuros |-> b.valorJuros, status |-> "PAGO", version |-> n + 1]
  BY <1>1, <1>3, Pagando, Zenon
<1>5. Agregado!Apply(b, Agregado!PagamentoConfirmado) =
        [valorOriginal |-> 100, valorMulta |-> 0, valorJuros |-> 0,
         status |-> "PAGO", version |-> n + 1]
  BY <1>1, <1>2, <1>4, Zenon
<1> QED
  BY <1>3, <1>5, Zenon DEF Reconstruido, b

\* The replay of a generation and any number of payments: the first decides, the rest count.
LEMMA ReplayDosPagamentos ==
    ASSUME NEW n \in Nat \ {0}, NEW T, NEW ev \in [1..n -> T],
           ev[1] = Agregado!BoletoGerado(100), \A i \in 2..n : ev[i] = Agregado!PagamentoConfirmado
    PROVE  Agregado!FromHistory(ev) = Reconstruido(n)
<1> DEFINE Certos == {k \in Nat : k + 1 <= n =>
                         Agregado!FromHistory(SubSeq(ev, 1, k + 1)) = Reconstruido(k + 1)}
<1>1. ev \in Seq(T) /\ Len(ev) = n /\ \A k \in 1..n : SubSeq(ev, 1, k) \in Seq(T)
  OBVIOUS
<1>2. 0 \in Certos
  <2>1. SubSeq(ev, 1, 1) = <<ev[1]>> /\ ev[1] \in T
    <3>1. /\ SubSeq(ev, 1, 1) \in Seq(T) /\ Len(SubSeq(ev, 1, 1)) = 1
          /\ SubSeq(ev, 1, 1)[1] = ev[1] /\ ev[1] \in T
      BY <1>1
    <3>2. \A q \in Seq(T) : Len(q) = 1 => q = <<q[1]>>
      OBVIOUS
    <3> QED
      BY <3>1, <3>2
  <2>2. Append(<<>>, ev[1]) = <<ev[1]>> /\ <<>> \in Seq(T)
    OBVIOUS
  <2>3. Agregado!FromHistory(<<ev[1]>>) = Agregado!Apply(Agregado!Inexistente, ev[1])
    BY <2>1, <2>2, ReplayVazio, ReplayAppend
  <2>4. Agregado!FromHistory(SubSeq(ev, 1, 1)) = Reconstruido(1)
    BY <2>1, <2>3, AplicarGeracao
  <2>5. 0 + 1 = 1
    OBVIOUS
  <2> QED
    BY <2>4, <2>5
<1>3. ASSUME NEW k \in Certos PROVE k + 1 \in Certos
  <2> SUFFICES ASSUME k + 2 <= n
               PROVE  Agregado!FromHistory(SubSeq(ev, 1, k + 2)) = Reconstruido(k + 2)
    OBVIOUS
  <2>1. Agregado!FromHistory(SubSeq(ev, 1, k + 1)) = Reconstruido(k + 1)
    OBVIOUS
  <2>2. /\ SubSeq(ev, 1, k + 2) = Append(SubSeq(ev, 1, k + 1), ev[k + 2])
        /\ SubSeq(ev, 1, k + 1) \in Seq(T)
    BY <1>1
  <2>3. ev[k + 2] = Agregado!PagamentoConfirmado /\ ev[k + 2] \in T
    BY <1>1
  <2>4. Agregado!FromHistory(SubSeq(ev, 1, k + 2)) = Agregado!Apply(Reconstruido(k + 1), ev[k + 2])
    BY <2>1, <2>2, <2>3, ReplayAppend
  <2> QED
    BY <2>3, <2>4, AplicarPagamento
<1> HIDE DEF Certos
<1>4. Certos = Nat
  <2>1. Certos \in SUBSET Nat
    BY DEF Certos
  <2> QED
    BY <1>2, <1>3, <2>1, Replay!Inducao
<1>5. Agregado!FromHistory(SubSeq(ev, 1, n)) = Reconstruido(n)
  <2>1. n - 1 \in Certos /\ (n - 1) + 1 = n
    BY <1>4
  <2> QED
    BY <2>1 DEF Certos
<1>6. SubSeq(ev, 1, n) = ev
  BY <1>1
<1> QED
  BY <1>5, <1>6

\* Rows are finitely many, and the history of a boleto has its BoletoGerado.
Historicos == IsFiniteSet(eventos) /\ \A r \in eventos : Geradora(r.boleto) \in eventos

LEMMA NextHistoricos == ASSUME IInv, Historicos, [Next]_vars PROVE Historicos'
<1>1. CASE eventos' = eventos
  BY <1>1 DEF Historicos
<1>2. ASSUME NEW r, eventos' = eventos \cup {r}, Geradora(r.boleto) \in eventos'
      PROVE  Historicos'
  BY <1>2, FS_AddElement DEF Historicos
<1>3. ASSUME NEW g \in Geracoes, NEW u \in Unidades,
             eventos' \in {eventos, eventos \cup {Gerado(<<u, g>>, g)}}
      PROVE  Historicos'
  BY <1>1, <1>2, <1>3 DEF Gerado, Geradora
<1>4. ASSUME NEW w \in Webhooks, pcW[w] = "gravando",
             eventos' \in {eventos, eventos \cup {NovoPagamento(w)}}
      PROVE  Historicos'
  <2>1. NovoPagamento(w).boleto = alvo[w] /\ Geradora(alvo[w]) \in eventos
    BY <1>4 DEF NovoPagamento, Pago, IInv, ChamadasCoerentes
  <2> QED
    BY <1>1, <1>2, <1>4, <2>1
<1>5. ASSUME NEW g \in Geracoes, Geracao(g) PROVE Historicos'
  BY <1>1, <1>3, <1>5 DEF Geracao, IniciarGeracao, SalvarBoleto, FalharBoleto, GravarOutbox, FalharOutbox
<1>6. ASSUME NEW w \in Webhooks, Confirmacao(w) PROVE Historicos'
  BY <1>1, <1>4, <1>6 DEF Confirmacao, Carregar, GravarPagamento, FalharPagamento
<1> QED
  BY <1>1, <1>5, <1>6 DEF Next, Queda, vars

\* In version order the BoletoGerado comes first and only payments follow.
LEMMA LinhasOrdenadas ==
    ASSUME IInv, Historicos, NEW b \in Boletos, LinhasDe(b) # {},
           NEW s \in OrdensPorVersao(LinhasDe(b))
    PROVE  /\ Cardinality(LinhasDe(b)) \in Nat \ {0}
           /\ s \in [1..Cardinality(LinhasDe(b)) -> LinhasDe(b)]
           /\ s[1] = Geradora(b)
           /\ \A i \in 2..Cardinality(LinhasDe(b)) : s[i].tipo = "PagamentoConfirmado"
<1> DEFINE L == LinhasDe(b)
           n == Cardinality(L)
<1>1. IsFiniteSet(L) /\ n \in Nat /\ n # 0
  BY FS_Subset, FS_CardinalityType, FS_EmptySet DEF Historicos, LinhasDe
<1>2. /\ s \in [1..n -> L]
      /\ \A i, j \in 1..n : i # j => s[i] # s[j]
      /\ \A i, j \in 1..n : s[i].versao < s[j].versao => i < j
  BY DEF OrdensPorVersao, SetToSeqs
<1>3. Geradora(b) \in L /\ Geradora(b).versao = 1
  BY DEF Historicos, LinhasDe, Geradora, Gerado
<1>4. \A r \in L : r = Geradora(b) \/ (r.tipo = "PagamentoConfirmado" /\ r.versao = 2)
  BY DEF LinhasDe, IInv, HistoricoBemFormado, Geradora, Gerado, Pago
<1> HIDE DEF L
<1>5. PICK i \in 1..n : s[i] = Geradora(b)
  <2>1. s \in Injection(1..n, L)
    BY <1>2 DEF Injection, IsInjective
  <2>2. Cardinality(1..n) = n
    BY <1>1, FS_Interval
  <2>3. s \in Surjection(1..n, L)
    BY <1>1, <2>1, <2>2, FS_Injection
  <2> QED
    BY <1>3, <2>3 DEF Surjection
<1>6. s[1] = Geradora(b)
  BY <1>1, <1>2, <1>3, <1>4, <1>5
<1>7. \A j \in 2..n : s[j].tipo = "PagamentoConfirmado"
  BY <1>1, <1>2, <1>4, <1>6
<1> QED
  BY <1>1, <1>2, <1>6, <1>7 DEF L

LEMMA ReplayDasLinhas ==
    ASSUME IInv, Historicos, NEW b \in Boletos, LinhasDe(b) # {},
           NEW s \in OrdensPorVersao(LinhasDe(b))
    PROVE  LET agregado == Agregado!FromHistory([i \in DOMAIN s |-> Payload(s[i])])
           IN  agregado.status = Status(LinhasDe(b)) /\ agregado.version = Versao(LinhasDe(b))
<1> DEFINE n == Cardinality(LinhasDe(b))
           ev == [i \in DOMAIN s |-> Payload(s[i])]
<1>1. /\ n \in Nat \ {0} /\ s \in [1..n -> LinhasDe(b)] /\ s[1] = Geradora(b)
      /\ \A i \in 2..n : s[i].tipo = "PagamentoConfirmado"
  BY LinhasOrdenadas
<1>2. /\ ev \in [1..n -> {Agregado!BoletoGerado(100), Agregado!PagamentoConfirmado}]
      /\ ev[1] = Agregado!BoletoGerado(100)
      /\ \A i \in 2..n : ev[i] = Agregado!PagamentoConfirmado
  BY <1>1 DEF Payload, Geradora, Gerado
<1> HIDE DEF n, ev
<1>3. Agregado!FromHistory(ev) = Reconstruido(n)
  BY <1>1, <1>2, ReplayDosPagamentos
<1>4. Status(LinhasDe(b)) = IF n = 1 THEN "ABERTO" ELSE "PAGO"
  <2>1. CASE n = 1
    <3>1. PICK r : LinhasDe(b) = {r}
      BY <2>1, FS_Subset, FS_Singleton DEF Historicos, LinhasDe, n
    <3>2. LinhasDe(b) = {Geradora(b)}
      BY <1>1, <3>1
    <3> QED
      BY <2>1, <3>2 DEF Status, Geradora, Gerado
  <2>2. CASE n # 1
    <3>1. 2 \in 1..n /\ 2 \in 2..n
      BY <1>1, <2>2
    <3> QED
      BY <1>1, <2>2, <3>1 DEF Status
  <2> QED
    BY <2>1, <2>2
<1> QED
  BY <1>3, <1>4 DEF Reconstruido, Versao, n, ev

\* The handlers act on the true state of the boleto whatever order the database gives to the
\* payments that collided, for any number of them.
THEOREM OrdemIndiferente == Spec => []ReplayEmQualquerOrdem
<1>1. Init => Historicos
  BY FS_EmptySet DEF Init, Historicos
<1>2. IInv /\ Historicos => ReplayEmQualquerOrdem
  BY ReplayDasLinhas DEF ReplayEmQualquerOrdem
<1> QED
  BY <1>1, <1>2, NextHistoricos, Invariante, PTL DEF Spec
=============================================================================
