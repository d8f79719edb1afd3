----------------------------- MODULE Financeiro -----------------------------
(***************************************************************************)
(* The command side of the financeiro module: GerarBoletosMesHandler,       *)
(* ConfirmarPagamentoHandler and BoletoEventStoreRepository, on one         *)
(* condominium and one competencia.                                         *)
(*                                                                         *)
(* Every await is a point where another call may run.  No transaction spans *)
(* two statements: each insert into the event store and the insert into the *)
(* outbox commits by itself.  A boleto is identified by its unit and by the *)
(* call that generated it (its uuid is fresh in each call).                 *)
(*                                                                         *)
(* A load is modelled by the rows it read; the status and the version of    *)
(* the aggregate rebuilt from them are operators of those rows.             *)
(***************************************************************************)
EXTENDS Naturals, FiniteSets, Sequences, SequencesExt

CONSTANTS
    Unidades,         \* units of the condominium
    Geracoes,         \* calls of POST boletos/gerar for the competencia, retries included
    Webhooks,         \* calls of POST pagamentos, redeliveries included
    ComTenant,        \* units whose nullable tenantId is set
    MaxFalhas         \* bound: failed statements and crashes in a behaviour

ASSUME FinanceiroAssumption ==
    /\ IsFiniteSet(Unidades)
    /\ Geracoes \cap Webhooks = {}
    /\ ComTenant \subseteq Unidades
    /\ MaxFalhas \in Nat

VARIABLES
    eventos,     \* rows of financeiro.boleto_event_store
    outbox,      \* BoletosGeradosDoMes events inserted in the outbox: the call and its total
    pcG,         \* where each generation is
    unidades,    \* what its find() of the units returned
    restantes,   \* units the loop has still to visit
    falhou,      \* units whose iteration ended in the catch block
    totalGerados,
    pcW,         \* where each confirmation is
    alvo,        \* the boleto it names, once it loaded it
    lidos,       \* the rows it loaded
    falhas       \* failures so far, at most MaxFalhas

geracaoVars == <<outbox, pcG, unidades, restantes, falhou, totalGerados>>
webhookVars == <<pcW, alvo, lidos>>
vars == <<eventos, geracaoVars, webhookVars, falhas>>

Boletos == Unidades \X Geracoes
Nenhum == <<>>

Evento == [boleto : Boletos, tipo : {"BoletoGerado", "PagamentoConfirmado"},
           versao : Nat, autor : Geracoes \cup Webhooks]

TypeOK ==
    /\ eventos \subseteq Evento
    /\ outbox \subseteq [geracao : Geracoes, total : 0..Cardinality(Unidades)]
    /\ pcG \in [Geracoes -> {"inicio", "gerando", "outbox", "fim", "erro", "morto"}]
    /\ unidades \in [Geracoes -> SUBSET Unidades]
    /\ restantes \in [Geracoes -> SUBSET Unidades]
    /\ falhou \in [Geracoes -> SUBSET Unidades]
    /\ totalGerados \in [Geracoes -> 0..Cardinality(Unidades)]
    /\ pcW \in [Webhooks -> {"inicio", "gravando", "fim", "naoEncontrado", "erro", "morto"}]
    /\ alvo \in [Webhooks -> Boletos \cup {Nenhum}]
    /\ lidos \in [Webhooks -> SUBSET Evento]
    /\ falhas \in 0..MaxFalhas

Init ==
    /\ eventos = {}
    /\ outbox = {}
    /\ pcG = [g \in Geracoes |-> "inicio"]
    /\ unidades = [g \in Geracoes |-> {}]
    /\ restantes = [g \in Geracoes |-> {}]
    /\ falhou = [g \in Geracoes |-> {}]
    /\ totalGerados = [g \in Geracoes |-> 0]
    /\ pcW = [w \in Webhooks |-> "inicio"]
    /\ alvo = [w \in Webhooks |-> Nenhum]
    /\ lidos = [w \in Webhooks |-> {}]
    /\ falhas = 0

-----------------------------------------------------------------------------
(* The aggregate, from the rows of its history in version order. *)

LinhasDe(b) == {r \in eventos : r.boleto = b}

\* fromHistory: the last event applied decides.  PagamentoConfirmado is the last one
\* wherever it occurs, see ReplayEmQualquerOrdem.
Status(linhas) ==
    IF \E r \in linhas : r.tipo = "PagamentoConfirmado" THEN "PAGO"
    ELSE IF linhas # {} THEN "ABERTO" ELSE "inexistente"

\* version counts the events applied.
Versao(linhas) == Cardinality(linhas)

Gerado(b, g) == [boleto |-> b, tipo |-> "BoletoGerado", versao |-> 1, autor |-> g]

Pago(b, v, w) == [boleto |-> b, tipo |-> "PagamentoConfirmado", versao |-> v, autor |-> w]

Falhar == falhas < MaxFalhas /\ falhas' = falhas + 1

-----------------------------------------------------------------------------
(* GerarBoletosMesHandler. *)

\* find() returns the units registered by then; with none the answer is 0 boletos.
IniciarGeracao(g) ==
    /\ pcG[g] = "inicio"
    /\ \E us \in SUBSET Unidades :
          /\ unidades' = [unidades EXCEPT ![g] = us]
          /\ restantes' = [restantes EXCEPT ![g] = us]
          /\ pcG' = [pcG EXCEPT ![g] = IF us = {} THEN "fim" ELSE "gerando"]
    /\ UNCHANGED <<eventos, outbox, falhou, totalGerados, webhookVars, falhas>>

\* The loop leaves unit u behind.
Avancar(g, u) ==
    /\ restantes' = [restantes EXCEPT ![g] = @ \ {u}]
    /\ pcG' = [pcG EXCEPT ![g] = IF restantes[g] = {u} THEN "outbox" ELSE "gerando"]

\* gerar() and the insert of its BoletoGerado succeed.
SalvarBoleto(g, u) ==
    /\ pcG[g] = "gerando" /\ u \in restantes[g]
    /\ eventos' = eventos \cup {Gerado(<<u, g>>, g)}
    /\ totalGerados' = [totalGerados EXCEPT ![g] = @ + 1]
    /\ Avancar(g, u)
    /\ UNCHANGED <<outbox, unidades, falhou, webhookVars, falhas>>

\* Mutant: the error leaves the loop.
FalharBoletoEParar(g, u) ==
    /\ pcG[g] = "gerando" /\ u \in restantes[g]
    /\ Falhar
    /\ eventos' \in {eventos, eventos \cup {Gerado(<<u, g>>, g)}}
    /\ falhou' = [falhou EXCEPT ![g] = @ \cup {u}]
    /\ pcG' = [pcG EXCEPT ![g] = "outbox"]
    /\ UNCHANGED <<outbox, unidades, restantes, totalGerados, webhookVars>>

\* Mutant: totalGerados is incremented before the insert.
FalharBoletoContado(g, u) ==
    /\ pcG[g] = "gerando" /\ u \in restantes[g]
    /\ Falhar
    /\ eventos' \in {eventos, eventos \cup {Gerado(<<u, g>>, g)}}
    /\ falhou' = [falhou EXCEPT ![g] = @ \cup {u}]
    /\ totalGerados' = [totalGerados EXCEPT ![g] = @ + 1]
    /\ Avancar(g, u)
    /\ UNCHANGED <<outbox, unidades, webhookVars>>

\* The insert rejects, committed or not: the catch block logs, the loop continues.
FalharBoleto(g, u) ==
    /\ pcG[g] = "gerando" /\ u \in restantes[g]
    /\ Falhar
    /\ eventos' \in {eventos, eventos \cup {Gerado(<<u, g>>, g)}}
    /\ falhou' = [falhou EXCEPT ![g] = @ \cup {u}]
    /\ Avancar(g, u)
    /\ UNCHANGED <<outbox, unidades, totalGerados, webhookVars>>

\* The event of the month goes to the outbox, with the tenant of unidades[0] (find() gives
\* no order, so any of the units), and the client gets totalGerados.
GravarOutbox(g) ==
    /\ pcG[g] = "outbox"
    /\ unidades[g] \cap ComTenant # {}
    /\ outbox' = outbox \cup {[geracao |-> g, total |-> totalGerados[g]]}
    /\ pcG' = [pcG EXCEPT ![g] = "fim"]
    /\ UNCHANGED <<eventos, unidades, restantes, falhou, totalGerados, webhookVars, falhas>>

\* Mutant: the error is caught and logged, as those of the loop are.
FalharOutboxCalado(g) ==
    /\ pcG[g] = "outbox"
    /\ \/ /\ unidades[g] \cap ComTenant # {}
          /\ Falhar
          /\ outbox' \in {outbox, outbox \cup {[geracao |-> g, total |-> totalGerados[g]]}}
       \/ /\ unidades[g] \ ComTenant # {}
          /\ UNCHANGED <<outbox, falhas>>
    /\ pcG' = [pcG EXCEPT ![g] = "fim"]
    /\ UNCHANGED <<eventos, unidades, restantes, falhou, totalGerados, webhookVars>>

\* The insert into the outbox rejects, committed or not; the fallback 'desconhecido' of a
\* unit without tenant is not a uuid and is always refused.  The client gets an error
\* although the boletos exist.
FalharOutbox(g) ==
    /\ pcG[g] = "outbox"
    /\ \/ /\ unidades[g] \cap ComTenant # {}
          /\ Falhar
          /\ outbox' \in {outbox, outbox \cup {[geracao |-> g, total |-> totalGerados[g]]}}
       \/ /\ unidades[g] \ ComTenant # {}
          /\ UNCHANGED <<outbox, falhas>>
    /\ pcG' = [pcG EXCEPT ![g] = "erro"]
    /\ UNCHANGED <<eventos, unidades, restantes, falhou, totalGerados, webhookVars>>

-----------------------------------------------------------------------------
(* ConfirmarPagamentoHandler. *)

\* Mutant: no check that the boleto exists.
CarregarSem404(w, b) ==
    /\ pcW[w] = "inicio"
    /\ alvo' = [alvo EXCEPT ![w] = b]
    /\ lidos' = [lidos EXCEPT ![w] = LinhasDe(b)]
    /\ pcW' = [pcW EXCEPT ![w] =
                  CASE Status(LinhasDe(b)) = "inexistente" -> "gravando"
                    [] Status(LinhasDe(b)) = "PAGO"        -> "fim"
                    [] Status(LinhasDe(b)) = "ABERTO"      -> "gravando"]
    /\ UNCHANGED <<eventos, geracaoVars, falhas>>

\* Mutant: no early return for a boleto already PAGO.
CarregarSemPago(w, b) ==
    /\ pcW[w] = "inicio"
    /\ alvo' = [alvo EXCEPT ![w] = b]
    /\ lidos' = [lidos EXCEPT ![w] = LinhasDe(b)]
    /\ pcW' = [pcW EXCEPT ![w] =
                  CASE Status(LinhasDe(b)) = "inexistente" -> "naoEncontrado"
                    [] Status(LinhasDe(b)) = "PAGO"        -> "gravando"
                    [] Status(LinhasDe(b)) = "ABERTO"      -> "gravando"]
    /\ UNCHANGED <<eventos, geracaoVars, falhas>>

\* Mutant: the handler answers without saving.
CarregarSemSalvar(w, b) ==
    /\ pcW[w] = "inicio"
    /\ alvo' = [alvo EXCEPT ![w] = b]
    /\ lidos' = [lidos EXCEPT ![w] = LinhasDe(b)]
    /\ pcW' = [pcW EXCEPT ![w] =
                  CASE Status(LinhasDe(b)) = "inexistente" -> "naoEncontrado"
                    [] Status(LinhasDe(b)) = "PAGO"        -> "fim"
                    [] Status(LinhasDe(b)) = "ABERTO"      -> "fim"]
    /\ UNCHANGED <<eventos, geracaoVars, falhas>>

\* loadById and confirmarPagamento: 404 without history, nothing to save when the
\* loaded boleto is already PAGO.
Carregar(w, b) ==
    /\ pcW[w] = "inicio"
    /\ alvo' = [alvo EXCEPT ![w] = b]
    /\ lidos' = [lidos EXCEPT ![w] = LinhasDe(b)]
    /\ pcW' = [pcW EXCEPT ![w] =
                  CASE Status(LinhasDe(b)) = "inexistente" -> "naoEncontrado"
                    [] Status(LinhasDe(b)) = "PAGO"        -> "fim"
                    [] Status(LinhasDe(b)) = "ABERTO"      -> "gravando"]
    /\ UNCHANGED <<eventos, geracaoVars, falhas>>

\* Mutant: the version of the loaded boleto, not the next one.
NovoPagamentoMesmaVersao(w) == Pago(alvo[w], Versao(lidos[w]), w)

\* save(): PagamentoConfirmado at the version after the loaded one.
NovoPagamento(w) == Pago(alvo[w], Versao(lidos[w]) + 1, w)

GravarPagamento(w) ==
    /\ pcW[w] = "gravando"
    /\ eventos' = eventos \cup {NovoPagamento(w)}
    /\ pcW' = [pcW EXCEPT ![w] = "fim"]
    /\ UNCHANGED <<geracaoVars, alvo, lidos, falhas>>

FalharPagamento(w) ==
    /\ pcW[w] = "gravando"
    /\ Falhar
    /\ eventos' \in {eventos, eventos \cup {NovoPagamento(w)}}
    /\ pcW' = [pcW EXCEPT ![w] = "erro"]
    /\ UNCHANGED <<geracaoVars, alvo, lidos>>

-----------------------------------------------------------------------------
\* The process dies: no call in progress is ever answered, what it wrote remains.
Queda ==
    /\ \/ \E g \in Geracoes : pcG[g] \in {"gerando", "outbox"}
       \/ \E w \in Webhooks : pcW[w] = "gravando"
    /\ Falhar
    /\ pcG' = [g \in Geracoes |-> IF pcG[g] \in {"gerando", "outbox"} THEN "morto" ELSE pcG[g]]
    /\ pcW' = [w \in Webhooks |-> IF pcW[w] = "gravando" THEN "morto" ELSE pcW[w]]
    /\ UNCHANGED <<eventos, outbox, unidades, restantes, falhou, totalGerados, alvo, lidos>>

Geracao(g) ==
    \/ IniciarGeracao(g)
    \/ \E u \in Unidades : SalvarBoleto(g, u) \/ FalharBoleto(g, u)
    \/ GravarOutbox(g)
    \/ FalharOutbox(g)

Confirmacao(w) ==
    \/ \E b \in Boletos : Carregar(w, b)
    \/ GravarPagamento(w)
    \/ FalharPagamento(w)

Next ==
    \/ \E g \in Geracoes : Geracao(g)
    \/ \E w \in Webhooks : Confirmacao(w)
    \/ Queda

Spec == Init /\ [][Next]_vars

-----------------------------------------------------------------------------
(* Properties. *)

\* A confirmation answered with success is durable: the boleto it names is PAGO in
\* the event store from then on, whoever wrote the event.
RespostaDuravel ==
    \A w \in Webhooks : pcW[w] = "fim" => Status(LinhasDe(alvo[w])) = "PAGO"

\* Redelivery is harmless one call after the other: a call that appended a payment
\* had not read one.  Two payments of a boleto come only from calls that overlapped,
\* and then they collide on the version, the one next to BoletoGerado.
DuplicataSoSobreposta ==
    \A r, s \in eventos :
        (/\ r # s /\ r.boleto = s.boleto
         /\ r.tipo = "PagamentoConfirmado" /\ s.tipo = "PagamentoConfirmado")
        => r.versao = s.versao /\ r \notin lidos[s.autor] /\ s \notin lidos[r.autor]

\* The event of the month never announces more boletos than the call stored, and
\* announces less only when inserts were reported as failed.
TotalConfere ==
    \A o \in outbox :
        LET gravados == {r \in eventos : r.tipo = "BoletoGerado" /\ r.autor = o.geracao}
        IN /\ o.total <= Cardinality(gravados)
           /\ Cardinality(gravados) <= o.total + Cardinality(falhou[o.geracao])

\* The boletos and their announcement commit apart.  Boletos that nobody announces belong to
\* a call still in progress, interrupted, or answered with an error: to the client that was
\* answered with success, the event says the total it was told, whichever unit gave the
\* tenant and whatever inserts failed on the way.
NadaSemAnuncio ==
    \A r \in eventos :
        r.tipo = "BoletoGerado" /\ pcG[r.autor] = "fim" =>
            [geracao |-> r.autor, total |-> totalGerados[r.autor]] \in outbox

\* US-01: an error on one unit does not stop the others.  Once the loop is over each
\* unit found has its boleto or its error.
NenhumaUnidadeEsquecida ==
    \A g \in Geracoes : pcG[g] \in {"outbox", "fim", "erro"} =>
        \A u \in unidades[g] : u \in falhou[g] \/ Gerado(<<u, g>>, g) \in eventos

\* Every boleto follows the abstract cycle of CicloBoleto, whatever concurrent webhooks,
\* retries of the generation, failures and crashes do.
StatusDosBoletos == [b \in Boletos |-> Status(LinhasDe(b))]

Ciclo == INSTANCE CicloBoleto WITH status <- StatusDosBoletos

ImplementaCiclo == Ciclo!Spec

-----------------------------------------------------------------------------
(* loadById: the stored rows against the replay of the aggregate. *)

Agregado == INSTANCE Boleto

\* The payload of a stored row.
Payload(r) == IF r.tipo = "BoletoGerado" THEN Agregado!BoletoGerado(100)
              ELSE Agregado!PagamentoConfirmado

\* Rows of equal version come back in any order.
OrdensPorVersao(linhas) ==
    {s \in SetToSeqs(linhas) :
        \A i, j \in DOMAIN s : s[i].versao < s[j].versao => i < j}

\* Whatever order the database gives to rows of the same version, the replay of a
\* boleto ends in the status and version the handlers act on: payments that collided
\* do not make the history ambiguous.
ReplayEmQualquerOrdem ==
    \A b \in Boletos : LET linhas == LinhasDe(b) IN
        linhas # {} =>
            \A s \in OrdensPorVersao(linhas) :
                LET agregado == Agregado!FromHistory([i \in DOMAIN s |-> Payload(s[i])])
                IN /\ agregado.status = Status(linhas)
                   /\ agregado.version = Versao(linhas)

\* Comments of the handler and of the aggregate: confirming a payment is idempotent.
PagamentoUnico ==
    \A r, s \in eventos :
        (/\ r.boleto = s.boleto
         /\ r.tipo = "PagamentoConfirmado" /\ s.tipo = "PagamentoConfirmado") => r = s
=============================================================================
