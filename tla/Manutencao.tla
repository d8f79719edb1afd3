----------------------------- MODULE Manutencao -----------------------------
(***************************************************************************)
(* A producer composed with the outbox, end to end: AbrirChamadoHandler of  *)
(* src/modules/manutencao and the flushes of OutboxWorkerService in one     *)
(* process, on the tables manutencao.chamados and eventos_dominio_outbox.   *)
(*                                                                         *)
(* A call, its chamado and its event have the same name.  The chamado and   *)
(* the event are inserted by statements that commit apart; a crash takes    *)
(* the handlers and the flushes down together.                              *)
(***************************************************************************)
EXTENDS Outbox

CONSTANT MaxInterrupcoes   \* bound: failed statements of the handlers and crashes of handlers alone

ASSUME ManutencaoAssumption == MaxInterrupcoes \in Nat

VARIABLES
    pcA,            \* where each POST chamados is, or its HTTP answer
    chamados,       \* rows of manutencao.chamados
    interrupcoes    \* at most MaxInterrupcoes

aberturaVars == <<pcA, chamados, interrupcoes>>
todas == <<vars, aberturaVars>>

Abrindo == {"tenant", "evento"}

TiposOK ==
    /\ TypeOK
    /\ pcA \in [Eventos -> {"inicio", "201", "400", "500", "morto"} \cup Abrindo]
    /\ chamados \subseteq Eventos
    /\ interrupcoes \in 0..MaxInterrupcoes

InitComposto ==
    /\ Init
    /\ pcA = [e \in Eventos |-> "inicio"]
    /\ chamados = {}
    /\ interrupcoes = 0

Interromper == interrupcoes < MaxInterrupcoes /\ interrupcoes' = interrupcoes + 1

Em(e, ponto) == pcA' = [pcA EXCEPT ![e] = ponto]

-----------------------------------------------------------------------------
(* AbrirChamadoHandler. *)

\* A descricao with fewer than 10 characters.
Recusar(e) ==
    /\ pcA[e] = "inicio"
    /\ Em(e, "400")
    /\ UNCHANGED <<vars, chamados, interrupcoes>>

\* Mutant: the failure of the insert is not noticed.
SalvarChamadoCalado(e) ==
    /\ pcA[e] = "inicio"
    /\ Em(e, "tenant")
    /\ chamados' \in {chamados, chamados \cup {e}}
    /\ UNCHANGED <<vars, interrupcoes>>

SalvarChamado(e) ==
    /\ pcA[e] = "inicio"
    /\ Em(e, "tenant")
    /\ chamados' = chamados \cup {e}
    /\ UNCHANGED <<vars, interrupcoes>>

\* The SELECT of tenant_id: the foreign key of the chamado guarantees its row.
LerTenant(e) ==
    /\ pcA[e] = "tenant"
    /\ Em(e, "evento")
    /\ UNCHANGED <<vars, chamados, interrupcoes>>

GravarEvento(e) ==
    /\ pcA[e] = "evento"
    /\ Em(e, "201")
    /\ Gravar(e)
    /\ UNCHANGED <<chamados, interrupcoes>>

\* One of the three statements rejects; an insert may have committed.
FalharAbertura(e) ==
    /\ Interromper
    /\ Em(e, "500")
    /\ \/ /\ pcA[e] = "inicio"
          /\ chamados' \in {chamados, chamados \cup {e}}
          /\ UNCHANGED vars
       \/ pcA[e] \in Abrindo /\ UNCHANGED <<vars, chamados>>
       \/ pcA[e] = "evento" /\ Gravar(e) /\ UNCHANGED chamados

Abertura(e) ==
    \/ Recusar(e)
    \/ SalvarChamado(e)
    \/ LerTenant(e)
    \/ GravarEvento(e)
    \/ FalharAbertura(e)

-----------------------------------------------------------------------------
\* One process: the handlers in progress die with the flushes.
QuedaGeral ==
    /\ pcA' = [e \in Eventos |-> IF pcA[e] \in Abrindo THEN "morto" ELSE pcA[e]]
    /\ UNCHANGED chamados
    /\ \/ Queda /\ UNCHANGED interrupcoes
       \/ /\ \A f \in Flushes : pc[f] = "ocioso"
          /\ \E e \in Eventos : pcA[e] \in Abrindo
          /\ Interromper
          /\ UNCHANGED vars

Worker(f) == (IniciarFlush(f) \/ Passo(f)) /\ UNCHANGED aberturaVars

NextComposto ==
    \/ \E e \in Eventos : Abertura(e)
    \/ \E f \in Flushes : Worker(f)
    \/ QuedaGeral

SpecComposto == InitComposto /\ [][NextComposto]_todas

\* Only the worker is bound to go on; nobody repeats a request by obligation.
SpecCompostoJusto == SpecComposto /\ Fairness

-----------------------------------------------------------------------------
(* Properties. *)

\* What consumers hear of exists, and what the client was told is recorded: a delivered event
\* has its chamado in the table, and a chamado answered with 201 has its event, although the
\* two inserts commit apart and crashes come in between.
AnuncioFiel ==
    \A e \in Eventos :
        /\ entregas[e] > 0 => e \in chamados
        /\ pcA[e] = "201" => e \in chamados /\ e \in gravados
=============================================================================
