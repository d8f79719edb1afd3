------------------------------- MODULE Outbox -------------------------------
(***************************************************************************)
(* The transactional-outbox worker of src/shared/messaging:                *)
(* OutboxWorkerService.flushPendingEvents, fired every two seconds by       *)
(* @Interval, EventPublisherService.publish and the table                   *)
(* auditoria.eventos_dominio_outbox.                                        *)
(*                                                                         *)
(* @Interval does not wait for the promise of the previous call, so several *)
(* flushes overlap as soon as one of them takes more than two seconds (a    *)
(* publish waits for as long as the broker is away).  Each flush works on   *)
(* its own copies of the rows, loaded once by find().  repo.save(evento)    *)
(* reads the row again and updates the columns in which the copy differs    *)
(* from what it has just read: two steps, and the copy may be stale.        *)
(***************************************************************************)
EXTENDS Naturals, FiniteSets

CONSTANTS
    Eventos,           \* ids of the outbox rows; the number is the rank in criado_em order
    Flushes,           \* calls of flushPendingEvents that may be active at the same time
    LimiteTentativas,  \* tentativas: LessThan(5)
    Lote,              \* take: 100
    MaxFalhas          \* bound: database failures, crashes and lost broker answers in a behaviour

ASSUME OutboxAssumption ==
    /\ Eventos \subseteq Nat
    /\ LimiteTentativas \in Nat \ {0}
    /\ Lote \in Nat \ {0}
    /\ MaxFalhas \in Nat

VARIABLES
    gravados,   \* events whose row a use case has inserted
    linhas,     \* the table: columns publicado (with publicado_em) and tentativas (with erro)
    pc,         \* where each flush is suspended
    lote,       \* what is left of the array pendentes of each flush, the current event included
    copia,      \* the entities each flush holds in memory
    noCatch,    \* whether the pending save is the one of the catch block
    dif,        \* the columns save() found different and is about to update
    entregas,   \* how many times the broker accepted the event: 0, 1, 2 for more than one
    fracassos,  \* history: failed attempts on the event, up to LimiteTentativas
    disputa,    \* history: whether two flushes hold, or held, copies of the event at the same time
    falhas      \* failures so far, at most MaxFalhas

flushVars == <<pc, lote, copia, noCatch, dif>>
vars == <<gravados, linhas, flushVars, entregas, fracassos, disputa, falhas>>

Colunas == {"publicado", "tentativas"}
Linha == [publicado : BOOLEAN, tentativas : 0..LimiteTentativas]
LinhaNova == [publicado |-> FALSE, tentativas |-> 0]
MaisDeUma == 2

Tipos ==
    /\ gravados \subseteq Eventos
    /\ linhas \in [Eventos -> Linha]
    /\ pc \in [Flushes -> {"ocioso", "publicando", "aceito", "salvando", "gravando"}]
    /\ lote \in [Flushes -> SUBSET Eventos]
    /\ copia \in [Flushes -> [Eventos -> Linha]]
    /\ noCatch \in [Flushes -> BOOLEAN]
    /\ dif \in [Flushes -> SUBSET Colunas]
    /\ entregas \in [Eventos -> 0..MaisDeUma]
    /\ fracassos \in [Eventos -> 0..LimiteTentativas]
    /\ falhas \in 0..MaxFalhas

TypeOK == Tipos /\ disputa \in [Eventos -> {"nunca", "agora", "antes"}]

Init ==
    /\ gravados = {}
    /\ linhas = [e \in Eventos |-> LinhaNova]
    /\ pc = [f \in Flushes |-> "ocioso"]
    /\ lote = [f \in Flushes |-> {}]
    /\ copia = [f \in Flushes |-> [e \in Eventos |-> LinhaNova]]
    /\ noCatch = [f \in Flushes |-> FALSE]
    /\ dif = [f \in Flushes |-> {}]
    /\ entregas = [e \in Eventos |-> 0]
    /\ fracassos = [e \in Eventos |-> 0]
    /\ disputa = [e \in Eventos |-> "nunca"]
    /\ falhas = 0

-----------------------------------------------------------------------------
(* Helpers. *)

\* where: { publicado: false, tentativas: LessThan(5) }
Pendentes == {e \in gravados : /\ ~linhas[e].publicado
                               /\ linhas[e].tentativas < LimiteTentativas}

\* take: 100, order: { criadoEm: 'ASC' }
Selecao == {e \in Pendentes : Cardinality({d \in Pendentes : d < e}) < Lote}

\* The event the loop of flush f is at.
Atual(f, e) == e \in lote[f] /\ \A d \in lote[f] : e <= d

Falhar == falhas < MaxFalhas /\ falhas' = falhas + 1

\* The continuation after a save: the next iteration, or the end of the loop.
Avancar(f, e) ==
    LET resto == lote[f] \ {e} IN
    /\ lote' = [lote EXCEPT ![f] = resto]
    /\ pc' = [pc EXCEPT ![f] = IF resto = {} THEN "ocioso" ELSE "publicando"]
    /\ copia' = [copia EXCEPT ![f][e] = LinhaNova]
    /\ noCatch' = [noCatch EXCEPT ![f] = FALSE]
    /\ dif' = [dif EXCEPT ![f] = {}]

\* Mutant: the catch block does not count the attempt.
CatchNaoConta(f, e) ==
    /\ noCatch' = [noCatch EXCEPT ![f] = TRUE]
    /\ pc' = [pc EXCEPT ![f] = "salvando"]
    /\ dif' = [dif EXCEPT ![f] = {}]
    /\ UNCHANGED <<lote, copia, fracassos>>

\* Mutant: the catch block also takes publicado back.
CatchDesfaz(f, e) ==
    /\ copia' = [copia EXCEPT ![f][e] = [publicado |-> FALSE, tentativas |-> @.tentativas + 1]]
    /\ noCatch' = [noCatch EXCEPT ![f] = TRUE]
    /\ pc' = [pc EXCEPT ![f] = "salvando"]
    /\ dif' = [dif EXCEPT ![f] = {}]
    /\ fracassos' = [fracassos EXCEPT ![e] =
                        IF @ < LimiteTentativas THEN @ + 1 ELSE @]
    /\ UNCHANGED lote

\* The catch block up to its own save: one more attempt, counted on the copy.
EntrarNoCatch(f, e) ==
    /\ copia' = [copia EXCEPT ![f][e].tentativas = @ + 1]
    /\ noCatch' = [noCatch EXCEPT ![f] = TRUE]
    /\ pc' = [pc EXCEPT ![f] = "salvando"]
    /\ dif' = [dif EXCEPT ![f] = {}]
    /\ fracassos' = [fracassos EXCEPT ![e] =
                        IF @ < LimiteTentativas THEN @ + 1 ELSE @]
    /\ UNCHANGED lote

\* An exception leaves flushPendingEvents: the rest of the batch is dropped.
Abortar(f) ==
    /\ pc' = [pc EXCEPT ![f] = "ocioso"]
    /\ lote' = [lote EXCEPT ![f] = {}]
    /\ copia' = [copia EXCEPT ![f] = [e \in Eventos |-> LinhaNova]]
    /\ noCatch' = [noCatch EXCEPT ![f] = FALSE]
    /\ dif' = [dif EXCEPT ![f] = {}]
    /\ UNCHANGED fracassos

\* UPDATE of the columns found different, the others keep what the row has now.
LinhaAtualizada(f, e) ==
    [publicado  |-> IF "publicado" \in dif[f] THEN copia[f][e].publicado
                    ELSE linhas[e].publicado,
     tentativas |-> IF "tentativas" \in dif[f] THEN copia[f][e].tentativas
                    ELSE linhas[e].tentativas]

ContarEntrega(e) ==
    entregas' = [entregas EXCEPT ![e] = IF @ < MaisDeUma THEN @ + 1 ELSE @]

\* History: an event is disputed from the moment a second flush loads it until the last
\* flush that holds a copy of it is done with it ("agora", then "antes").
RegistrarDisputa ==
    disputa' = [e \in Eventos |->
        IF \E f, g \in Flushes : f # g /\ e \in lote'[f] \cap lote'[g] THEN "agora"
        ELSE IF disputa[e] = "agora" /\ \A f \in Flushes : e \notin lote'[f] THEN "antes"
        ELSE disputa[e]]

-----------------------------------------------------------------------------
(* Actions. *)

\* A use case inserts the event: outboxRepo.save(outboxRepo.create({...})).
Gravar(e) ==
    /\ e \notin gravados
    /\ gravados' = gravados \cup {e}
    /\ UNCHANGED <<linhas, flushVars, entregas, fracassos, disputa, falhas>>

\* The timer fires and find() returns at least one row; the first publish starts.
IniciarFlush(f) ==
    /\ pc[f] = "ocioso"
    /\ Selecao # {}
    /\ lote' = [lote EXCEPT ![f] = Selecao]
    /\ copia' = [copia EXCEPT ![f] =
                    [e \in Eventos |-> IF e \in Selecao THEN linhas[e] ELSE LinhaNova]]
    /\ pc' = [pc EXCEPT ![f] = "publicando"]
    /\ RegistrarDisputa
    /\ UNCHANGED <<gravados, linhas, noCatch, dif, entregas, fracassos, falhas>>

\* The broker accepts the message; its answer is still on the way.
Aceitar(f, e) ==
    /\ pc[f] = "publicando"
    /\ pc' = [pc EXCEPT ![f] = "aceito"]
    /\ ContarEntrega(e)
    /\ UNCHANGED <<gravados, linhas, lote, copia, noCatch, dif, fracassos, falhas>>

\* The connection drops before the answer and the client sends the message again.
Reenviar(f, e) ==
    /\ pc[f] = "aceito"
    /\ Falhar
    /\ ContarEntrega(e)
    /\ UNCHANGED <<gravados, linhas, flushVars, fracassos>>

\* Mutant: publish() is not awaited.
ConfirmarSemEsperar(f, e) ==
    /\ pc[f] \in {"publicando", "aceito"}
    /\ copia' = [copia EXCEPT ![f][e].publicado = TRUE]
    /\ pc' = [pc EXCEPT ![f] = "salvando"]
    /\ UNCHANGED <<gravados, linhas, lote, noCatch, dif, entregas, fracassos, falhas>>

\* Mutant: the attempt is counted when it succeeds as well.
ConfirmarContando(f, e) ==
    /\ pc[f] = "aceito"
    /\ copia' = [copia EXCEPT ![f][e] = [publicado |-> TRUE, tentativas |-> @.tentativas + 1]]
    /\ pc' = [pc EXCEPT ![f] = "salvando"]
    /\ UNCHANGED <<gravados, linhas, lote, noCatch, dif, entregas, fracassos, falhas>>

\* Mutant: publicado is not set after the publish.
ConfirmarSemMarcar(f, e) ==
    /\ pc[f] = "aceito"
    /\ pc' = [pc EXCEPT ![f] = "salvando"]
    /\ UNCHANGED <<gravados, linhas, lote, copia, noCatch, dif, entregas, fracassos, falhas>>

\* publish() resolves: publicado = true, publicadoEm = now, save(evento) is called.
Confirmar(f, e) ==
    /\ pc[f] = "aceito"
    /\ copia' = [copia EXCEPT ![f][e].publicado = TRUE]
    /\ pc' = [pc EXCEPT ![f] = "salvando"]
    /\ UNCHANGED <<gravados, linhas, lote, noCatch, dif, entregas, fracassos, falhas>>

\* publish() rejects and the broker never took the message.
Rejeitar(f, e) ==
    /\ pc[f] = "publicando"
    /\ EntrarNoCatch(f, e)
    /\ UNCHANGED <<gravados, linhas, entregas, falhas>>

\* publish() rejects although the broker took the message (the answer was lost).
PerderResposta(f, e) ==
    /\ pc[f] = "aceito"
    /\ Falhar
    /\ EntrarNoCatch(f, e)
    /\ UNCHANGED <<gravados, linhas, entregas>>

\* First half of save(): SELECT the row and compare it with the copy.
LerLinha(f, e) ==
    /\ pc[f] = "salvando"
    /\ dif' = [dif EXCEPT ![f] = {c \in Colunas : copia[f][e][c] # linhas[e][c]}]
    /\ pc' = [pc EXCEPT ![f] = "gravando"]
    /\ UNCHANGED <<gravados, linhas, lote, copia, noCatch, entregas, fracassos, falhas>>

\* Second half of save(): UPDATE the differing columns; the loop goes on.
GravarLinha(f, e) ==
    /\ pc[f] = "gravando"
    /\ linhas' = [linhas EXCEPT ![e] = LinhaAtualizada(f, e)]
    /\ Avancar(f, e)
    /\ UNCHANGED <<gravados, entregas, fracassos, falhas>>

\* save() rejects, its UPDATE committed or not.  In the try block the catch block
\* follows, on a copy that already says publicado; in the catch block the exception
\* leaves the method.
FalharSave(f, e) ==
    /\ pc[f] \in {"salvando", "gravando"}
    /\ Falhar
    /\ \/ linhas' = linhas
       \/ pc[f] = "gravando" /\ linhas' = [linhas EXCEPT ![e] = LinhaAtualizada(f, e)]
    /\ IF noCatch[f] THEN Abortar(f) ELSE EntrarNoCatch(f, e)
    /\ UNCHANGED <<gravados, entregas>>

\* The process dies and the container restarts: only the table and the broker remain.
Queda ==
    /\ \E f \in Flushes : pc[f] # "ocioso"
    /\ Falhar
    /\ pc' = [f \in Flushes |-> "ocioso"]
    /\ lote' = [f \in Flushes |-> {}]
    /\ copia' = [f \in Flushes |-> [e \in Eventos |-> LinhaNova]]
    /\ noCatch' = [f \in Flushes |-> FALSE]
    /\ dif' = [f \in Flushes |-> {}]
    /\ RegistrarDisputa
    /\ UNCHANGED <<gravados, linhas, entregas, fracassos>>

PassoNoEvento(f, e) ==
    /\ Atual(f, e)
    /\ \/ Aceitar(f, e)
       \/ Reenviar(f, e)
       \/ Confirmar(f, e)
       \/ Rejeitar(f, e)
       \/ PerderResposta(f, e)
       \/ LerLinha(f, e)
       \/ GravarLinha(f, e)
       \/ FalharSave(f, e)
    /\ RegistrarDisputa

Passo(f) == \E e \in Eventos : PassoNoEvento(f, e)

Next ==
    \/ \E e \in Eventos : Gravar(e)
    \/ \E f \in Flushes : IniciarFlush(f) \/ Passo(f)
    \/ Queda

Spec == Init /\ [][Next]_vars

\* The timer keeps firing, and every started operation (publish, SELECT, UPDATE)
\* is eventually answered, well or badly.
Fairness ==
    /\ WF_vars(\E f \in Flushes : IniciarFlush(f))
    /\ \A f \in Flushes : WF_vars(Passo(f))

FairSpec == Spec /\ Fairness

-----------------------------------------------------------------------------
(* Safety, for any number of overlapping flushes. *)

\* A row says publicado only if the broker did accept the event, whatever the
\* order of overlapping flushes, stale saves, failures and restarts.
PublicadoImplicaEntregue ==
    \A e \in Eventos : linhas[e].publicado => entregas[e] > 0

\* Nothing is given up early: the column tentativas, the only reason the worker
\* stops looking at a row, never says more than the attempts that really failed.
TentativasNaoExageram == \A e \in Eventos : linhas[e].tentativas <= fracassos[e]

-----------------------------------------------------------------------------
(* Safety of the events that no two flushes hold at the same time. *)

Desistido(e) == ~linhas[e].publicado /\ linhas[e].tentativas = LimiteTentativas

\* Unless two flushes hold copies of the event, its outcome is final: published stays
\* published, abandoned stays abandoned, and the number of attempts never goes back, in
\* spite of what overlapping flushes do to other events, failures and restarts.
DesfechoDefinitivo ==
    [][\A e \in Eventos : disputa[e] # "agora" =>
          /\ linhas[e].publicado => linhas'[e].publicado
          /\ Desistido(e) => Desistido(e)'
          /\ linhas[e].tentativas <= linhas'[e].tentativas]_vars

\* A second delivery has one of two causes: a failure in the middle of an attempt, or two
\* flushes that held the event at the same time.  Rejections by the broker, retries,
\* batches and flushes that overlap on other events never deliver an event twice.
EntregueUmaVez ==
    falhas = 0 => \A e \in Eventos : disputa[e] = "nunca" => entregas[e] <= 1

-----------------------------------------------------------------------------
(* Liveness. *)

\* However flushes overlap and stale saves move the counter back, a recorded event
\* is eventually delivered or, for good, out of attempts: the counter cannot be kept
\* below the limit for ever.
EventoAcabaTratado ==
    \A e \in Eventos : (e \in gravados) ~>
        [](entregas[e] > 0 \/ linhas[e].tentativas = LimiteTentativas)
-----------------------------------------------------------------------------
(* What the outbox promises: OutboxEntrega, read off the table and the broker. *)

Situacao(e) ==
    CASE e \notin gravados     -> "ausente"
      [] linhas[e].publicado   -> "publicado"
      [] Desistido(e)          -> "desistido"
      [] OTHER                 -> "pendente"

Entrega == INSTANCE OutboxEntrega WITH
    situacao   <- [e \in Eventos |-> Situacao(e)],
    entregues  <- {e \in Eventos : entregas[e] > 0},
    disputados <- {e \in Eventos : disputa[e] = "agora"}

\* The worker, with overlapping flushes, every failure and restart, does what OutboxEntrega
\* promises: published only after a delivery, and an outcome is final unless two flushes
\* hold the event.
ImplementaEntrega == Entrega!Spec

\* And no recorded event stays pending for ever.
ImplementaEntregaJusta == Entrega!FairSpec
=============================================================================
