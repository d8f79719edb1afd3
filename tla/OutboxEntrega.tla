---------------------------- MODULE OutboxEntrega ----------------------------
(***************************************************************************)
(* What the outbox promises for each event, without the worker: a recorded  *)
(* event is pending until it is marked published, which happens only after  *)
(* at least one delivery, or until it is given up.  Both outcomes are final *)
(* except for the events in disputados, an input: those two flushes have    *)
(* loaded, whose outcome the last save decides.                             *)
(***************************************************************************)
CONSTANT Eventos

VARIABLES situacao, entregues, disputados

vars == <<situacao, entregues>>

Init ==
    /\ situacao = [e \in Eventos |-> "ausente"]
    /\ entregues = {}

Pedir(e) ==
    /\ situacao[e] = "ausente"
    /\ situacao' = [situacao EXCEPT ![e] = "pendente"]
    /\ UNCHANGED entregues

\* At least once: a delivery may repeat, so it also covers events already delivered.
Entregar(e) ==
    /\ situacao[e] = "pendente" \/ (e \in disputados /\ situacao[e] # "ausente")
    /\ entregues' = entregues \cup {e}
    /\ UNCHANGED situacao

Marcar(e) ==
    /\ situacao[e] = "pendente"
    /\ e \in entregues
    /\ situacao' = [situacao EXCEPT ![e] = "publicado"]
    /\ UNCHANGED entregues

Desistir(e) ==
    /\ situacao[e] = "pendente"
    /\ situacao' = [situacao EXCEPT ![e] = "desistido"]
    /\ UNCHANGED entregues

\* A stale save takes an outcome back or exchanges it; even then published means delivered.
Desfazer(e) ==
    /\ e \in disputados
    /\ situacao[e] \in {"publicado", "desistido"}
    /\ \E s \in {"pendente", "publicado", "desistido"} :
          /\ s = "publicado" => e \in entregues
          /\ situacao' = [situacao EXCEPT ![e] = s]
    /\ UNCHANGED entregues

Next ==
    \E e \in Eventos : Pedir(e) \/ Entregar(e) \/ Marcar(e) \/ Desistir(e) \/ Desfazer(e)

Spec == Init /\ [][Next]_vars

\* A pending event does not stay pending.
Fairness == \A e \in Eventos : WF_vars(Marcar(e) \/ Desistir(e))

FairSpec == Spec /\ Fairness
=============================================================================
