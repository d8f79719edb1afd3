--------------------------- MODULE BoletoAggregate ---------------------------
(***************************************************************************)
(* The life of one Boleto in the memory of the handlers that use it, one at *)
(* a time: commands validate the state and raise events, save() pulls the   *)
(* uncommitted events into the event store, loadById() replays them.        *)
(***************************************************************************)
EXTENDS Boleto

CONSTANTS
    Valores,       \* valorOriginal, in cents
    Percentuais,   \* percentualMulta, in basis points
    JurosDia,      \* percentualJurosDia, in basis points
    Dias,          \* diasAtraso
    MaxEventos     \* bound: events of the boleto

ASSUME BoletoAssumption ==
    /\ Valores \subseteq Nat /\ Percentuais \subseteq Nat
    /\ JurosDia \subseteq Nat /\ Dias \subseteq Nat
    /\ MaxEventos \in Nat

VARIABLES
    vivo,        \* a handler holds the object
    boleto,      \* the object in memory
    pendentes,   \* its uncommittedEvents
    armazem      \* its events in the event store, in version order

vars == <<vivo, boleto, pendentes, armazem>>

Historico == armazem \o pendentes

Evento == [type : {"BoletoGerado"}, valorOriginal : Valores]
          \cup [type : {"MultaJurosAplicados"}, valorMulta : Nat, valorJuros : Nat]
          \cup [type : {"PagamentoConfirmado"}]

TypeOK ==
    /\ vivo \in BOOLEAN
    /\ boleto \in [valorOriginal : Valores \cup {0}, valorMulta : Nat, valorJuros : Nat,
                   status : {"ABERTO", "EM_ATRASO", "PAGO"}, version : 0..MaxEventos]
    /\ pendentes \in Seq(Evento) /\ armazem \in Seq(Evento)
    /\ Len(Historico) <= MaxEventos

Init == vivo = FALSE /\ boleto = Inexistente /\ pendentes = <<>> /\ armazem = <<>>

-----------------------------------------------------------------------------
(* Actions. *)

\* Mutant: the event is remembered but not applied.
RaiseSemAplicar(ev) ==
    /\ Len(Historico) < MaxEventos
    /\ pendentes' = Append(pendentes, ev)
    /\ UNCHANGED <<boleto, armazem>>

\* raise(): apply the event and remember it.
Raise(ev) ==
    /\ Len(Historico) < MaxEventos
    /\ boleto' = Apply(boleto, ev)
    /\ pendentes' = Append(pendentes, ev)
    /\ UNCHANGED armazem

\* BoletoAggregate.gerar: a new object; no value of Valores is negative.
Gerar(v) ==
    /\ ~vivo /\ armazem = <<>>
    /\ vivo' = TRUE
    /\ Raise(BoletoGerado(v))

AplicarMultaJuros(percentualMulta, percentualJurosDia, diasAtraso) ==
    /\ vivo
    /\ boleto.status \in {"ABERTO", "EM_ATRASO"}
    /\ LET multa == Round2(boleto.valorOriginal * MinDe(percentualMulta, LimiteMulta), BaseBp)
           juros == Round2(boleto.valorOriginal * percentualJurosDia * diasAtraso, BaseBp)
       IN Raise(MultaJurosAplicados(multa, juros))
    /\ UNCHANGED vivo

\* Mutant: without the early return for a boleto already PAGO.
ConfirmarSempre ==
    /\ vivo
    /\ Raise(PagamentoConfirmado)
    /\ UNCHANGED vivo

\* An already PAGO boleto returns early: nothing changes.
ConfirmarPagamento ==
    /\ vivo
    /\ boleto.status # "PAGO"
    /\ Raise(PagamentoConfirmado)
    /\ UNCHANGED vivo

\* BoletoEventStoreRepository.save: pull the events and insert them one by one; an
\* insert that fails leaves the first n in the store, and the handler with its
\* object is gone.
Salvar(n) ==
    /\ vivo /\ pendentes # <<>>
    /\ armazem' = armazem \o SubSeq(pendentes, 1, n)
    /\ pendentes' = <<>>
    /\ vivo' = (n = Len(pendentes))
    /\ boleto' = IF vivo' THEN boleto ELSE Inexistente

\* The handler ends (or dies) and lets go of the object.
Soltar ==
    /\ vivo
    /\ vivo' = FALSE
    /\ boleto' = Inexistente
    /\ pendentes' = <<>>
    /\ UNCHANGED armazem

\* Mutant: fromHistory applies the events as new ones.
LoadByIdComoNovos ==
    /\ ~vivo /\ armazem # <<>>
    /\ vivo' = TRUE
    /\ boleto' = FromHistory(armazem)
    /\ pendentes' = armazem
    /\ UNCHANGED armazem

\* loadById: null when there is no event, otherwise the replay of the history.
LoadById ==
    /\ ~vivo /\ armazem # <<>>
    /\ vivo' = TRUE
    /\ boleto' = FromHistory(armazem)
    /\ UNCHANGED <<pendentes, armazem>>

Next ==
    \/ \E v \in Valores : Gerar(v)
    \/ \E p \in Percentuais, j \in JurosDia, d \in Dias : AplicarMultaJuros(p, j, d)
    \/ ConfirmarPagamento
    \/ \E n \in 0..Len(pendentes) : Salvar(n)
    \/ Soltar
    \/ LoadById

Spec == Init /\ [][Next]_vars

-----------------------------------------------------------------------------
(* Properties. *)

\* Event sourcing: at any moment the object in memory is what a replay of the stored
\* and the pending events gives, and save() numbers the next event right after the
\* last stored one, also after a save that failed half way.
ReplayFiel ==
    vivo => /\ FromHistory(Historico) = boleto
            /\ boleto.version - Len(pendentes) = Len(armazem)

\* The payment is the last event of a boleto, and there is only one, whatever the
\* commands that come after it (the webhook delivered again, a penalty).
PagamentoEncerra ==
    \A i \in DOMAIN Historico :
        Historico[i].type = "PagamentoConfirmado" => i = Len(Historico)

\* RN-02: the penalty is at most 2% of the original value, up to the rounding to the
\* cent, however many times and with whatever percentage it is applied.
MultaLegal ==
    2 * BaseBp * boleto.valorMulta <= 2 * LimiteMulta * boleto.valorOriginal + BaseBp
=============================================================================
