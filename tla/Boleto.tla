------------------------------- MODULE Boleto -------------------------------
(***************************************************************************)
(* The aggregate root Boleto as a value: its events, apply(), fromHistory() *)
(* (financeiro/domain/boleto.aggregate.ts and events/domain-event.ts).      *)
(*                                                                         *)
(* Money is in cents and percentages in basis points (2% = 200), so that    *)
(* round2 is an exact rounding, half up, of a fraction; the error of binary *)
(* floating point just below a half is not modelled.  No event cancels a    *)
(* boleto, so the status CANCELADO, which only guards mention, never occurs. *)
(***************************************************************************)
EXTENDS Integers, Sequences, SequencesExt

LimiteMulta == 200
BaseBp == 10000

\* Math.round(x * 100) / 100 of num/den cents.
Round2(num, den) == (2 * num + den) \div (2 * den)

MinDe(a, b) == IF a <= b THEN a ELSE b

Inexistente == [valorOriginal |-> 0, valorMulta |-> 0, valorJuros |-> 0,
                status |-> "ABERTO", version |-> 0]

BoletoGerado(v) == [type |-> "BoletoGerado", valorOriginal |-> v]
MultaJurosAplicados(m, j) == [type |-> "MultaJurosAplicados", valorMulta |-> m, valorJuros |-> j]
PagamentoConfirmado == [type |-> "PagamentoConfirmado"]

\* Mutant: a second penalty is added to the first instead of replacing it.
ApplyAcumulando(b, ev) ==
    CASE ev.type = "BoletoGerado" ->
           [b EXCEPT !.valorOriginal = ev.valorOriginal, !.status = "ABERTO", !.version = @ + 1]
      [] ev.type = "MultaJurosAplicados" ->
           [b EXCEPT !.valorMulta = @ + ev.valorMulta, !.valorJuros = @ + ev.valorJuros,
                     !.status = "EM_ATRASO", !.version = @ + 1]
      [] ev.type = "PagamentoConfirmado" ->
           [b EXCEPT !.status = "PAGO", !.version = @ + 1]

Apply(b, ev) ==
    CASE ev.type = "BoletoGerado" ->
           [b EXCEPT !.valorOriginal = ev.valorOriginal, !.status = "ABERTO", !.version = @ + 1]
      [] ev.type = "MultaJurosAplicados" ->
           [b EXCEPT !.valorMulta = ev.valorMulta, !.valorJuros = ev.valorJuros,
                     !.status = "EM_ATRASO", !.version = @ + 1]
      [] ev.type = "PagamentoConfirmado" ->
           [b EXCEPT !.status = "PAGO", !.version = @ + 1]

FromHistory(eventos) == FoldLeft(Apply, Inexistente, eventos)
=============================================================================
