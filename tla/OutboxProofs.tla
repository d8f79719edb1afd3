---------------------------- MODULE OutboxProofs ----------------------------
(***************************************************************************)
(* Proofs about Outbox, for every set of events, every number of            *)
(* overlapping flushes, every limit, batch size and bound on failures.      *)
(*                                                                         *)
(* Tipos and PublicadoImplicaEntregue are not inductive: what a flush will *)
(* write is in its copies, so the invariant says of the copies what the     *)
(* properties say of the rows, and that only the event at hand, and only    *)
(* inside the catch block, may have used up its attempts.                   *)
(*                                                                         *)
(* Outcomes are final and deliveries single for the events that two flushes *)
(* do not hold at the same time, however many flushes overlap.  DisputaCerta *)
(* says that the others are marked; then no copy of an event that is not     *)
(* disputed is behind its row (CopiasEmDia), which makes its outcome final   *)
(* and the worker an implementation of OutboxEntrega, and an event that was  *)
(* never disputed and that the broker took is published or at hand           *)
(* (EntregaUnica).                                                          *)
(*                                                                         *)
(* Manutencao, the composition with a producer, takes only Outbox steps on   *)
(* the variables of Outbox (PassosDoOutbox): all of it carries over, and     *)
(* SoGravados relates the two sides.                                         *)
(***************************************************************************)
EXTENDS Manutencao, TLAPS

\* The rows and the copies claim no delivery and no failed attempt that did not happen.
AfirmacoesVerdadeiras ==
    /\ PublicadoImplicaEntregue
    /\ TentativasNaoExageram
    /\ \A f \in Flushes : \A e \in Eventos :
          /\ copia[f][e].publicado => entregas[e] > 0
          /\ copia[f][e].tentativas <= fracassos[e]
          /\ (pc[f] = "aceito" /\ Atual(f, e)) => entregas[e] > 0

\* A copy can still count one more attempt unless the catch block just did.
SobraTentativa ==
    \A f \in Flushes :
        /\ noCatch[f] => pc[f] \in {"salvando", "gravando"}
        /\ \A e \in lote[f] : \/ copia[f][e].tentativas < LimiteTentativas
                              \/ noCatch[f] /\ Atual(f, e)

IInv == Tipos /\ AfirmacoesVerdadeiras /\ SobraTentativa

-----------------------------------------------------------------------------
\* The loop is at one event at a time.
LEMMA AtualUnico ==
    ASSUME Tipos, NEW f \in Flushes, NEW d \in Eventos, NEW e \in Eventos,
           Atual(f, d), Atual(f, e)
    PROVE  d = e
BY OutboxAssumption DEF Tipos, Atual

\* Assigning one entity of one flush leaves every other copy as it was.
LEMMA CopiaEditada ==
    ASSUME NEW C \in [Flushes -> [Eventos -> Linha]], NEW nova \in Linha,
           NEW f \in Flushes, NEW e \in Eventos, NEW D,
           D = [C EXCEPT ![f] = [C[f] EXCEPT ![e] = nova]]
    PROVE  /\ D \in [Flushes -> [Eventos -> Linha]]
           /\ D[f][e] = nova
           /\ \A g \in Flushes, d \in Eventos : (g # f \/ d # e) => D[g][d] = C[g][d]
OBVIOUS

\* The initial state satisfies the invariant.
LEMMA InitIInv == Init => IInv
BY OutboxAssumption
   DEF Init, IInv, Tipos, AfirmacoesVerdadeiras, SobraTentativa,
       PublicadoImplicaEntregue, TentativasNaoExageram, Linha, LinhaNova,
       Colunas, MaisDeUma

\* Inserting a row disturbs nothing the invariant speaks of.
LEMMA GravarIInv == ASSUME IInv, NEW e \in Eventos, Gravar(e) PROVE IInv'
BY DEF Gravar, flushVars, IInv, Tipos, AfirmacoesVerdadeiras, SobraTentativa,
       PublicadoImplicaEntregue, TentativasNaoExageram, Atual

\* A new flush copies rows that may still be attempted.
LEMMA IniciarFlushIInv ==
    ASSUME IInv, NEW g \in Flushes, IniciarFlush(g) PROVE IInv'
<1> USE OutboxAssumption DEF IInv, IniciarFlush
<1>1. Selecao \subseteq Eventos /\ \A e \in Selecao : linhas[e].tentativas < LimiteTentativas
  BY DEF Selecao, Pendentes, Tipos
<1>2. \A f \in Flushes, e \in Eventos :
          copia'[f][e] = IF f = g THEN IF e \in Selecao THEN linhas[e] ELSE LinhaNova
                                  ELSE copia[f][e]
  BY DEF Tipos
<1>3. Tipos'
  BY <1>1 DEF Tipos, Linha, LinhaNova
<1>4. LinhaNova.publicado = FALSE /\ LinhaNova.tentativas = 0
  BY DEF LinhaNova
<1>5. AfirmacoesVerdadeiras'
  <2>1. \A f \in Flushes, e \in Eventos :
           /\ copia'[f][e].publicado => entregas[e] > 0
           /\ copia'[f][e].tentativas <= fracassos[e]
    BY <1>1, <1>2, <1>4 DEF AfirmacoesVerdadeiras, Tipos, PublicadoImplicaEntregue,
                            TentativasNaoExageram
  <2>2. \A f \in Flushes, e \in Eventos :
           (pc'[f] = "aceito" /\ Atual(f, e)') => entregas[e] > 0
    BY DEF AfirmacoesVerdadeiras, Tipos, Atual
  <2> QED
    BY <2>1, <2>2 DEF AfirmacoesVerdadeiras, PublicadoImplicaEntregue,
                      TentativasNaoExageram
<1>6. SobraTentativa'
  BY <1>1, <1>2 DEF SobraTentativa, Tipos, Atual
<1> QED
  BY <1>3, <1>5, <1>6

-----------------------------------------------------------------------------
\* The delivery is counted before the answer can arrive.
LEMMA AceitarIInv ==
    ASSUME IInv, NEW f \in Flushes, NEW e \in Eventos, Atual(f, e), Aceitar(f, e)
    PROVE  IInv'
<1> USE OutboxAssumption DEF IInv, Aceitar, ContarEntrega
<1>1. Tipos'
  BY DEF Tipos, Linha, LinhaNova, Colunas, MaisDeUma, SobraTentativa, Atual
<1>0. entregas'[e] > 0 /\ \A d \in Eventos : entregas[d] > 0 => entregas'[d] > 0
  BY DEF Tipos, MaisDeUma
<1>2. AfirmacoesVerdadeiras'
  BY <1>0, AtualUnico DEF AfirmacoesVerdadeiras, Tipos, PublicadoImplicaEntregue,
                          TentativasNaoExageram, Atual
<1>3. SobraTentativa'
  BY AtualUnico DEF SobraTentativa, Tipos, Linha, LinhaNova, Atual
<1> QED
  BY <1>1, <1>2, <1>3

\* A repeated delivery only adds to the count.
LEMMA ReenviarIInv ==
    ASSUME IInv, NEW f \in Flushes, NEW e \in Eventos, Atual(f, e), Reenviar(f, e)
    PROVE  IInv'
<1> USE OutboxAssumption DEF IInv, Reenviar, ContarEntrega, Falhar, flushVars
<1>1. Tipos'
  BY DEF Tipos, Linha, LinhaNova, Colunas, MaisDeUma, SobraTentativa, Atual
<1>0. entregas'[e] > 0 /\ \A d \in Eventos : entregas[d] > 0 => entregas'[d] > 0
  BY DEF Tipos, MaisDeUma
<1>2. AfirmacoesVerdadeiras'
  BY <1>0, AtualUnico DEF AfirmacoesVerdadeiras, Tipos, PublicadoImplicaEntregue,
                          TentativasNaoExageram, Atual
<1>3. SobraTentativa'
  BY AtualUnico DEF SobraTentativa, Tipos, Linha, LinhaNova, Atual
<1> QED
  BY <1>1, <1>2, <1>3

\* The copy says publicado only after the answer, hence after a delivery.
LEMMA ConfirmarIInv ==
    ASSUME IInv, NEW f \in Flushes, NEW e \in Eventos, Atual(f, e), Confirmar(f, e)
    PROVE  IInv'
<1> USE OutboxAssumption DEF IInv, Confirmar
<1> DEFINE nova == [copia[f][e] EXCEPT !.publicado = TRUE]
<1>1. copia[f][e] \in Linha /\ copia \in [Flushes -> [Eventos -> Linha]]
  BY DEF Tipos
<1>2. /\ nova \in Linha
      /\ nova.publicado = TRUE
      /\ nova.tentativas = copia[f][e].tentativas
  BY <1>1 DEF Linha
<1>3. copia' = [copia EXCEPT ![f] = [copia[f] EXCEPT ![e] = nova]]
  BY <1>1
<1> HIDE DEF nova
<1> HIDE DEF Confirmar
<1>4. /\ copia' \in [Flushes -> [Eventos -> Linha]]
      /\ copia'[f][e] = nova
      /\ \A g \in Flushes, d \in Eventos :
            (g # f \/ d # e) => copia'[g][d] = copia[g][d]
  BY <1>1, <1>2, <1>3, CopiaEditada
<1> USE DEF Confirmar
<1>5. Tipos'
  BY <1>4 DEF Tipos
<1>6. AfirmacoesVerdadeiras'
  BY <1>2, <1>4, AtualUnico DEF AfirmacoesVerdadeiras, Tipos, PublicadoImplicaEntregue,
                                TentativasNaoExageram, Atual
<1>7. SobraTentativa'
  BY <1>2, <1>4, AtualUnico DEF SobraTentativa, Tipos, Atual
<1> QED
  BY <1>5, <1>6, <1>7

\* The comparison changes neither the row nor the copy.
LEMMA LerLinhaIInv ==
    ASSUME IInv, NEW f \in Flushes, NEW e \in Eventos, Atual(f, e), LerLinha(f, e)
    PROVE  IInv'
<1> USE OutboxAssumption DEF IInv, LerLinha
<1>1. Tipos'
  BY DEF Tipos, Linha, LinhaNova, Colunas, MaisDeUma, SobraTentativa, Atual
<1>2. AfirmacoesVerdadeiras'
  BY AtualUnico DEF AfirmacoesVerdadeiras, Tipos, PublicadoImplicaEntregue,
                    TentativasNaoExageram, Linha, LinhaNova, MaisDeUma, Atual
<1>3. SobraTentativa'
  BY AtualUnico DEF SobraTentativa, Tipos, Linha, LinhaNova, Atual
<1> QED
  BY <1>1, <1>2, <1>3

-----------------------------------------------------------------------------
\* What an UPDATE leaves in the row comes from the row or from the copy.
LEMMA LinhaAtualizadaVem ==
    ASSUME Tipos, NEW f \in Flushes, NEW e \in Eventos
    PROVE  /\ LinhaAtualizada(f, e) \in Linha
           /\ LinhaAtualizada(f, e).publicado \in {linhas[e].publicado, copia[f][e].publicado}
           /\ LinhaAtualizada(f, e).tentativas \in {linhas[e].tentativas, copia[f][e].tentativas}
<1>1. linhas[e] \in Linha /\ copia[f][e] \in Linha
  BY DEF Tipos
<1>2. /\ LinhaAtualizada(f, e).publicado \in {linhas[e].publicado, copia[f][e].publicado}
      /\ LinhaAtualizada(f, e).tentativas \in {linhas[e].tentativas, copia[f][e].tentativas}
  BY DEF LinhaAtualizada
<1>3. LinhaAtualizada(f, e) \in Linha
  BY <1>1 DEF LinhaAtualizada, Linha
<1> QED
  BY <1>2, <1>3

\* So an UPDATE, or its absence, keeps the rows truthful.
LEMMA LinhasVerdadeiras ==
    ASSUME IInv, NEW f \in Flushes, NEW e \in Eventos,
           linhas' = linhas \/ linhas' = [linhas EXCEPT ![e] = LinhaAtualizada(f, e)]
    PROVE  /\ linhas' \in [Eventos -> Linha]
           /\ \A d \in Eventos : /\ linhas'[d].publicado => entregas[d] > 0
                                 /\ linhas'[d].tentativas <= fracassos[d]
<1>1. linhas \in [Eventos -> Linha] /\ \A d \in Eventos :
          /\ linhas[d].publicado => entregas[d] > 0
          /\ linhas[d].tentativas <= fracassos[d]
          /\ copia[f][d].publicado => entregas[d] > 0
          /\ copia[f][d].tentativas <= fracassos[d]
  BY DEF IInv, Tipos, AfirmacoesVerdadeiras, PublicadoImplicaEntregue, TentativasNaoExageram
<1>2. CASE linhas' = linhas
  BY <1>1, <1>2
<1>3. CASE linhas' = [linhas EXCEPT ![e] = LinhaAtualizada(f, e)]
  <2>1. linhas' \in [Eventos -> Linha]
    BY <1>1, <1>3, LinhaAtualizadaVem DEF IInv
  <2>2. ASSUME NEW d \in Eventos
        PROVE  /\ linhas'[d].publicado => entregas[d] > 0
               /\ linhas'[d].tentativas <= fracassos[d]
    <3>1. CASE d = e
      <4>1. linhas'[d] = LinhaAtualizada(f, e)
        BY <1>1, <1>3, <3>1
      <4> QED
        BY <4>1, <3>1, <1>1, LinhaAtualizadaVem DEF IInv
    <3>2. CASE d # e
      BY <1>1, <1>3, <3>2
    <3> QED
      BY <3>1, <3>2
  <2> QED
    BY <2>1, <2>2
<1> QED
  BY <1>2, <1>3

\* The catch block counts on the copy an attempt that did fail, and there is room for it.
LEMMA EntrarNoCatchIInv ==
    ASSUME IInv, NEW f \in Flushes, NEW e \in Eventos, Atual(f, e), ~noCatch[f],
           EntrarNoCatch(f, e), gravados' = gravados, entregas' = entregas,
           falhas' \in 0..MaxFalhas,
           linhas' = linhas \/ linhas' = [linhas EXCEPT ![e] = LinhaAtualizada(f, e)]
    PROVE  IInv'
<1> USE OutboxAssumption
<1> DEFINE nova == [copia[f][e] EXCEPT !.tentativas = @ + 1]
<1>1. /\ copia[f][e] \in Linha
      /\ copia \in [Flushes -> [Eventos -> Linha]]
      /\ e \in lote[f]
      /\ copia[f][e].tentativas < LimiteTentativas
  BY DEF IInv, Tipos, SobraTentativa, Atual
<1>2. /\ nova \in Linha
      /\ nova.publicado = copia[f][e].publicado
      /\ nova.tentativas = copia[f][e].tentativas + 1
  BY <1>1 DEF Linha
<1>3. copia' = [copia EXCEPT ![f] = [copia[f] EXCEPT ![e] = nova]]
  BY <1>1 DEF EntrarNoCatch
<1> HIDE DEF nova
<1>4. /\ copia' \in [Flushes -> [Eventos -> Linha]]
      /\ copia'[f][e] = nova
      /\ \A g \in Flushes, d \in Eventos :
            (g # f \/ d # e) => copia'[g][d] = copia[g][d]
  BY <1>1, <1>2, <1>3, CopiaEditada
<1>5. /\ fracassos' \in [Eventos -> 0..LimiteTentativas]
      /\ \A d \in Eventos : fracassos[d] <= fracassos'[d]
      /\ nova.tentativas <= fracassos'[e]
  <2>1. fracassos \in [Eventos -> 0..LimiteTentativas] /\ copia[f][e].tentativas <= fracassos[e]
    BY DEF IInv, Tipos, AfirmacoesVerdadeiras
  <2>2. copia[f][e].tentativas \in Nat
    BY <1>1 DEF Linha
  <2> QED
    BY <1>1, <1>2, <2>1, <2>2 DEF EntrarNoCatch
<1>6. Tipos'
  BY <1>4, <1>5, LinhasVerdadeiras DEF IInv, Tipos, EntrarNoCatch
<1>7. AfirmacoesVerdadeiras'
  <2>1. \A d \in Eventos : /\ linhas'[d].publicado => entregas'[d] > 0
                           /\ linhas'[d].tentativas <= fracassos'[d]
    BY <1>5, LinhasVerdadeiras DEF IInv, Tipos, Linha
  <2>2. ASSUME NEW g \in Flushes, NEW d \in Eventos
        PROVE  /\ copia'[g][d].publicado => entregas'[d] > 0
               /\ copia'[g][d].tentativas <= fracassos'[d]
    <3>1. /\ copia[g][d].publicado => entregas[d] > 0
          /\ copia[g][d].tentativas <= fracassos[d]
          /\ copia[g][d].tentativas \in Nat
      BY DEF IInv, Tipos, AfirmacoesVerdadeiras, Linha
    <3>2. fracassos[d] \in Nat /\ fracassos'[d] \in Nat
      BY <1>5 DEF IInv, Tipos
    <3>3. CASE g = f /\ d = e
      BY <1>2, <1>4, <1>5, <3>1, <3>3
    <3>4. CASE g # f \/ d # e
      BY <1>4, <1>5, <3>1, <3>2, <3>4
    <3> QED
      BY <3>3, <3>4
  <2>3. \A g \in Flushes, d \in Eventos :
           (pc'[g] = "aceito" /\ Atual(g, d)') => entregas'[d] > 0
    BY DEF IInv, Tipos, AfirmacoesVerdadeiras, EntrarNoCatch, Atual
  <2> QED
    BY <2>1, <2>2, <2>3 DEF AfirmacoesVerdadeiras, PublicadoImplicaEntregue,
                            TentativasNaoExageram
<1>8. SobraTentativa'
  BY <1>4, AtualUnico DEF IInv, SobraTentativa, Tipos, EntrarNoCatch, Atual
<1> QED
  BY <1>6, <1>7, <1>8 DEF IInv

\* A rejection goes through the catch block.
LEMMA RejeitarIInv ==
    ASSUME IInv, NEW f \in Flushes, NEW e \in Eventos, Atual(f, e), Rejeitar(f, e)
    PROVE  IInv'
<1>1. ~noCatch[f]
  BY DEF Rejeitar, IInv, SobraTentativa
<1> QED
  BY <1>1, EntrarNoCatchIInv DEF Rejeitar, IInv, Tipos

\* So does a lost answer.
LEMMA PerderRespostaIInv ==
    ASSUME IInv, NEW f \in Flushes, NEW e \in Eventos, Atual(f, e), PerderResposta(f, e)
    PROVE  IInv'
<1>1. ~noCatch[f]
  BY DEF PerderResposta, IInv, SobraTentativa
<1>2. falhas' \in 0..MaxFalhas
  BY OutboxAssumption DEF PerderResposta, Falhar, IInv, Tipos
<1> QED
  BY <1>1, <1>2, EntrarNoCatchIInv DEF PerderResposta

\* Dropping the batch of a flush forgets its copies.
LEMMA AbortarIInv ==
    ASSUME IInv, NEW f \in Flushes, NEW e \in Eventos, Abortar(f),
           gravados' = gravados, entregas' = entregas, falhas' \in 0..MaxFalhas,
           linhas' = linhas \/ linhas' = [linhas EXCEPT ![e] = LinhaAtualizada(f, e)]
    PROVE  IInv'
<1> USE OutboxAssumption
<1>1. /\ LinhaNova \in Linha
      /\ LinhaNova.publicado = FALSE
      /\ LinhaNova.tentativas = 0
  BY DEF Linha, LinhaNova
<1>2. /\ copia' \in [Flushes -> [Eventos -> Linha]]
      /\ \A g \in Flushes, d \in Eventos :
            copia'[g][d] = IF g = f THEN LinhaNova ELSE copia[g][d]
  BY <1>1 DEF Abortar, IInv, Tipos
<1>3. Tipos'
  BY <1>2, LinhasVerdadeiras DEF IInv, Tipos, Abortar
<1>4. AfirmacoesVerdadeiras'
  BY <1>1, <1>2, LinhasVerdadeiras
     DEF IInv, Tipos, AfirmacoesVerdadeiras, PublicadoImplicaEntregue,
         TentativasNaoExageram, Abortar, Atual
<1>5. SobraTentativa'
  BY <1>2 DEF IInv, SobraTentativa, Tipos, Abortar, Atual
<1> QED
  BY <1>3, <1>4, <1>5 DEF IInv

\* A failing save enters the catch block, or leaves the method from it.
LEMMA FalharSaveIInv ==
    ASSUME IInv, NEW f \in Flushes, NEW e \in Eventos, Atual(f, e), FalharSave(f, e)
    PROVE  IInv'
<1>1. falhas' \in 0..MaxFalhas
  BY OutboxAssumption DEF FalharSave, Falhar, IInv, Tipos
<1>2. CASE noCatch[f]
  BY <1>1, <1>2, AbortarIInv DEF FalharSave
<1>3. CASE ~noCatch[f]
  BY <1>1, <1>3, EntrarNoCatchIInv DEF FalharSave
<1> QED
  BY <1>2, <1>3

\* After a successful save the loop moves on with copies that have attempts left.
LEMMA GravarLinhaIInv ==
    ASSUME IInv, NEW f \in Flushes, NEW e \in Eventos, Atual(f, e), GravarLinha(f, e)
    PROVE  IInv'
<1> USE OutboxAssumption
<1>1. /\ LinhaNova \in Linha
      /\ LinhaNova.publicado = FALSE
      /\ LinhaNova.tentativas = 0
  BY DEF Linha, LinhaNova
<1>2. copia' = [copia EXCEPT ![f] = [copia[f] EXCEPT ![e] = LinhaNova]]
  BY DEF GravarLinha, Avancar, IInv, Tipos
<1>3. /\ copia' \in [Flushes -> [Eventos -> Linha]]
      /\ copia'[f][e] = LinhaNova
      /\ \A g \in Flushes, d \in Eventos :
            (g # f \/ d # e) => copia'[g][d] = copia[g][d]
  BY <1>1, <1>2, CopiaEditada DEF IInv, Tipos
<1>4. lote' = [lote EXCEPT ![f] = lote[f] \ {e}]
  BY DEF GravarLinha, Avancar
<1>5. pc' = [pc EXCEPT ![f] = IF lote[f] \ {e} = {} THEN "ocioso" ELSE "publicando"]
  BY DEF GravarLinha, Avancar
<1>6. /\ linhas' = [linhas EXCEPT ![e] = LinhaAtualizada(f, e)]
      /\ noCatch' = [noCatch EXCEPT ![f] = FALSE]
      /\ dif' = [dif EXCEPT ![f] = {}]
      /\ UNCHANGED <<gravados, entregas, fracassos, falhas>>
  BY DEF GravarLinha, Avancar
<1>7. Tipos'
  BY <1>3, <1>4, <1>5, <1>6, LinhasVerdadeiras DEF IInv, Tipos
<1>8. AfirmacoesVerdadeiras'
  <2>1. \A g \in Flushes, d \in Eventos :
           /\ copia'[g][d].publicado => entregas'[d] > 0
           /\ copia'[g][d].tentativas <= fracassos'[d]
    BY <1>1, <1>3, <1>6 DEF IInv, Tipos, AfirmacoesVerdadeiras
  <2>2. \A g \in Flushes, d \in Eventos :
           (pc'[g] = "aceito" /\ Atual(g, d)') => entregas'[d] > 0
    BY <1>4, <1>5, <1>6 DEF IInv, Tipos, AfirmacoesVerdadeiras, Atual
  <2> QED
    BY <1>6, <2>1, <2>2, LinhasVerdadeiras
       DEF AfirmacoesVerdadeiras, PublicadoImplicaEntregue, TentativasNaoExageram
<1>9. SobraTentativa'
  BY <1>3, <1>4, <1>5, <1>6, AtualUnico DEF IInv, SobraTentativa, Tipos, Atual
<1> QED
  BY <1>7, <1>8, <1>9 DEF IInv

\* A restart forgets every copy and keeps the rows.
LEMMA QuedaIInv == ASSUME IInv, Queda PROVE IInv'
BY OutboxAssumption
   DEF Queda, Falhar, IInv, Tipos, AfirmacoesVerdadeiras, SobraTentativa,
       PublicadoImplicaEntregue, TentativasNaoExageram, Linha, LinhaNova

-----------------------------------------------------------------------------
LEMMA NextIInv == ASSUME IInv, [Next]_vars PROVE IInv'
<1>1. CASE \E e \in Eventos : Gravar(e)
  BY <1>1, GravarIInv
<1>2. CASE \E f \in Flushes : IniciarFlush(f)
  BY <1>2, IniciarFlushIInv
<1>3. ASSUME NEW f \in Flushes, NEW e \in Eventos, PassoNoEvento(f, e)
      PROVE  IInv'
  BY <1>3, AceitarIInv, ReenviarIInv, ConfirmarIInv, RejeitarIInv, PerderRespostaIInv,
     LerLinhaIInv, GravarLinhaIInv, FalharSaveIInv DEF PassoNoEvento
<1>4. CASE Queda
  BY <1>4, QuedaIInv
<1>5. CASE UNCHANGED vars
  BY <1>5 DEF vars, flushVars, IInv, Tipos, AfirmacoesVerdadeiras, SobraTentativa,
              PublicadoImplicaEntregue, TentativasNaoExageram, Atual
<1> QED
  BY <1>1, <1>2, <1>3, <1>4, <1>5 DEF Next, Passo

\* The inductive invariant holds in every reachable state.
THEOREM Invariante == Spec => []IInv
BY InitIInv, NextIInv, PTL DEF Spec

-----------------------------------------------------------------------------
(* Disputed events. *)

\* Two flushes that hold the same event make it disputed.
DisputaCerta ==
    /\ disputa \in [Eventos -> {"nunca", "agora", "antes"}]
    /\ \A f, g \in Flushes : \A e \in lote[f] \cap lote[g] : f # g => disputa[e] = "agora"

LEMMA RegistroCerto ==
    ASSUME Tipos', DisputaCerta, RegistrarDisputa
    PROVE  DisputaCerta'
<1>1. disputa' \in [Eventos -> {"nunca", "agora", "antes"}]
  BY DEF RegistrarDisputa, DisputaCerta
<1>2. \A f \in Flushes : lote'[f] \subseteq Eventos
  BY DEF Tipos
<1> QED
  BY <1>1, <1>2 DEF RegistrarDisputa, DisputaCerta

LEMMA SempreDisputaCerta == Spec => []DisputaCerta
<1>1. Init => DisputaCerta
  BY DEF Init, DisputaCerta
<1>2. ASSUME IInv', DisputaCerta, [Next]_vars PROVE DisputaCerta'
  <2>1. CASE \E e \in Eventos : Gravar(e)
    BY <1>2, <2>1 DEF Gravar, flushVars, DisputaCerta
  <2>2. CASE UNCHANGED vars
    BY <1>2, <2>2 DEF vars, flushVars, DisputaCerta
  <2>3. CASE RegistrarDisputa
    BY <1>2, <2>3, RegistroCerto DEF IInv
  <2> QED
    BY <1>2, <2>1, <2>2, <2>3 DEF Next, IniciarFlush, Passo, PassoNoEvento, Queda
<1> QED
  BY <1>1, <1>2, Invariante, PTL DEF Spec

\* Of an event somebody still holds the dispute does not end; of one that is not disputed
\* there is one holder.
LEMMA SemDisputa ==
    ASSUME RegistrarDisputa, NEW e \in Eventos, disputa'[e] # "agora"
    PROVE  /\ \A f, g \in Flushes : (e \in lote'[f] /\ e \in lote'[g]) => f = g
           /\ (\E f \in Flushes : e \in lote'[f]) => disputa[e] # "agora"
           /\ disputa'[e] = "nunca" => disputa[e] = "nunca"
BY DEF RegistrarDisputa

\* Type correctness: in particular no row and no copy ever passes the limit of attempts.
THEOREM TypeCorrect == Spec => []TypeOK
<1>1. IInv /\ DisputaCerta => TypeOK
  BY DEF IInv, DisputaCerta, TypeOK
<1> QED
  BY <1>1, Invariante, SempreDisputaCerta, PTL

\* A row is marked published only after the broker accepted the event, with any
\* number of overlapping flushes, stale saves, failures and restarts.
THEOREM PublicacaoVerdadeira == Spec => []PublicadoImplicaEntregue
<1>1. IInv => PublicadoImplicaEntregue
  BY DEF IInv, AfirmacoesVerdadeiras
<1> QED
  BY <1>1, Invariante, PTL

\* The worker gives up on an event only after as many failed attempts as the limit.
THEOREM DesistenciaJustificada == Spec => []TentativasNaoExageram
<1>1. IInv => TentativasNaoExageram
  BY DEF IInv, AfirmacoesVerdadeiras
<1> QED
  BY <1>1, Invariante, PTL

-----------------------------------------------------------------------------
(* Only recorded events are handled. *)

\* A batch holds recorded events only; the row of an event not recorded is untouched.
SoGravados ==
    /\ \A f \in Flushes : lote[f] \subseteq gravados
    /\ \A e \in Eventos \ gravados : linhas[e] = LinhaNova /\ entregas[e] = 0

\* A step on an event of a batch concerns the row and the deliveries of that event only.
LEMMA PassoSoNoEvento ==
    ASSUME Tipos, NEW f \in Flushes, NEW e \in Eventos, PassoNoEvento(f, e)
    PROVE  /\ gravados' = gravados /\ e \in lote[f]
           /\ \A g \in Flushes : lote'[g] \subseteq lote[g]
           /\ \A d \in Eventos : d # e => linhas'[d] = linhas[d] /\ entregas'[d] = entregas[d]
<1>1. e \in lote[f]
  BY DEF PassoNoEvento, Atual
<1>2. CASE Aceitar(f, e) \/ Reenviar(f, e)
  BY <1>1, <1>2 DEF Tipos, Aceitar, Reenviar, ContarEntrega, flushVars
<1>3. CASE Confirmar(f, e) \/ Rejeitar(f, e) \/ PerderResposta(f, e) \/ LerLinha(f, e)
  BY <1>1, <1>3 DEF Tipos, Confirmar, Rejeitar, PerderResposta, LerLinha, EntrarNoCatch
<1>4. CASE GravarLinha(f, e)
  BY <1>1, <1>4 DEF Tipos, GravarLinha, Avancar
<1>5. CASE FalharSave(f, e)
  <2>1. UNCHANGED <<gravados, entregas>>
    BY <1>5 DEF FalharSave
  <2>2. \A d \in Eventos : d # e => linhas'[d] = linhas[d]
    BY <1>5 DEF FalharSave, Tipos
  <2>3. \A g \in Flushes : lote'[g] \subseteq lote[g]
    BY <1>5 DEF FalharSave, Abortar, EntrarNoCatch, Tipos
  <2> QED
    BY <1>1, <2>1, <2>2, <2>3
<1> QED
  BY <1>2, <1>3, <1>4, <1>5 DEF PassoNoEvento

LEMMA NextSoGravados == ASSUME Tipos, SoGravados, [Next]_vars PROVE SoGravados'
<1>1. ASSUME NEW e \in Eventos, Gravar(e) PROVE SoGravados'
  BY <1>1 DEF Gravar, flushVars, SoGravados
<1>2. ASSUME NEW f \in Flushes, IniciarFlush(f) PROVE SoGravados'
  BY <1>2 DEF IniciarFlush, Selecao, Pendentes, Tipos, SoGravados
<1>3. ASSUME NEW f \in Flushes, NEW e \in Eventos, PassoNoEvento(f, e) PROVE SoGravados'
  BY <1>3, PassoSoNoEvento DEF SoGravados
<1>4. CASE Queda
  BY <1>4 DEF Queda, SoGravados
<1>5. CASE UNCHANGED vars
  BY <1>5 DEF vars, flushVars, SoGravados
<1> QED
  BY <1>1, <1>2, <1>3, <1>4, <1>5 DEF Next, Passo

LEMMA SempreSoGravados == Spec => []SoGravados
<1>1. Init => SoGravados
  BY DEF Init, SoGravados
<1>2. IInv /\ SoGravados /\ [Next]_vars => SoGravados'
  BY NextSoGravados DEF IInv
<1> QED
  BY <1>1, <1>2, Invariante, PTL DEF Spec

-----------------------------------------------------------------------------
(* Events that are not disputed. *)

\* Only its holder writes the row of an event that is not disputed: the copy is never
\* behind the row, and the row has attempts left.
CopiasEmDia ==
    \A f \in Flushes : \A e \in lote[f] : disputa[e] # "agora" =>
        /\ linhas[e].tentativas < LimiteTentativas
        /\ linhas[e].tentativas <= copia[f][e].tentativas
        /\ linhas[e].publicado => copia[f][e].publicado

LEMMA InitEmDia == Init => CopiasEmDia
BY DEF Init, CopiasEmDia

\* What an UPDATE of an event of the batch does to its row.
LEMMA AtualizacaoAvanca ==
    ASSUME IInv, CopiasEmDia, NEW f \in Flushes, NEW e \in Eventos, e \in lote[f],
           disputa[e] # "agora"
    PROVE  /\ linhas[e].publicado => LinhaAtualizada(f, e).publicado
           /\ linhas[e].tentativas <= LinhaAtualizada(f, e).tentativas
           /\ LinhaAtualizada(f, e).tentativas <= copia[f][e].tentativas
           /\ LinhaAtualizada(f, e).publicado => copia[f][e].publicado
           /\ linhas[e].tentativas < LimiteTentativas
<1>1. linhas[e] \in Linha /\ copia[f][e] \in Linha
  BY DEF IInv, Tipos
<1>2. linhas[e].tentativas \in Nat /\ copia[f][e].tentativas \in Nat
  BY <1>1 DEF Linha
<1> QED
  BY <1>2, LinhaAtualizadaVem DEF CopiasEmDia, IInv

LEMMA IniciarEmDia ==
    ASSUME IInv, CopiasEmDia, NEW f \in Flushes, IniciarFlush(f)
    PROVE  CopiasEmDia'
<1> SUFFICES ASSUME NEW g \in Flushes, NEW e \in lote'[g], disputa'[e] # "agora"
             PROVE  /\ linhas'[e].tentativas < LimiteTentativas
                    /\ linhas'[e].tentativas <= copia'[g][e].tentativas
                    /\ linhas'[e].publicado => copia'[g][e].publicado
  BY DEF CopiasEmDia
<1>1. /\ lote' = [lote EXCEPT ![f] = Selecao]
      /\ UNCHANGED linhas
      /\ \A d \in Selecao : copia'[f][d] = linhas[d]
      /\ \A d \in Selecao : d \in Eventos /\ linhas[d].tentativas < LimiteTentativas
      /\ \A h \in Flushes : h # f => copia'[h] = copia[h]
  BY DEF IniciarFlush, IInv, Tipos, Selecao, Pendentes
<1>2. CASE g = f
  <2>1. e \in Selecao
    BY <1>1, <1>2 DEF IInv, Tipos
  <2>2. linhas[e].tentativas \in Nat
    BY <1>1, <2>1 DEF IInv, Tipos, Linha
  <2> QED
    BY <1>1, <1>2, <2>1, <2>2
<1>3. CASE g # f
  <2>1. lote'[g] = lote[g] /\ e \in Eventos
    BY <1>1, <1>3 DEF IInv, Tipos
  <2>2. disputa[e] # "agora"
    BY <2>1, SemDisputa DEF IniciarFlush
  <2> QED
    BY <1>1, <1>3, <2>1, <2>2 DEF CopiasEmDia
<1> QED
  BY <1>2, <1>3

\* A step of f on e: nobody else holds e unless it is disputed, and the other copies and
\* rows stay.
LEMMA PassoDoDono ==
    ASSUME Tipos, DisputaCerta, CopiasEmDia, RegistrarDisputa,
           NEW f \in Flushes, NEW e \in Eventos, e \in lote[f],
           \A g \in Flushes : lote'[g] \subseteq lote[g],
           \A g \in Flushes : \A d \in lote'[g] :
              (g # f \/ d # e) => copia'[g][d] = copia[g][d],
           \A d \in Eventos : d # e => linhas'[d] = linhas[d],
           (e \in lote'[f] /\ disputa[e] # "agora") =>
              /\ linhas'[e].tentativas < LimiteTentativas
              /\ linhas'[e].tentativas <= copia'[f][e].tentativas
              /\ linhas'[e].publicado => copia'[f][e].publicado
    PROVE  CopiasEmDia'
<1> SUFFICES ASSUME NEW g \in Flushes, NEW d \in lote'[g], disputa'[d] # "agora"
             PROVE  /\ linhas'[d].tentativas < LimiteTentativas
                    /\ linhas'[d].tentativas <= copia'[g][d].tentativas
                    /\ linhas'[d].publicado => copia'[g][d].publicado
  BY DEF CopiasEmDia
<1>1. d \in Eventos /\ d \in lote[g]
  BY DEF Tipos
<1>2. disputa[d] # "agora"
  BY <1>1, SemDisputa
<1>3. CASE d # e
  BY <1>1, <1>2, <1>3 DEF CopiasEmDia
<1>4. CASE d = e
  <2>1. g = f
    BY <1>1, <1>2, <1>4 DEF DisputaCerta
  <2> QED
    BY <1>2, <1>4, <2>1
<1> QED
  BY <1>3, <1>4

\* The catch block after an UPDATE that committed, or did not.
LEMMA CatchEmDia ==
    ASSUME IInv, DisputaCerta, CopiasEmDia, RegistrarDisputa,
           NEW f \in Flushes, NEW e \in Eventos,
           Atual(f, e), ~noCatch[f], EntrarNoCatch(f, e),
           linhas' = linhas \/ linhas' = [linhas EXCEPT ![e] = LinhaAtualizada(f, e)]
    PROVE  CopiasEmDia'
<1> DEFINE nova == [copia[f][e] EXCEPT !.tentativas = @ + 1]
<1>1. /\ e \in lote[f]
      /\ copia[f][e] \in Linha
      /\ copia[f][e].tentativas < LimiteTentativas
      /\ linhas \in [Eventos -> Linha]
      /\ \A g \in Flushes : lote[g] \subseteq Eventos
  BY DEF IInv, Tipos, SobraTentativa, Atual
<1>2. copia[f][e].tentativas \in Nat /\ LimiteTentativas \in Nat
  BY <1>1, OutboxAssumption DEF Linha
<1>3. /\ nova.tentativas = copia[f][e].tentativas + 1
      /\ nova.publicado = copia[f][e].publicado
  BY <1>1 DEF Linha
<1>4. /\ copia'[f][e] = nova
      /\ \A g \in Flushes, d \in Eventos : (g # f \/ d # e) => copia'[g][d] = copia[g][d]
      /\ lote' = lote
  BY DEF EntrarNoCatch, IInv, Tipos
<1> HIDE DEF nova
<1>5. \A d \in Eventos : d # e => linhas'[d] = linhas[d]
  BY <1>1
<1>6. ASSUME disputa[e] # "agora"
      PROVE  /\ linhas'[e].tentativas < LimiteTentativas
             /\ linhas'[e].tentativas <= copia'[f][e].tentativas
             /\ linhas'[e].publicado => copia'[f][e].publicado
  <2>1. linhas'[e] = linhas[e] \/ linhas'[e] = LinhaAtualizada(f, e)
    BY <1>1
  <2>2. LinhaAtualizada(f, e) \in Linha /\ linhas[e] \in Linha
    BY <1>1, LinhaAtualizadaVem DEF IInv
  <2>3. linhas'[e].tentativas \in Nat
    BY <2>1, <2>2 DEF Linha
  <2>4. /\ linhas'[e].tentativas <= copia[f][e].tentativas
        /\ linhas'[e].publicado => copia[f][e].publicado
    BY <1>1, <1>6, <2>1, AtualizacaoAvanca DEF CopiasEmDia
  <2> QED
    BY <1>1, <1>2, <1>3, <1>4, <2>3, <2>4
<1> QED
  BY <1>1, <1>4, <1>5, <1>6, PassoDoDono DEF IInv

LEMMA PassoEmDia ==
    ASSUME IInv, DisputaCerta, CopiasEmDia, NEW f \in Flushes, NEW e \in Eventos,
           PassoNoEvento(f, e)
    PROVE  CopiasEmDia'
<1>1. /\ e \in lote[f] /\ Atual(f, e) /\ RegistrarDisputa /\ Tipos
      /\ \A g \in Flushes : lote[g] \subseteq Eventos /\ lote'[g] \subseteq lote[g]
  BY PassoSoNoEvento DEF PassoNoEvento, Atual, IInv, Tipos
<1>2. disputa[e] # "agora" =>
         /\ linhas[e].tentativas < LimiteTentativas
         /\ linhas[e].tentativas <= copia[f][e].tentativas
         /\ linhas[e].publicado => copia[f][e].publicado
  BY <1>1 DEF CopiasEmDia
<1>3. CASE Aceitar(f, e) \/ Reenviar(f, e) \/ LerLinha(f, e)
  <2>1. UNCHANGED <<linhas, lote, copia>>
    BY <1>3 DEF Aceitar, Reenviar, LerLinha, flushVars
  <2> QED
    BY <1>1, <1>2, <2>1, PassoDoDono
<1>4. CASE Confirmar(f, e)
  <2>1. /\ copia[f][e] \in Linha
        /\ copia'[f][e] = [copia[f][e] EXCEPT !.publicado = TRUE]
    BY <1>4 DEF Confirmar, IInv, Tipos
  <2>2. copia'[f][e].tentativas = copia[f][e].tentativas /\ copia'[f][e].publicado
    BY <2>1 DEF Linha
  <2>3. /\ UNCHANGED <<linhas, lote>>
        /\ \A g \in Flushes, d \in Eventos : (g # f \/ d # e) => copia'[g][d] = copia[g][d]
    BY <1>4 DEF Confirmar, IInv, Tipos
  <2> QED
    BY <1>1, <1>2, <2>2, <2>3, PassoDoDono
<1>5. CASE Rejeitar(f, e) \/ PerderResposta(f, e)
  <2>1. ~noCatch[f] /\ EntrarNoCatch(f, e) /\ linhas' = linhas
    BY <1>5 DEF Rejeitar, PerderResposta, IInv, SobraTentativa
  <2> QED
    BY <1>1, <2>1, CatchEmDia
<1>6. CASE GravarLinha(f, e)
  <2>1. /\ \A d \in Eventos : d # e => linhas'[d] = linhas[d]
        /\ e \notin lote'[f]
        /\ \A g \in Flushes, d \in Eventos : (g # f \/ d # e) => copia'[g][d] = copia[g][d]
    BY <1>6 DEF GravarLinha, Avancar, IInv, Tipos
  <2> QED
    BY <1>1, <2>1, PassoDoDono
<1>7. CASE FalharSave(f, e)
  <2>1. CASE noCatch[f]
    <3>1. /\ lote'[f] = {}
          /\ \A g \in Flushes : g # f => copia'[g] = copia[g]
          /\ \A d \in Eventos : d # e => linhas'[d] = linhas[d]
      BY <1>7, <2>1 DEF FalharSave, Abortar, IInv, Tipos
    <3> QED
      BY <1>1, <3>1, PassoDoDono
  <2>2. CASE ~noCatch[f]
    BY <1>1, <1>7, <2>2, CatchEmDia DEF FalharSave
  <2> QED
    BY <2>1, <2>2
<1> QED
  BY <1>3, <1>4, <1>5, <1>6, <1>7 DEF PassoNoEvento

LEMMA NextEmDia == ASSUME IInv, DisputaCerta, CopiasEmDia, [Next]_vars PROVE CopiasEmDia'
<1>1. ASSUME NEW e \in Eventos, Gravar(e) PROVE CopiasEmDia'
  BY <1>1 DEF Gravar, flushVars, CopiasEmDia
<1>2. CASE Queda
  BY <1>2 DEF Queda, CopiasEmDia
<1>3. CASE UNCHANGED vars
  BY <1>3 DEF vars, flushVars, CopiasEmDia
<1> QED
  BY <1>1, <1>2, <1>3, IniciarEmDia, PassoEmDia DEF Next, Passo

LEMMA SempreEmDia == Spec => []CopiasEmDia
<1>1. IInv /\ DisputaCerta /\ CopiasEmDia /\ [Next]_vars => CopiasEmDia'
  BY NextEmDia
<1> QED
  BY <1>1, InitEmDia, Invariante, SempreDisputaCerta, PTL DEF Spec

\* The rows move only by an UPDATE of the event at hand.
LEMMA LinhasSoAvancam ==
    ASSUME IInv, CopiasEmDia, [Next]_vars, NEW e \in Eventos, disputa[e] # "agora"
    PROVE  /\ linhas[e].publicado => linhas'[e].publicado
           /\ Desistido(e) => Desistido(e)'
           /\ linhas[e].tentativas <= linhas'[e].tentativas
<1>1. linhas \in [Eventos -> Linha] /\ linhas[e].tentativas \in Nat
  BY DEF IInv, Tipos, Linha
<1>2. CASE linhas' = linhas
  BY <1>1, <1>2 DEF Desistido
<1>3. ASSUME NEW f \in Flushes, NEW d \in Eventos, Atual(f, d),
             linhas' = [linhas EXCEPT ![d] = LinhaAtualizada(f, d)]
      PROVE  /\ linhas[e].publicado => linhas'[e].publicado
             /\ Desistido(e) => Desistido(e)'
             /\ linhas[e].tentativas <= linhas'[e].tentativas
  <2>1. CASE e = d
    <3>1. linhas'[e] = LinhaAtualizada(f, e) /\ e \in lote[f]
      BY <1>1, <1>3, <2>1 DEF Atual
    <3>2. linhas[e].tentativas # LimiteTentativas
      BY <1>1, <3>1, AtualizacaoAvanca, OutboxAssumption
    <3> QED
      BY <3>1, <3>2, AtualizacaoAvanca DEF Desistido
  <2>2. CASE e # d
    BY <1>1, <1>3, <2>2 DEF Desistido
  <2> QED
    BY <2>1, <2>2
<1>4. ASSUME NEW f \in Flushes, NEW d \in Eventos, PassoNoEvento(f, d)
      PROVE  \/ linhas' = linhas
             \/ Atual(f, d) /\ linhas' = [linhas EXCEPT ![d] = LinhaAtualizada(f, d)]
  BY <1>4 DEF PassoNoEvento, Aceitar, Reenviar, Confirmar, Rejeitar, PerderResposta, LerLinha,
              GravarLinha, FalharSave
<1> QED
  BY <1>2, <1>3, <1>4 DEF Next, Passo, Gravar, IniciarFlush, Queda, vars

\* With any number of overlapping flushes, the outcome of an event that two of them do not
\* hold is final and the count of its attempts never goes back, whatever fails or restarts.
THEOREM DesfechoFinal == Spec => DesfechoDefinitivo
<1>1. IInv /\ CopiasEmDia /\ [Next]_vars =>
        [\A e \in Eventos : disputa[e] # "agora" =>
            /\ linhas[e].publicado => linhas'[e].publicado
            /\ Desistido(e) => Desistido(e)'
            /\ linhas[e].tentativas <= linhas'[e].tentativas]_vars
  BY LinhasSoAvancam
<1> QED
  BY <1>1, SempreEmDia, Invariante, PTL DEF Spec, DesfechoDefinitivo

-----------------------------------------------------------------------------
(* One delivery per event, as long as nothing failed and it was never disputed. *)

\* The event is on its way from the broker's acceptance to the save of its row.
Entregando(f, e) ==
    /\ Atual(f, e)
    /\ pc[f] = "aceito" \/ (pc[f] \in {"salvando", "gravando"} /\ copia[f][e].publicado)

\* An event the broker took is published and in no batch, or on its way; an UPDATE of a
\* published copy has publicado among its columns unless the row has it.
UmaSo(e) ==
    /\ entregas[e] <= 1
    /\ entregas[e] > 0 =>
          \/ linhas[e].publicado /\ \A f \in Flushes : e \notin lote[f]
          \/ \E f \in Flushes : Entregando(f, e)
    /\ \A f \in Flushes :
          (Atual(f, e) /\ pc[f] = "gravando" /\ copia[f][e].publicado) =>
              linhas[e].publicado \/ "publicado" \in dif[f]

EntregaUnica == falhas = 0 => \A e \in Eventos : disputa[e] = "nunca" => UmaSo(e)

LEMMA InitUnica == Init => EntregaUnica
BY DEF Init, EntregaUnica, UmaSo, Atual

\* A failure is counted, so a step from a behaviour with none counts none.
LEMMA SemFalha ==
    ASSUME Tipos, falhas' = 0
    PROVE  ~Falhar
BY DEF Tipos, Falhar

\* A flush that starts selects no published row, and what is on its way stays so.
LEMMA IniciarUnica ==
    ASSUME IInv, EntregaUnica, NEW f \in Flushes, IniciarFlush(f)
    PROVE  EntregaUnica'
<1> SUFFICES ASSUME falhas' = 0, NEW e \in Eventos, disputa'[e] = "nunca" PROVE UmaSo(e)'
  BY DEF EntregaUnica
<1>1. /\ pc[f] = "ocioso" /\ falhas = 0
      /\ lote'[f] = Selecao /\ pc'[f] = "publicando"
      /\ UNCHANGED <<linhas, entregas, dif>>
      /\ \A d \in Selecao : ~linhas[d].publicado
      /\ \A g \in Flushes : g # f => /\ lote'[g] = lote[g] /\ pc'[g] = pc[g]
                                     /\ copia'[g] = copia[g]
  BY DEF IniciarFlush, IInv, Tipos, Selecao, Pendentes
<1>2. UmaSo(e)
  BY <1>1, SemDisputa DEF EntregaUnica, IniciarFlush
<1>3. \A g \in Flushes : Entregando(g, e) => Entregando(g, e)'
  BY <1>1 DEF Entregando, Atual
<1>4. \A g \in Flushes : (Atual(g, e)' /\ pc'[g] = "gravando") => Atual(g, e) /\ g # f
  BY <1>1 DEF Atual
<1> QED
  BY <1>1, <1>2, <1>3, <1>4 DEF UmaSo

\* A step of f on e leaves the other events as they were; of e, f is the only holder.
LEMMA PassoUnico ==
    ASSUME IInv, DisputaCerta, EntregaUnica, RegistrarDisputa, falhas = 0,
           NEW f \in Flushes, NEW e \in Eventos, Atual(f, e),
           \A g \in Flushes : g # f =>
              pc'[g] = pc[g] /\ lote'[g] = lote[g] /\ copia'[g] = copia[g] /\ dif'[g] = dif[g],
           lote'[f] \in {lote[f], lote[f] \ {e}},
           \A d \in Eventos : d # e => linhas'[d] = linhas[d] /\ entregas'[d] = entregas[d],
           pc'[f] = "gravando" => lote'[f] = lote[f],
           (UmaSo(e) /\ \A g \in Flushes : e \in lote[g] => g = f) => UmaSo(e)'
    PROVE  EntregaUnica'
<1> SUFFICES ASSUME NEW d \in Eventos, disputa'[d] = "nunca" PROVE UmaSo(d)'
  BY DEF EntregaUnica
<1>1. disputa[d] = "nunca"
  BY SemDisputa
<1>2. UmaSo(d)
  BY <1>1 DEF EntregaUnica
<1>3. e \in lote[f] /\ lote[f] \subseteq Eventos
  BY DEF Atual, IInv, Tipos
<1>4. CASE d = e
  <2>1. \A g \in Flushes : e \in lote[g] => g = f
    BY <1>1, <1>3, <1>4 DEF DisputaCerta
  <2> QED
    BY <1>2, <1>4, <2>1
<1>5. CASE d # e
  <2>1. \A g \in Flushes : lote'[g] \subseteq lote[g]
    OBVIOUS
  <2>2. ~Atual(f, d)
    BY <1>5, AtualUnico DEF IInv
  <2>3. \A g \in Flushes : Entregando(g, d) => Entregando(g, d)'
    BY <2>2 DEF Entregando, Atual
  <2>4. \A g \in Flushes : (Atual(g, d)' /\ pc'[g] = "gravando") => g # f /\ Atual(g, d)
    BY <2>2 DEF Atual
  <2> QED
    BY <1>2, <1>5, <2>1, <2>3, <2>4 DEF UmaSo
<1> QED
  BY <1>4, <1>5

\* What a step without failures does, and that it keeps the claim for the event at hand.
LEMMA AceitarUnica ==
    ASSUME IInv, DisputaCerta, EntregaUnica, RegistrarDisputa, falhas = 0,
           NEW f \in Flushes, NEW e \in Eventos, Atual(f, e), Aceitar(f, e)
    PROVE  EntregaUnica'
<1>1. /\ pc[f] = "publicando" /\ pc'[f] = "aceito"
      /\ UNCHANGED <<linhas, lote, copia, dif>>
      /\ \A g \in Flushes : g # f => pc'[g] = pc[g]
      /\ \A d \in Eventos : d # e => entregas'[d] = entregas[d]
      /\ entregas'[e] = IF entregas[e] < MaisDeUma THEN entregas[e] + 1 ELSE entregas[e]
  BY DEF Aceitar, ContarEntrega, IInv, Tipos
<1>2. ASSUME UmaSo(e), \A g \in Flushes : e \in lote[g] => g = f PROVE UmaSo(e)'
  <2>1. entregas[e] = 0
    <3>1. ~(entregas[e] > 0)
      BY <1>1, <1>2 DEF UmaSo, Entregando, Atual
    <3> QED
      BY <3>1 DEF IInv, Tipos
  <2>2. entregas'[e] = 1
    BY <1>1, <2>1 DEF MaisDeUma
  <2>3. Entregando(f, e)'
    BY <1>1 DEF Entregando, Atual
  <2>4. \A g \in Flushes : (Atual(g, e)' /\ pc'[g] = "gravando") => Atual(g, e) /\ pc[g] = "gravando"
    BY <1>1 DEF Atual
  <2> QED
    BY <1>1, <1>2, <2>2, <2>3, <2>4 DEF UmaSo
<1> QED
  BY <1>1, <1>2, PassoUnico

LEMMA ConfirmarUnica ==
    ASSUME IInv, DisputaCerta, EntregaUnica, RegistrarDisputa, falhas = 0,
           NEW f \in Flushes, NEW e \in Eventos, Atual(f, e), Confirmar(f, e)
    PROVE  EntregaUnica'
<1>1. /\ pc[f] = "aceito" /\ pc'[f] = "salvando"
      /\ UNCHANGED <<linhas, lote, dif, entregas>>
      /\ \A g \in Flushes : g # f => pc'[g] = pc[g] /\ copia'[g] = copia[g]
      /\ copia[f][e] \in Linha
      /\ copia'[f][e] = [copia[f][e] EXCEPT !.publicado = TRUE]
  BY DEF Confirmar, IInv, Tipos
<1>2. copia'[f][e].publicado
  BY <1>1 DEF Linha
<1>3. ASSUME UmaSo(e), \A g \in Flushes : e \in lote[g] => g = f PROVE UmaSo(e)'
  <2>1. Entregando(f, e)'
    BY <1>1, <1>2 DEF Entregando, Atual
  <2>2. \A g \in Flushes : (Atual(g, e)' /\ pc'[g] = "gravando") => FALSE
    BY <1>1, <1>3 DEF Atual
  <2> QED
    BY <1>1, <1>3, <2>1, <2>2 DEF UmaSo
<1> QED
  BY <1>1, <1>3, PassoUnico

LEMMA LerLinhaUnica ==
    ASSUME IInv, DisputaCerta, EntregaUnica, RegistrarDisputa, falhas = 0,
           NEW f \in Flushes, NEW e \in Eventos, Atual(f, e), LerLinha(f, e)
    PROVE  EntregaUnica'
<1>1. /\ pc[f] = "salvando" /\ pc'[f] = "gravando"
      /\ UNCHANGED <<linhas, lote, copia, entregas>>
      /\ \A g \in Flushes : g # f => pc'[g] = pc[g] /\ dif'[g] = dif[g]
      /\ dif'[f] = {c \in Colunas : copia[f][e][c] # linhas[e][c]}
  BY DEF LerLinha, IInv, Tipos
<1>2. copia[f][e].publicado => linhas[e].publicado \/ "publicado" \in dif'[f]
  <2>1. copia[f][e] \in Linha /\ linhas[e] \in Linha
    BY DEF IInv, Tipos
  <2>2. /\ copia[f][e]["publicado"] = copia[f][e].publicado
        /\ linhas[e]["publicado"] = linhas[e].publicado
    BY <2>1 DEF Linha
  <2> QED
    BY <1>1, <2>2 DEF Colunas
<1>3. ASSUME UmaSo(e), \A g \in Flushes : e \in lote[g] => g = f PROVE UmaSo(e)'
  <2>1. \A g \in Flushes : Entregando(g, e) => Entregando(g, e)'
    BY <1>1 DEF Entregando, Atual
  <2>2. \A g \in Flushes : Atual(g, e)' => g = f
    BY <1>1, <1>3 DEF Atual
  <2> QED
    BY <1>1, <1>2, <1>3, <2>1, <2>2 DEF UmaSo
<1> QED
  BY <1>1, <1>3, PassoUnico

\* The broker refuses the event at hand, which it never took.
LEMMA RejeitarUnica ==
    ASSUME IInv, DisputaCerta, EntregaUnica, RegistrarDisputa, falhas = 0,
           NEW f \in Flushes, NEW e \in Eventos, Atual(f, e), Rejeitar(f, e)
    PROVE  EntregaUnica'
<1>1. /\ pc[f] = "publicando" /\ pc'[f] = "salvando"
      /\ UNCHANGED <<linhas, lote, entregas>>
      /\ \A g \in Flushes : g # f =>
            pc'[g] = pc[g] /\ copia'[g] = copia[g] /\ dif'[g] = dif[g]
  BY DEF Rejeitar, EntrarNoCatch, IInv, Tipos
<1>2. ASSUME UmaSo(e), \A g \in Flushes : e \in lote[g] => g = f PROVE UmaSo(e)'
  <2>1. \A g \in Flushes : ~Entregando(g, e)
    BY <1>1, <1>2 DEF Entregando, Atual
  <2>2. \A g \in Flushes : (Atual(g, e)' /\ pc'[g] = "gravando") => FALSE
    BY <1>1, <1>2 DEF Atual
  <2> QED
    BY <1>1, <1>2, <2>1, <2>2 DEF UmaSo
<1> QED
  BY <1>1, <1>2, PassoUnico

\* The UPDATE of the event at hand, which leaves the batch.
LEMMA GravarLinhaUnica ==
    ASSUME IInv, DisputaCerta, EntregaUnica, RegistrarDisputa, falhas = 0,
           NEW f \in Flushes, NEW e \in Eventos, Atual(f, e), GravarLinha(f, e)
    PROVE  EntregaUnica'
<1>1. /\ pc[f] = "gravando"
      /\ pc'[f] # "gravando"
      /\ lote'[f] = lote[f] \ {e}
      /\ UNCHANGED entregas
      /\ linhas'[e] = LinhaAtualizada(f, e)
      /\ \A d \in Eventos : d # e => linhas'[d] = linhas[d]
      /\ \A g \in Flushes : g # f =>
            pc'[g] = pc[g] /\ lote'[g] = lote[g] /\ copia'[g] = copia[g] /\ dif'[g] = dif[g]
  BY DEF GravarLinha, Avancar, IInv, Tipos
<1>2. ASSUME UmaSo(e), \A g \in Flushes : e \in lote[g] => g = f PROVE UmaSo(e)'
  <2>1. \A g \in Flushes : e \notin lote'[g]
    BY <1>1, <1>2
  <2>2. entregas[e] > 0 => copia[f][e].publicado
    BY <1>1, <1>2 DEF UmaSo, Entregando, Atual
  <2>3. copia[f][e].publicado => LinhaAtualizada(f, e).publicado
    BY <1>1, <1>2 DEF UmaSo, LinhaAtualizada
  <2> QED
    BY <1>1, <1>2, <2>1, <2>2, <2>3 DEF UmaSo, Atual
<1> QED
  BY <1>1, <1>2, PassoUnico

LEMMA NextUnica ==
    ASSUME IInv, DisputaCerta, EntregaUnica, [Next]_vars
    PROVE  EntregaUnica'
<1> SUFFICES ASSUME falhas' = 0 PROVE EntregaUnica'
  BY DEF EntregaUnica
<1>1. ASSUME NEW e \in Eventos, Gravar(e) PROVE EntregaUnica'
  BY <1>1 DEF Gravar, flushVars, EntregaUnica, UmaSo, Entregando, Atual
<1>2. CASE UNCHANGED vars
  BY <1>2 DEF vars, flushVars, EntregaUnica, UmaSo, Entregando, Atual
<1>3. CASE Queda
  BY <1>3, SemFalha DEF Queda, IInv
<1>4. ASSUME NEW f \in Flushes, NEW e \in Eventos, PassoNoEvento(f, e) PROVE EntregaUnica'
  <2>1. CASE Reenviar(f, e) \/ PerderResposta(f, e) \/ FalharSave(f, e)
    BY <2>1, SemFalha DEF Reenviar, PerderResposta, FalharSave, IInv
  <2>2. CASE Aceitar(f, e) \/ Confirmar(f, e) \/ LerLinha(f, e) \/ Rejeitar(f, e) \/ GravarLinha(f, e)
    <3>1. falhas = 0
      BY <2>2 DEF Aceitar, Confirmar, LerLinha, Rejeitar, GravarLinha
    <3>2. Atual(f, e) /\ RegistrarDisputa
      BY <1>4 DEF PassoNoEvento
    <3> QED
      BY <2>2, <3>1, <3>2, AceitarUnica, ConfirmarUnica, LerLinhaUnica, RejeitarUnica,
         GravarLinhaUnica
  <2> QED
    BY <1>4, <2>1, <2>2 DEF PassoNoEvento
<1> QED
  BY <1>1, <1>2, <1>3, <1>4, IniciarUnica DEF Next, Passo

\* A second delivery takes a failure or two flushes that hold the event at the same time:
\* rejections, retries, batches and any other overlap deliver each event once.
THEOREM UmaEntregaSemFalhas == Spec => []EntregueUmaVez
<1>1. IInv /\ DisputaCerta /\ EntregaUnica /\ [Next]_vars => EntregaUnica'
  BY NextUnica
<1>2. EntregaUnica => EntregueUmaVez
  BY DEF EntregaUnica, UmaSo, EntregueUmaVez
<1> QED
  BY <1>1, <1>2, InitUnica, Invariante, SempreDisputaCerta, PTL DEF Spec

-----------------------------------------------------------------------------
(* Refinement of OutboxEntrega. *)

\* A step that only moves the row of one recorded event, whose outcome stays if it has one
\* and the event is not disputed.
LEMMA LinhaSimula ==
    ASSUME SoGravados, PublicadoImplicaEntregue', NEW e \in Eventos, e \in gravados,
           UNCHANGED <<gravados, entregas>>,
           \A d \in Eventos : d # e => linhas'[d] = linhas[d],
           disputa[e] # "agora" => /\ linhas[e].publicado => linhas'[e].publicado
                                   /\ Desistido(e) => Desistido(e)'
    PROVE  [Entrega!Next]_(Entrega!vars)
<1> DEFINE antes == [d \in Eventos |-> Situacao(d)]
           depois == [d \in Eventos |-> Situacao(d)']
<1>1. \A d \in Eventos : d # e => Situacao(d)' = Situacao(d)
  BY DEF Situacao, Desistido
<1>2. depois = [antes EXCEPT ![e] = Situacao(e)']
  BY <1>1
<1>3. /\ Situacao(e) \in {"publicado", "desistido", "pendente"}
      /\ Situacao(e)' \in {"publicado", "desistido", "pendente"}
  BY DEF Situacao
<1>4. Situacao(e)' = "publicado" => e \in {d \in Eventos : entregas[d] > 0}
  BY DEF Situacao, PublicadoImplicaEntregue
<1>5. CASE Situacao(e)' = Situacao(e)
  <2>1. depois = antes
    BY <1>1, <1>5
  <2> QED
    BY <2>1 DEF Entrega!vars
<1>6. CASE Situacao(e) = "pendente" /\ Situacao(e)' = "publicado"
  <2>1. Entrega!Marcar(e)
    BY <1>2, <1>4, <1>6 DEF Entrega!Marcar
  <2> QED
    BY <2>1 DEF Entrega!Next
<1>7. CASE Situacao(e) = "pendente" /\ Situacao(e)' = "desistido"
  <2>1. Entrega!Desistir(e)
    BY <1>2, <1>7 DEF Entrega!Desistir
  <2> QED
    BY <2>1 DEF Entrega!Next
<1>8. CASE Situacao(e) # "pendente" /\ Situacao(e)' # Situacao(e)
  <2>1. disputa[e] = "agora"
    BY <1>3, <1>8 DEF Situacao, Desistido
  <2>2. Entrega!Desfazer(e)
    BY <1>2, <1>3, <1>4, <1>8, <2>1 DEF Entrega!Desfazer
  <2> QED
    BY <2>2 DEF Entrega!Next
<1> QED
  BY <1>3, <1>5, <1>6, <1>7, <1>8

\* The use case asks for the delivery of an event the table has not seen.
LEMMA GravarSimula ==
    ASSUME SoGravados, NEW e \in Eventos, Gravar(e)
    PROVE  Entrega!Pedir(e)
<1>1. Situacao(e) = "ausente" /\ Situacao(e)' = "pendente"
  BY OutboxAssumption DEF Gravar, SoGravados, Situacao, Desistido, LinhaNova
<1>2. \A d \in Eventos : d # e => Situacao(d)' = Situacao(d)
  BY DEF Gravar, Situacao, Desistido
<1>3. [d \in Eventos |-> Situacao(d)'] = [[d \in Eventos |-> Situacao(d)] EXCEPT ![e] = "pendente"]
  BY <1>1, <1>2
<1> QED
  BY <1>1, <1>3 DEF Gravar, Entrega!Pedir

\* The broker takes an event that is pending or disputed, or one it had taken before.
LEMMA AceitarSimula ==
    ASSUME IInv, CopiasEmDia, SoGravados, NEW f \in Flushes, NEW e \in Eventos,
           Atual(f, e), Aceitar(f, e)
    PROVE  Entrega!Entregar(e) \/ UNCHANGED Entrega!vars
<1>1. \A d \in Eventos : Situacao(d)' = Situacao(d)
  BY DEF Aceitar, Situacao, Desistido
<1>2. {d \in Eventos : entregas'[d] > 0} = {d \in Eventos : entregas[d] > 0} \cup {e}
  BY DEF Aceitar, ContarEntrega, IInv, Tipos, MaisDeUma
<1>3. e \in gravados /\ e \in lote[f]
  BY DEF Atual, SoGravados
<1>4. CASE entregas[e] > 0
  <2>1. {d \in Eventos : entregas'[d] > 0} = {d \in Eventos : entregas[d] > 0}
    BY <1>2, <1>4
  <2> QED
    BY <1>1, <2>1 DEF Entrega!vars
<1>5. CASE ~(entregas[e] > 0) /\ disputa[e] # "agora"
  <2>1. /\ ~linhas[e].publicado
        /\ linhas[e].tentativas < LimiteTentativas /\ linhas[e].tentativas \in Nat
    BY <1>3, <1>5 DEF CopiasEmDia, IInv, AfirmacoesVerdadeiras,
                      PublicadoImplicaEntregue, Tipos, Linha
  <2>2. Situacao(e) = "pendente"
    BY <1>3, <2>1, OutboxAssumption DEF Situacao, Desistido
  <2> QED
    BY <1>1, <1>2, <2>2 DEF Entrega!Entregar
<1>6. CASE disputa[e] = "agora"
  <2>1. Situacao(e) # "ausente"
    BY <1>3 DEF Situacao
  <2> QED
    BY <1>1, <1>2, <1>6, <2>1 DEF Entrega!Entregar
<1> QED
  BY <1>4, <1>5, <1>6

\* A step that touches neither the rows nor the set of delivered events.
LEMMA Invisivel ==
    ASSUME UNCHANGED <<gravados, linhas>>,
           \A d \in Eventos : entregas'[d] > 0 <=> entregas[d] > 0
    PROVE  UNCHANGED Entrega!vars
<1>1. \A d \in Eventos : Situacao(d)' = Situacao(d)
  BY DEF Situacao, Desistido
<1>2. {d \in Eventos : entregas'[d] > 0} = {d \in Eventos : entregas[d] > 0}
  OBVIOUS
<1> QED
  BY <1>1, <1>2 DEF Entrega!vars

LEMMA PassoSimula ==
    ASSUME IInv, IInv', CopiasEmDia, SoGravados, NEW f \in Flushes, NEW e \in Eventos,
           PassoNoEvento(f, e)
    PROVE  [Entrega!Next]_(Entrega!vars)
<1>1. Atual(f, e) /\ e \in gravados
  BY DEF PassoNoEvento, Atual, SoGravados
<1>2. CASE Aceitar(f, e)
  BY <1>1, <1>2, AceitarSimula DEF Entrega!Next
<1>3. CASE Reenviar(f, e)
  <2>1. \A d \in Eventos : entregas'[d] > 0 <=> entregas[d] > 0
    BY <1>1, <1>3 DEF Reenviar, ContarEntrega, IInv, Tipos, AfirmacoesVerdadeiras, MaisDeUma
  <2> QED
    BY <1>3, <2>1, Invisivel DEF Reenviar
<1>4. CASE Confirmar(f, e) \/ Rejeitar(f, e) \/ PerderResposta(f, e) \/ LerLinha(f, e)
  BY <1>4, Invisivel DEF Confirmar, Rejeitar, PerderResposta, LerLinha
<1>5. CASE GravarLinha(f, e) \/ FalharSave(f, e)
  <2>1. UNCHANGED <<gravados, entregas>> /\ \A d \in Eventos : d # e => linhas'[d] = linhas[d]
    BY <1>5, PassoSoNoEvento DEF GravarLinha, FalharSave, IInv
  <2>2. PublicadoImplicaEntregue'
    BY DEF IInv, AfirmacoesVerdadeiras
  <2>3. [Next]_vars
    BY DEF Next, Passo
  <2> QED
    BY <1>1, <2>1, <2>2, <2>3, LinhasSoAvancam, LinhaSimula
<1> QED
  BY <1>2, <1>3, <1>4, <1>5 DEF PassoNoEvento

LEMMA NextSimula ==
    ASSUME IInv, IInv', CopiasEmDia, SoGravados, [Next]_vars
    PROVE  [Entrega!Next]_(Entrega!vars)
<1>1. ASSUME NEW e \in Eventos, Gravar(e) PROVE [Entrega!Next]_(Entrega!vars)
  BY <1>1, GravarSimula DEF Entrega!Next
<1>2. CASE (\E f \in Flushes : IniciarFlush(f)) \/ Queda \/ UNCHANGED vars
  BY <1>2, Invisivel DEF IniciarFlush, Queda, vars
<1> QED
  BY <1>1, <1>2, PassoSimula DEF Next, Passo

\* With any number of overlapping flushes the worker does, step by step, what OutboxEntrega
\* allows: it publishes what was recorded, marks only what was delivered, and an outcome is
\* final unless two flushes hold the event.
THEOREM RefinamentoEntrega == Spec => ImplementaEntrega
<1>1. ASSUME Init PROVE Entrega!Init
  <2>1. \A e \in Eventos :
            e \notin gravados /\ linhas[e] = LinhaNova /\ entregas[e] = 0
    BY <1>1 DEF Init
  <2>2. \A e \in Eventos : Situacao(e) = "ausente"
    BY <2>1, OutboxAssumption DEF Situacao, Desistido, LinhaNova
  <2>3. {e \in Eventos : entregas[e] > 0} = {}
    BY <2>1
  <2> QED
    BY <2>2, <2>3 DEF Entrega!Init
<1> QED
  BY <1>1, NextSimula, SempreEmDia, SempreSoGravados, Invariante, PTL
     DEF Spec, ImplementaEntrega, Entrega!Spec

-----------------------------------------------------------------------------
(* Composition with AbrirChamadoHandler. *)

\* What a call has stored at each step.
AberturasCoerentes ==
    /\ gravados \subseteq chamados
    /\ \A e \in Eventos :
        /\ pcA[e] \in Abrindo => e \in chamados
        /\ pcA[e] = "201" => e \in chamados /\ e \in gravados

Composto ==
    /\ pcA \in [Eventos -> {"inicio", "201", "400", "500", "morto"} \cup Abrindo]
    /\ chamados \subseteq Eventos
    /\ interrupcoes \in 0..MaxInterrupcoes
    /\ AberturasCoerentes

LEMMA AberturaComposto ==
    ASSUME Composto, NEW e \in Eventos, Abertura(e)
    PROVE  Composto'
<1>1. CASE Recusar(e)
  BY <1>1 DEF Composto, AberturasCoerentes, Recusar, Em, Abrindo, vars
<1>2. CASE SalvarChamado(e)
  BY <1>2 DEF Composto, AberturasCoerentes, SalvarChamado, Em, Abrindo, vars
<1>3. CASE LerTenant(e)
  BY <1>3 DEF Composto, AberturasCoerentes, LerTenant, Em, Abrindo, vars
<1>4. CASE GravarEvento(e)
  BY <1>4 DEF Composto, AberturasCoerentes, GravarEvento, Gravar, Em, Abrindo
<1>5. CASE FalharAbertura(e)
  BY <1>5, ManutencaoAssumption
     DEF Composto, AberturasCoerentes, FalharAbertura, Gravar, Interromper, Em, Abrindo, vars
<1> QED
  BY <1>1, <1>2, <1>3, <1>4, <1>5 DEF Abertura

LEMMA WorkerComposto ==
    ASSUME TypeOK, Composto, NEW f \in Flushes, Worker(f)
    PROVE  Composto'
<1>1. gravados' = gravados
  BY PassoSoNoEvento DEF Worker, IniciarFlush, Passo, TypeOK
<1> QED
  BY <1>1 DEF Worker, Composto, AberturasCoerentes, aberturaVars

LEMMA QuedaComposto == ASSUME Composto, QuedaGeral PROVE Composto'
<1>1. gravados' = gravados
  BY DEF QuedaGeral, Queda, vars
<1>2. interrupcoes' \in 0..MaxInterrupcoes
  BY ManutencaoAssumption DEF QuedaGeral, Interromper, Composto
<1> QED
  BY <1>1, <1>2 DEF QuedaGeral, Composto, AberturasCoerentes, Abrindo

\* On the variables of Outbox the composition takes Outbox steps, so what is proved of Spec
\* carries over.
LEMMA PassosDoOutbox == SpecComposto => Spec
<1>1. InitComposto => Init
  BY DEF InitComposto
<1>2. ASSUME [NextComposto]_todas PROVE [Next]_vars
  <2>1. ASSUME NEW e \in Eventos, Abertura(e) PROVE [Next]_vars
    BY <2>1 DEF Abertura, Recusar, SalvarChamado, LerTenant, GravarEvento, FalharAbertura, Next
  <2>2. ASSUME NEW f \in Flushes, Worker(f) PROVE [Next]_vars
    BY <2>2 DEF Worker, Next
  <2>3. CASE QuedaGeral
    BY <2>3 DEF QuedaGeral, Next
  <2>4. CASE UNCHANGED todas
    BY <2>4 DEF todas
  <2>5. QED
    BY <1>2, <2>1, <2>2, <2>3, <2>4 DEF NextComposto
<1>3. QED
  BY <1>1, <1>2, PTL DEF SpecComposto, Spec

LEMMA InvarianteComposto == SpecComposto => [](TypeOK /\ SoGravados /\ Composto)
<1>1. SpecComposto => [](TypeOK /\ SoGravados)
  BY PassosDoOutbox, TypeCorrect, SempreSoGravados, PTL
<1>2. ASSUME InitComposto PROVE Composto
  BY <1>2, ManutencaoAssumption DEF InitComposto, Init, Composto, AberturasCoerentes, Abrindo
<1>3. ASSUME TypeOK, Composto, [NextComposto]_todas PROVE Composto'
  <2>1. CASE UNCHANGED todas
    BY <1>3, <2>1 DEF todas, vars, aberturaVars, Composto, AberturasCoerentes
  <2>2. QED
    BY <1>3, <2>1, AberturaComposto, WorkerComposto, QuedaComposto DEF NextComposto
<1>4. QED
  BY <1>1, <1>2, <1>3, PTL DEF SpecComposto

\* Types of both sides.
THEOREM TiposCorretos == SpecComposto => []TiposOK
<1>1. TypeOK /\ Composto => TiposOK
  BY DEF Composto, TiposOK
<1>2. QED
  BY <1>1, InvarianteComposto, PTL

\* A delivered event has its chamado and an answered chamado its event.
THEOREM AnuncioVerdadeiro == SpecComposto => []AnuncioFiel
<1>1. SoGravados /\ Composto => AnuncioFiel
  BY DEF Composto, AberturasCoerentes, SoGravados, AnuncioFiel
<1>2. QED
  BY <1>1, InvarianteComposto, PTL

\* What the rows say is true in the composition too.
THEOREM PublicacaoVerdadeiraComposta ==
    SpecComposto => [](PublicadoImplicaEntregue /\ TentativasNaoExageram)
  BY PassosDoOutbox, PublicacaoVerdadeira, DesistenciaJustificada, PTL

\* And so are the delivery promise, the final outcomes and the single delivery, of producer
\* and overlapping flushes together.
THEOREM PromessasCompostas ==
    SpecComposto => ImplementaEntrega /\ DesfechoDefinitivo /\ []EntregueUmaVez
BY PassosDoOutbox, RefinamentoEntrega, DesfechoFinal, UmaEntregaSemFalhas
=============================================================================
