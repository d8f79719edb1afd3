---------------------------- MODULE BoletoProofs ----------------------------
(***************************************************************************)
(* Proofs about BoletoAggregate, for every set of amounts, percentages and  *)
(* days and every number of events.                                         *)
(*                                                                         *)
(* fromHistory() is a fold, hence a recursive function over sets of indices. *)
(* FromHistoryVazia and FromHistoryAppend say what it computes, by induction *)
(* on the number of events, which here is an induction over a set (Inducao). *)
(*                                                                         *)
(* The invariant follows every prefix of the history and not only the whole: *)
(* a save() that fails half way, or a handler that dies before it, leaves    *)
(* any prefix as the boleto that the next loadById() replays.                *)
(***************************************************************************)
EXTENDS BoletoAggregate, WellFoundedInduction, TLAPS

\* Induction over the naturals, for a set: the least number outside it cannot exist.
LEMMA Inducao ==
    ASSUME NEW S \in SUBSET Nat, 0 \in S, \A n \in S : n + 1 \in S
    PROVE  S = Nat
<1>1. SUFFICES ASSUME S # Nat PROVE FALSE
  OBVIOUS
<1> DEFINE T == Nat \ S
<1>2. T # {} /\ T \subseteq Nat
  BY <1>1
<1>3. PICK x \in T : \A y \in T : <<y, x>> \notin OpToRel(<, Nat)
  <2> HIDE DEF T
  <2> QED
    BY <1>2, WFMin, NatLessThanWellFounded, Zenon
<1>4. \A y \in T : ~(y < x)
  BY <1>3 DEF OpToRel
<1>5. x - 1 \in S
  BY <1>4
<1> QED
  BY <1>5

-----------------------------------------------------------------------------
\* f is the table of the fold behind FromHistory, for the first n of the events ev.
Replays(f, ev, n) ==
    f = [s \in SUBSET (1..n) |->
            IF s = {} THEN Inexistente
            ELSE LET x == Max(s) IN Apply(f[s \ {x}], ev[x])]

LEMMA MaiorIndice ==
    ASSUME NEW n \in Nat, NEW s \in SUBSET (1..n), n \in s
    PROVE  Max(s) = n
<1>1. \A x \in s : n >= x
  OBVIOUS
<1>2. \A x \in s : (\A y \in s : x >= y) => x = n
  OBVIOUS
<1> QED
  BY <1>1, <1>2 DEF Max

\* One event more does not change the replay of those before it.
LEMMA ReplaysIguais ==
    ASSUME NEW ev, NEW ew, NEW n \in Nat, NEW f, NEW g,
           Replays(f, ev, n), Replays(g, ew, n + 1), \A i \in 1..n : ev[i] = ew[i]
    PROVE  f[1..n] = g[1..n]
<1> DEFINE Iguais == {j \in Nat : j <= n => \A s \in SUBSET (1..j) : f[s] = g[s]}
<1>1. 0 \in Iguais
  BY DEF Replays
<1>2. ASSUME NEW j \in Iguais PROVE j + 1 \in Iguais
  <2> SUFFICES ASSUME j + 1 <= n, NEW s \in SUBSET (1..(j + 1)) PROVE f[s] = g[s]
    OBVIOUS
  <2>1. CASE j + 1 \notin s
    <3>1. s \in SUBSET (1..j)
      BY <2>1
    <3> QED
      BY <3>1
  <2>2. CASE j + 1 \in s
    <3>1. Max(s) = j + 1
      BY <2>2, MaiorIndice
    <3>2. s \in SUBSET (1..n) /\ s \in SUBSET (1..(n + 1)) /\ s \ {j + 1} \in SUBSET (1..j) /\ s # {}
      BY <2>2
    <3>3. f[s] = Apply(f[s \ {j + 1}], ev[j + 1]) /\ g[s] = Apply(g[s \ {j + 1}], ew[j + 1])
      BY <3>1, <3>2 DEF Replays
    <3>4. f[s \ {j + 1}] = g[s \ {j + 1}] /\ ev[j + 1] = ew[j + 1]
      BY <3>2
    <3> QED
      BY <3>3, <3>4
  <2> QED
    BY <2>1, <2>2
<1>3. Iguais = Nat
  <2> HIDE DEF Iguais
  <2>1. Iguais \in SUBSET Nat
    BY DEF Iguais
  <2> QED
    BY <1>1, <1>2, <2>1, Inducao
<1>4. n \in Iguais /\ 1..n \in SUBSET (1..n)
  BY <1>3
<1> QED
  BY <1>4

LEMMA ReplaysExiste ==
    ASSUME NEW ev, NEW n \in Nat
    PROVE  \E f : Replays(f, ev, n)
<1> DEFINE Existe == {j \in Nat : \E f : Replays(f, ev, j)}
<1>1. 0 \in Existe
  <2> DEFINE f == [s \in SUBSET (1..0) |-> Inexistente]
  <2>1. \A s \in SUBSET (1..0) : s = {}
    OBVIOUS
  <2>2. Replays(f, ev, 0)
    BY <2>1 DEF Replays
  <2> QED
    BY <2>2
<1>2. ASSUME NEW j \in Existe PROVE j + 1 \in Existe
  <2>1. PICK f : Replays(f, ev, j)
    OBVIOUS
  <2> DEFINE g == [s \in SUBSET (1..(j + 1)) |->
                      IF j + 1 \in s THEN Apply(f[s \ {j + 1}], ev[j + 1]) ELSE f[s]]
  <2>2. ASSUME NEW s \in SUBSET (1..(j + 1))
        PROVE  g[s] = IF s = {} THEN Inexistente
                      ELSE LET x == Max(s) IN Apply(g[s \ {x}], ev[x])
    <3>1. \A t \in SUBSET (1..(j + 1)) : j + 1 \notin t => g[t] = f[t] /\ t \in SUBSET (1..j)
      OBVIOUS
    <3>2. CASE j + 1 \in s
      <4>1. Max(s) = j + 1
        BY <3>2, MaiorIndice
      <4>2. g[s \ {j + 1}] = f[s \ {j + 1}]
        BY <3>1
      <4>3. g[s] = Apply(f[s \ {j + 1}], ev[j + 1])
        BY <3>2
      <4> QED
        BY <3>2, <4>1, <4>2, <4>3
    <3>3. CASE j + 1 \notin s
      <4>1. g[s] = f[s] /\ g[s \ {Max(s)}] = f[s \ {Max(s)}] /\ s \in SUBSET (1..j)
        BY <3>1, <3>3
      <4>2. f[s] = IF s = {} THEN Inexistente
                   ELSE LET x == Max(s) IN Apply(f[s \ {x}], ev[x])
        BY <2>1, <4>1 DEF Replays
      <4> QED
        BY <4>1, <4>2
    <3> QED
      BY <3>2, <3>3
  <2>3. Replays(g, ev, j + 1)
    <3>1. g = [s \in SUBSET (1..(j + 1)) |-> g[s]]
      OBVIOUS
    <3> HIDE DEF g
    <3> QED
      BY <2>2, <3>1 DEF Replays
  <2> QED
    BY <2>3
<1>3. Existe = Nat
  <2> HIDE DEF Existe
  <2>1. Existe \in SUBSET Nat
    BY DEF Existe
  <2> QED
    BY <1>1, <1>2, <2>1, Inducao
<1> QED
  BY <1>3

\* FromHistory is the last entry of that table.
LEMMA FromHistoryReplays ==
    ASSUME NEW ev, DOMAIN ev = 1..Len(ev), Len(ev) \in Nat
    PROVE  \E f : Replays(f, ev, Len(ev)) /\ FromHistory(ev) = f[1..Len(ev)]
<1> DEFINE f == CHOOSE f : Replays(f, ev, Len(ev))
<1>1. Replays(f, ev, Len(ev))
  BY ReplaysExiste
<1>2. FromHistory(ev) = f[1..Len(ev)]
  BY DEF FromHistory, FoldLeft, MapThenFoldSet, Replays
<1> QED
  BY <1>1, <1>2

LEMMA FromHistoryVazia == FromHistory(<<>>) = Inexistente
<1>1. PICK f : Replays(f, <<>>, 0) /\ FromHistory(<<>>) = f[1..0]
  BY FromHistoryReplays
<1> QED
  BY <1>1 DEF Replays

\* The replay of one more event applies it to the replay of the others.
LEMMA FromHistoryAppend ==
    ASSUME NEW T, NEW ev \in Seq(T), NEW e \in T
    PROVE  FromHistory(Append(ev, e)) = Apply(FromHistory(ev), e)
<1> DEFINE n == Len(ev)
           ew == Append(ev, e)
<1>1. /\ n \in Nat /\ DOMAIN ev = 1..n
      /\ Len(ew) = n + 1 /\ DOMAIN ew = 1..(n + 1)
      /\ ew[n + 1] = e /\ \A i \in 1..n : ev[i] = ew[i]
  OBVIOUS
<1>2. PICK f : Replays(f, ev, n) /\ FromHistory(ev) = f[1..n]
  BY <1>1, FromHistoryReplays
<1>3. PICK g : Replays(g, ew, n + 1) /\ FromHistory(ew) = g[1..(n + 1)]
  <2> HIDE DEF ew
  <2> QED
    BY <1>1, FromHistoryReplays
<1> HIDE DEF n, ew
<1>4. f[1..n] = g[1..n]
  BY <1>1, <1>2, <1>3, ReplaysIguais
<1>5. Max(1..(n + 1)) = n + 1 /\ (1..(n + 1)) \ {n + 1} = 1..n /\ 1..(n + 1) # {}
  <2>1. n + 1 \in Nat /\ n + 1 \in 1..(n + 1) /\ 1..(n + 1) \in SUBSET (1..(n + 1))
    BY <1>1
  <2>2. Max(1..(n + 1)) = n + 1
    BY <2>1, MaiorIndice
  <2>3. (1..(n + 1)) \ {n + 1} = 1..n
    BY <1>1
  <2> QED
    BY <2>1, <2>2, <2>3
<1>6. g[1..(n + 1)] = Apply(g[1..n], ew[n + 1])
  BY <1>3, <1>5 DEF Replays
<1> QED
  BY <1>1, <1>2, <1>3, <1>4, <1>6 DEF ew

-----------------------------------------------------------------------------
(* Sequences. *)

LEMMA Prefixos ==
    ASSUME NEW T, NEW s \in Seq(T), NEW e \in T
    PROVE  /\ \A n \in 0..Len(s) : SubSeq(Append(s, e), 1, n) = SubSeq(s, 1, n)
           /\ SubSeq(Append(s, e), 1, Len(s) + 1) = Append(s, e)
OBVIOUS

LEMMA Inteiro ==
    ASSUME NEW T, NEW s \in Seq(T)
    PROVE  SubSeq(s, 1, Len(s)) = s /\ Len(s) \in 0..Len(s) /\ Len(s) \in Nat
OBVIOUS

LEMMA PrefixoDePrefixo ==
    ASSUME NEW T, NEW s \in Seq(T), NEW n \in 0..Len(s)
    PROVE  /\ SubSeq(s, 1, n) \in Seq(T) /\ Len(SubSeq(s, 1, n)) = n
           /\ \A i \in 1..n : SubSeq(s, 1, n)[i] = s[i]
           /\ \A m \in 0..n : SubSeq(SubSeq(s, 1, n), 1, m) = SubSeq(s, 1, m)
OBVIOUS

LEMMA Concatenacao ==
    ASSUME NEW T, NEW s \in Seq(T), NEW t \in Seq(T), NEW e \in T
    PROVE  /\ s \o t \in Seq(T) /\ Len(s \o t) = Len(s) + Len(t)
           /\ s \o Append(t, e) = Append(s \o t, e)
           /\ s \o <<>> = s
           /\ \A n \in 0..Len(t) : s \o SubSeq(t, 1, n) = SubSeq(s \o t, 1, Len(s) + n)
OBVIOUS

-----------------------------------------------------------------------------
(* The invariant. *)

\* What a replay of n events may give: the version counts them, the penalty is legal.
Reconstruido(b, n) ==
    /\ b \in [valorOriginal : Valores \cup {0}, valorMulta : Nat, valorJuros : Nat,
              status : {"ABERTO", "EM_ATRASO", "PAGO"}, version : {n}]
    /\ 2 * BaseBp * b.valorMulta <= 2 * LimiteMulta * b.valorOriginal + BaseBp

\* Every prefix of the history may be all that a failed save leaves behind.
ReplaysLegais ==
    \A n \in 0..Len(Historico) :
        LET b == FromHistory(SubSeq(Historico, 1, n)) IN
        /\ Reconstruido(b, n)
        /\ n > 0 /\ Historico[n].type = "PagamentoConfirmado" => b.status = "PAGO"

\* The object in memory is the replay of the whole history; without one nothing is pending.
ObjetoFiel ==
    IF vivo THEN boleto = FromHistory(Historico)
    ELSE boleto = Inexistente /\ pendentes = <<>>

IInv ==
    /\ vivo \in BOOLEAN
    /\ pendentes \in Seq(Evento) /\ armazem \in Seq(Evento) /\ Len(Historico) <= MaxEventos
    /\ ObjetoFiel /\ ReplaysLegais /\ PagamentoEncerra

LEMMA InexistenteReconstruido == Reconstruido(Inexistente, 0)
BY DEF Reconstruido, Inexistente, BaseBp, LimiteMulta

\* Historico is a sequence of events.
LEMMA HistoricoTipo ==
    ASSUME pendentes \in Seq(Evento), armazem \in Seq(Evento)
    PROVE  Historico \in Seq(Evento) /\ Len(Historico) = Len(armazem) + Len(pendentes)
BY Concatenacao DEF Historico

\* The object in memory, or the absence of one before the first event, is the replay.
LEMMA ObjetoReconstruido ==
    ASSUME IInv, vivo \/ armazem = <<>>
    PROVE  boleto = FromHistory(Historico) /\ Reconstruido(boleto, Len(Historico))
<1>1. boleto = FromHistory(Historico)
  <2>1. CASE vivo
    BY <2>1 DEF IInv, ObjetoFiel
  <2>2. CASE ~vivo
    <3>1. Historico = <<>> /\ boleto = Inexistente
      BY <2>2 DEF IInv, ObjetoFiel, Historico
    <3> QED
      BY <3>1, FromHistoryVazia
  <2> QED
    BY <2>1, <2>2
<1>2. Historico \in Seq(Evento)
  BY HistoricoTipo DEF IInv
<1>3. SubSeq(Historico, 1, Len(Historico)) = Historico /\ Len(Historico) \in 0..Len(Historico)
  BY <1>2, Inteiro
<1> QED
  BY <1>1, <1>3 DEF IInv, ReplaysLegais

-----------------------------------------------------------------------------
\* raise(): one more event on a boleto that is not PAGO.
LEMMA RaiseIInv ==
    ASSUME IInv, vivo \/ armazem = <<>>, boleto.status # "PAGO",
           NEW ev \in Evento, Raise(ev), vivo',
           Reconstruido(boleto', Len(Historico) + 1),
           ev.type = "PagamentoConfirmado" => boleto'.status = "PAGO"
    PROVE  IInv'
<1> DEFINE H == Historico
           n == Len(Historico)
<1>1. H \in Seq(Evento) /\ pendentes' = Append(pendentes, ev) /\ armazem' = armazem
  BY HistoricoTipo DEF IInv, Raise
<1>2. Historico' = Append(H, ev)
  BY <1>1, Concatenacao DEF IInv, Historico
<1>3. Len(Historico') = n + 1 /\ n + 1 <= MaxEventos /\ n \in Nat
  BY <1>1, <1>2, BoletoAssumption DEF Raise
<1>4. boleto' = FromHistory(Historico')
  BY <1>1, <1>2, ObjetoReconstruido, FromHistoryAppend DEF Raise
<1>5. ReplaysLegais'
  <2> SUFFICES ASSUME NEW m \in 0..(n + 1)
               PROVE  LET b == FromHistory(SubSeq(Historico', 1, m)) IN
                      /\ Reconstruido(b, m)
                      /\ m > 0 /\ Historico'[m].type = "PagamentoConfirmado" => b.status = "PAGO"
    BY <1>3 DEF ReplaysLegais
  <2>1. CASE m = n + 1
    <3>1. SubSeq(Historico', 1, m) = Historico' /\ Historico'[m] = ev
      BY <1>1, <1>2, <2>1, Prefixos
    <3> QED
      BY <1>4, <2>1, <3>1
  <2>2. CASE m \in 0..n
    <3>1. SubSeq(Historico', 1, m) = SubSeq(H, 1, m)
      BY <1>1, <1>2, <2>2, Prefixos
    <3>2. m > 0 => Historico'[m] = H[m]
      BY <1>1, <1>2, <2>2
    <3> QED
      BY <2>2, <3>1, <3>2 DEF IInv, ReplaysLegais
  <2> QED
    BY <1>3, <2>1, <2>2
<1>6. PagamentoEncerra'
  <2>1. n > 0 => H[n].type # "PagamentoConfirmado"
    <3>1. boleto = FromHistory(SubSeq(H, 1, n))
      BY <1>1, Inteiro, ObjetoReconstruido
    <3> QED
      BY <1>3, <3>1 DEF IInv, ReplaysLegais
  <2>2. \A i \in 1..n : H[i].type # "PagamentoConfirmado"
    BY <1>1, <2>1 DEF IInv, PagamentoEncerra
  <2>3. \A i \in 1..n : Historico'[i] = H[i]
    BY <1>1, <1>2
  <2>4. DOMAIN Historico' = 1..(n + 1)
    BY <1>1, <1>2
  <2> QED
    BY <1>3, <2>2, <2>3, <2>4 DEF PagamentoEncerra
<1>7. vivo' = TRUE /\ pendentes' \in Seq(Evento) /\ armazem' \in Seq(Evento)
  BY <1>1 DEF IInv, Raise
<1> QED
  BY <1>3, <1>4, <1>5, <1>6, <1>7 DEF IInv, ObjetoFiel

\* The history shrinks to a prefix of it: what a failed save stored.
LEMMA PrefixoIInv ==
    ASSUME IInv, pendentes' \in Seq(Evento), armazem' \in Seq(Evento), vivo' \in BOOLEAN,
           NEW n \in 0..Len(Historico), Historico' = SubSeq(Historico, 1, n), ObjetoFiel'
    PROVE  IInv'
<1>1. Historico \in Seq(Evento)
  BY HistoricoTipo DEF IInv
<1>2. /\ Historico' \in Seq(Evento) /\ Len(Historico') = n
      /\ \A i \in 1..n : Historico'[i] = Historico[i]
      /\ \A m \in 0..n : SubSeq(Historico', 1, m) = SubSeq(Historico, 1, m)
  BY <1>1, PrefixoDePrefixo
<1>3. ReplaysLegais'
  <2> SUFFICES ASSUME NEW m \in 0..n
               PROVE  LET b == FromHistory(SubSeq(Historico', 1, m)) IN
                      /\ Reconstruido(b, m)
                      /\ m > 0 /\ Historico'[m].type = "PagamentoConfirmado" => b.status = "PAGO"
    BY <1>2 DEF ReplaysLegais
  <2>1. m \in 0..Len(Historico) /\ SubSeq(Historico', 1, m) = SubSeq(Historico, 1, m)
    BY <1>1, <1>2
  <2>2. m > 0 => Historico'[m] = Historico[m]
    BY <1>2
  <2> QED
    BY <2>1, <2>2 DEF IInv, ReplaysLegais
<1>4. PagamentoEncerra'
  BY <1>1, <1>2 DEF IInv, PagamentoEncerra
<1>5. n <= MaxEventos
  BY BoletoAssumption, <1>1 DEF IInv
<1> QED
  BY <1>2, <1>3, <1>4, <1>5 DEF IInv

-----------------------------------------------------------------------------
(* The steps. *)

\* min(percentual, 2%) of the value, rounded to the cent.
LEMMA MultaLimitada ==
    ASSUME NEW v \in Nat, NEW p \in Nat
    PROVE  /\ Round2(v * MinDe(p, LimiteMulta), BaseBp) \in Nat
           /\ 2 * BaseBp * Round2(v * MinDe(p, LimiteMulta), BaseBp) <= 2 * LimiteMulta * v + BaseBp
<1> DEFINE m == MinDe(p, LimiteMulta)
           x == v * m
<1>1. m \in Nat /\ m <= 200
  BY DEF MinDe, LimiteMulta
<1>2. x \in Nat /\ x <= v * 200
  <2> HIDE DEF m
  <2> QED
    BY <1>1
<1>3. \A y \in Nat : (2 * y + 10000) \div 20000 \in Nat /\ 20000 * ((2 * y + 10000) \div 20000) <= 2 * y + 10000
  OBVIOUS
<1> HIDE DEF x
<1>4. Round2(x, BaseBp) = (2 * x + 10000) \div 20000
  BY DEF Round2, BaseBp
<1>5. 2 * BaseBp = 20000 /\ 2 * LimiteMulta * v + BaseBp = 400 * v + 10000
  BY DEF BaseBp, LimiteMulta
<1> QED
  BY <1>2, <1>3, <1>4, <1>5 DEF x

LEMMA JurosNatural ==
    ASSUME NEW v \in Nat, NEW j \in Nat, NEW d \in Nat
    PROVE  Round2(v * j * d, BaseBp) \in Nat
<1>1. v * j * d \in Nat
  OBVIOUS
<1>2. \A y \in Nat : (2 * y + 10000) \div 20000 \in Nat
  OBVIOUS
<1> QED
  BY <1>1, <1>2 DEF Round2, BaseBp

LEMMA GerarIInv == ASSUME IInv, NEW v \in Valores, Gerar(v) PROVE IInv'
<1> DEFINE ev == BoletoGerado(v)
<1>1. Historico = <<>> /\ boleto = Inexistente /\ Len(Historico) = 0
  BY DEF IInv, ObjetoFiel, Historico, Gerar
<1>2. /\ ev \in Evento /\ ev.type = "BoletoGerado"
      /\ boleto' = [valorOriginal |-> v, valorMulta |-> 0, valorJuros |-> 0,
                    status |-> "ABERTO", version |-> 1]
  <2>1. boleto' = Apply(Inexistente, ev)
    BY <1>1 DEF Gerar, Raise
  <2>2. Apply(Inexistente, ev) = [valorOriginal |-> v, valorMulta |-> 0, valorJuros |-> 0,
                                  status |-> "ABERTO", version |-> 1]
    <3>1. Inexistente.version + 1 = 1
      BY DEF Inexistente
    <3>2. Apply(Inexistente, ev) =
            [Inexistente EXCEPT !.valorOriginal = v, !.status = "ABERTO", !.version = 1]
      BY <3>1 DEF Apply, BoletoGerado
    <3> QED
      BY <3>2 DEF Inexistente
  <2> QED
    BY <2>1, <2>2 DEF BoletoGerado, Evento
<1>3. Reconstruido(boleto', Len(Historico) + 1)
  BY <1>1, <1>2, BoletoAssumption DEF Reconstruido, BaseBp, LimiteMulta
<1> QED
  BY <1>1, <1>2, <1>3, RaiseIInv DEF Gerar, Inexistente

LEMMA AplicarMultaJurosIInv ==
    ASSUME IInv, NEW p \in Percentuais, NEW j \in JurosDia, NEW d \in Dias,
           AplicarMultaJuros(p, j, d)
    PROVE  IInv'
<1> DEFINE n == Len(Historico)
           m == Round2(boleto.valorOriginal * MinDe(p, LimiteMulta), BaseBp)
           i == Round2(boleto.valorOriginal * j * d, BaseBp)
           ev == MultaJurosAplicados(m, i)
<1>1. vivo /\ Reconstruido(boleto, n) /\ boleto.valorOriginal \in Nat
  <2>1. vivo
    BY DEF AplicarMultaJuros
  <2>2. Reconstruido(boleto, n)
    BY <2>1, ObjetoReconstruido
  <2>3. boleto.valorOriginal \in Valores \cup {0}
    BY <2>2 DEF Reconstruido
  <2>4. \A v \in Valores \cup {0} : v \in Nat
    BY BoletoAssumption
  <2> QED
    BY <2>1, <2>2, <2>3, <2>4, Zenon
<1>2. /\ m \in Nat /\ i \in Nat
      /\ 2 * BaseBp * m <= 2 * LimiteMulta * boleto.valorOriginal + BaseBp
  BY <1>1, BoletoAssumption, MultaLimitada, JurosNatural
<1>3. Raise(ev) /\ vivo' /\ boleto.status # "PAGO"
  BY <1>1 DEF AplicarMultaJuros
<1> HIDE DEF m, i
<1>4. ev \in Evento /\ ev.type = "MultaJurosAplicados"
  BY <1>2 DEF MultaJurosAplicados, Evento
<1>5. boleto' = [boleto EXCEPT !.valorMulta = m, !.valorJuros = i,
                               !.status = "EM_ATRASO", !.version = boleto.version + 1]
  BY <1>1, <1>3 DEF Raise, Apply, MultaJurosAplicados
<1>6. n \in Nat
  BY HistoricoTipo, Inteiro DEF IInv
<1>7. Reconstruido(boleto', n + 1)
  BY <1>1, <1>2, <1>5, <1>6 DEF Reconstruido
<1> QED
  BY <1>1, <1>3, <1>4, <1>7, RaiseIInv

LEMMA ConfirmarPagamentoIInv == ASSUME IInv, ConfirmarPagamento PROVE IInv'
<1> DEFINE n == Len(Historico)
<1>1. vivo /\ Reconstruido(boleto, n) /\ n \in Nat
  BY ObjetoReconstruido, HistoricoTipo, Inteiro DEF ConfirmarPagamento, IInv
<1>2. /\ PagamentoConfirmado \in Evento
      /\ boleto' = [boleto EXCEPT !.status = "PAGO", !.version = boleto.version + 1]
  BY DEF ConfirmarPagamento, Raise, Apply, PagamentoConfirmado, Evento
<1>3. Reconstruido(boleto', n + 1) /\ boleto'.status = "PAGO"
  BY <1>1, <1>2 DEF Reconstruido
<1> QED
  BY <1>1, <1>2, <1>3, RaiseIInv DEF ConfirmarPagamento

\* save() stores the pending events, or the first of them.
LEMMA SalvarIInv == ASSUME IInv, NEW n \in 0..Len(pendentes), Salvar(n) PROVE IInv'
<1> DEFINE k == Len(armazem) + n
<1>1. Historico \in Seq(Evento) /\ Len(Historico) = Len(armazem) + Len(pendentes)
  BY HistoricoTipo DEF IInv
<1>2. /\ armazem' = armazem \o SubSeq(pendentes, 1, n) /\ pendentes' = <<>>
      /\ vivo /\ vivo' = (n = Len(pendentes))
      /\ boleto' = IF vivo' THEN boleto ELSE Inexistente
  BY DEF Salvar
<1>3. armazem' = SubSeq(Historico, 1, k) /\ k \in 0..Len(Historico)
  BY <1>1, <1>2, Concatenacao DEF IInv, Historico
<1>4. armazem' \in Seq(Evento) /\ Historico' = armazem'
  BY <1>1, <1>2, <1>3, PrefixoDePrefixo DEF Historico
<1>5. ObjetoFiel'
  <2>1. CASE n = Len(pendentes)
    BY <1>1, <1>2, <1>3, <1>4, <2>1, Inteiro DEF IInv, ObjetoFiel
  <2>2. CASE n # Len(pendentes)
    BY <1>2, <2>2 DEF ObjetoFiel
  <2> QED
    BY <2>1, <2>2
<1> QED
  BY <1>2, <1>3, <1>4, <1>5, PrefixoIInv

LEMMA SoltarIInv == ASSUME IInv, Soltar PROVE IInv'
<1> DEFINE k == Len(armazem)
<1>1. Historico \in Seq(Evento) /\ Len(Historico) = Len(armazem) + Len(pendentes)
  BY HistoricoTipo DEF IInv
<1>2. armazem' = armazem /\ pendentes' = <<>> /\ vivo' = FALSE /\ boleto' = Inexistente
  BY DEF Soltar
<1>3. Historico' = SubSeq(Historico, 1, k) /\ k \in 0..Len(Historico)
  BY <1>1, <1>2 DEF IInv, Historico
<1>4. ObjetoFiel'
  BY <1>2 DEF ObjetoFiel
<1>5. armazem' \in Seq(Evento) /\ vivo' \in BOOLEAN
  BY <1>2 DEF IInv
<1>6. pendentes' \in Seq(Evento)
  BY <1>2
<1> QED
  BY <1>3, <1>4, <1>5, <1>6, PrefixoIInv

LEMMA LoadByIdIInv == ASSUME IInv, LoadById PROVE IInv'
<1>1. /\ pendentes = <<>> /\ armazem' = armazem /\ pendentes' = <<>> /\ vivo' = TRUE
      /\ boleto' = FromHistory(armazem)
  BY DEF IInv, ObjetoFiel, LoadById
<1>2. Historico = armazem /\ Historico' = armazem
  BY <1>1 DEF IInv, Historico
<1>3. Historico' = SubSeq(Historico, 1, Len(Historico)) /\ Len(Historico) \in 0..Len(Historico)
  BY <1>2, Inteiro DEF IInv
<1> QED
  BY <1>1, <1>2, <1>3, PrefixoIInv DEF IInv, ObjetoFiel

LEMMA InitIInv == Init => IInv
<1> SUFFICES ASSUME Init PROVE IInv
  OBVIOUS
<1>1. Historico = <<>> /\ Len(Historico) = 0
  BY DEF Init, Historico
<1>2. ReplaysLegais
  <2>1. SubSeq(Historico, 1, 0) = <<>>
    BY <1>1
  <2> SUFFICES ASSUME NEW n \in 0..Len(Historico)
               PROVE  LET b == FromHistory(SubSeq(Historico, 1, n)) IN
                      /\ Reconstruido(b, n)
                      /\ n > 0 /\ Historico[n].type = "PagamentoConfirmado" => b.status = "PAGO"
    BY DEF ReplaysLegais
  <2>2. n = 0
    BY <1>1
  <2>3. FromHistory(SubSeq(Historico, 1, n)) = Inexistente
    BY <2>1, <2>2, FromHistoryVazia
  <2> QED
    BY <2>2, <2>3, InexistenteReconstruido
<1>3. PagamentoEncerra
  BY <1>1 DEF PagamentoEncerra
<1>4. pendentes \in Seq(Evento) /\ armazem \in Seq(Evento) /\ Len(Historico) <= MaxEventos
  BY <1>1, BoletoAssumption DEF Init
<1> QED
  BY <1>2, <1>3, <1>4 DEF Init, IInv, ObjetoFiel

LEMMA NextIInv == ASSUME IInv, [Next]_vars PROVE IInv'
<1>1. CASE UNCHANGED vars
  BY <1>1 DEF vars, IInv, ObjetoFiel, ReplaysLegais, PagamentoEncerra, Historico
<1> QED
  BY <1>1, GerarIInv, AplicarMultaJurosIInv, ConfirmarPagamentoIInv, SalvarIInv, SoltarIInv,
     LoadByIdIInv DEF Next

LEMMA Invariante == Spec => []IInv
BY InitIInv, NextIInv, PTL DEF Spec

-----------------------------------------------------------------------------
LEMMA ObjetoLegal == ASSUME IInv PROVE \E n \in 0..MaxEventos : Reconstruido(boleto, n)
<1>1. CASE vivo
  BY <1>1, ObjetoReconstruido, HistoricoTipo, Inteiro, BoletoAssumption DEF IInv
<1>2. CASE ~vivo
  BY <1>2, InexistenteReconstruido, BoletoAssumption DEF IInv, ObjetoFiel
<1> QED
  BY <1>1, <1>2

\* Type correctness: amounts are whole cents, the version is within the number of events.
THEOREM TypeCorrect == Spec => []TypeOK
<1>1. IInv => TypeOK
  BY ObjetoLegal DEF IInv, TypeOK, Reconstruido
<1> QED
  BY <1>1, Invariante, PTL

\* The object in memory is the replay of the stored and the pending events, and save()
\* numbers the next event after the last stored one, whatever saves failed half way.
THEOREM ReplayVerdadeiro == Spec => []ReplayFiel
<1>1. IInv => ReplayFiel
  BY ObjetoReconstruido, HistoricoTipo, Inteiro DEF IInv, ReplayFiel, Reconstruido
<1> QED
  BY <1>1, Invariante, PTL

\* No event follows the payment, and there is only one.
THEOREM PagamentoFinal == Spec => []PagamentoEncerra
<1>1. IInv => PagamentoEncerra
  BY DEF IInv
<1> QED
  BY <1>1, Invariante, PTL

\* RN-02 for every value, percentage and number of penalties.
THEOREM MultaDentroDaLei == Spec => []MultaLegal
<1>1. IInv => MultaLegal
  BY ObjetoLegal DEF Reconstruido, MultaLegal
<1> QED
  BY <1>1, Invariante, PTL
=============================================================================
