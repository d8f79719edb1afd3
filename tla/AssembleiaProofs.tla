-------------------------- MODULE AssembleiaProofs --------------------------
(***************************************************************************)
(* Proofs about Assembleia, for every set of calls, items and units and     *)
(* every bound on failures.                                                 *)
(*                                                                         *)
(* RespostaVerdadeira says of a refused request that the vote which counts  *)
(* is another one.  What makes it inductive is that every row of votos was  *)
(* written by a request that has ended, so a request still in progress has  *)
(* no row (VotosDosPedidos).  QuorumCoerente needs what the first query     *)
(* counted to be a lower bound of the votes until the second (ContagemParcial). *)
(***************************************************************************)
EXTENDS Assembleia, FiniteSetTheorems, TLAPS

\* A row was written by a request that has ended, with what the request asks.
VotosDosPedidos ==
    /\ \A x \in votos : pcV[x.pedido] \in {"201", "500"} /\ x = NovoVoto(x.pedido)
    /\ \A v \in Pedidos : pcV[v] # "inicio" => pedido[v] \in Pedido

\* The first count of a query is at most the votes of now.
ContagemParcial ==
    \A q \in Leituras :
        /\ pcQ[q] # "inicio" => quorum[q] # Nenhum
        /\ pcQ[q] = "contando" =>
              quorum[q].votosComputados <= Cardinality(VotosDe(quorum[q].pauta))

VotacaoIInv == UmVotoPorUnidade /\ RespostaVerdadeira /\ VotosDosPedidos

IInv == TypeOK /\ VotacaoIInv /\ ContagemParcial /\ QuorumCoerente

-----------------------------------------------------------------------------
\* The table has at most one row per request, hence finitely many.
LEMMA VotosFinitos ==
    ASSUME TypeOK, VotosDosPedidos, NEW S \in SUBSET votos
    PROVE  IsFiniteSet(S) /\ Cardinality(S) \in 0..Cardinality(Pedidos)
<1> DEFINE f == [x \in S |-> x.pedido]
<1>1. \A x \in S : x.pedido \in Pedidos
  BY DEF TypeOK, Voto
<1>2. \A x, y \in S : x.pedido = y.pedido => x = y
  BY DEF VotosDosPedidos
<1>3. f \in Injection(S, Pedidos)
  BY <1>1, <1>2 DEF Injection, IsInjective
<1>4. IsFiniteSet(S) /\ Cardinality(S) <= Cardinality(Pedidos)
  BY <1>3, FS_Injection, AssembleiaAssumption
<1> QED
  BY <1>4, FS_CardinalityType, AssembleiaAssumption

\* The votes of a pauta are those of its three options.
LEMMA SomaDasParciais ==
    ASSUME TypeOK, VotosDosPedidos, NEW p
    PROVE  /\ Parciais(p) \in [OPCOES_VALIDAS -> 0..Cardinality(Pedidos)]
           /\ Cardinality(VotosDe(p)) = Parciais(p)["APROVAR"] + Parciais(p)["REPROVAR"]
                                        + Parciais(p)["ABSTER"]
<1> DEFINE S(o) == {x \in VotosDe(p) : x.opcao = o}
<1>1. \A o : S(o) \in SUBSET votos
  BY DEF VotosDe
<1>2. \A o : IsFiniteSet(S(o)) /\ Cardinality(S(o)) \in 0..Cardinality(Pedidos)
  BY <1>1, VotosFinitos
<1>3. Parciais(p) = [o \in OPCOES_VALIDAS |-> Cardinality(S(o))]
  BY DEF Parciais
<1>a. VotosDe(p) = (S("APROVAR") \cup S("REPROVAR")) \cup S("ABSTER")
  BY DEF VotosDe, TypeOK, Voto, OPCOES_VALIDAS
<1>b. S("APROVAR") \cap S("REPROVAR") = {}
  OBVIOUS
<1>c. (S("APROVAR") \cup S("REPROVAR")) \cap S("ABSTER") = {}
  OBVIOUS
<1> HIDE DEF S
<1>4. Parciais(p) \in [OPCOES_VALIDAS -> 0..Cardinality(Pedidos)]
  BY <1>2, <1>3
<1>5. /\ IsFiniteSet(S("APROVAR") \cup S("REPROVAR"))
      /\ Cardinality(S("APROVAR") \cup S("REPROVAR")) =
            Cardinality(S("APROVAR")) + Cardinality(S("REPROVAR"))
  <2>1. Cardinality(S("APROVAR") \cup S("REPROVAR")) =
            Cardinality(S("APROVAR")) + Cardinality(S("REPROVAR")) - Cardinality({})
    BY <1>2, <1>b, FS_Union
  <2>2. IsFiniteSet(S("APROVAR") \cup S("REPROVAR"))
    BY <1>2, FS_Union
  <2> QED
    BY <2>1, <2>2, <1>2, FS_EmptySet
<1>6. Cardinality(VotosDe(p)) = Cardinality(S("APROVAR")) + Cardinality(S("REPROVAR"))
                                + Cardinality(S("ABSTER"))
  <2>1. Cardinality(VotosDe(p)) = Cardinality(S("APROVAR") \cup S("REPROVAR"))
                                  + Cardinality(S("ABSTER")) - Cardinality({})
    BY <1>2, <1>5, <1>a, <1>c, FS_Union
  <2> QED
    BY <2>1, <1>2, <1>5, FS_EmptySet
<1>7. /\ Parciais(p)["APROVAR"] = Cardinality(S("APROVAR"))
      /\ Parciais(p)["REPROVAR"] = Cardinality(S("REPROVAR"))
      /\ Parciais(p)["ABSTER"] = Cardinality(S("ABSTER"))
  BY <1>3 DEF OPCOES_VALIDAS
<1> QED
  BY <1>4, <1>6, <1>7

-----------------------------------------------------------------------------
LEMMA InitIInv == Init => IInv
<1> SUFFICES ASSUME Init PROVE IInv
  OBVIOUS
<1>1. TypeOK
  BY AssembleiaAssumption DEF Init, TypeOK
<1>2. VotacaoIInv
  BY DEF Init, VotacaoIInv, UmVotoPorUnidade, RespostaVerdadeira, VotosDosPedidos
<1>3. ContagemParcial /\ QuorumCoerente
  BY DEF Init, ContagemParcial, QuorumCoerente
<1> QED
  BY <1>1, <1>2, <1>3 DEF IInv

\* A step that leaves votos, pcV and pedido alone.
LEMMA SemVotacao == ASSUME VotacaoIInv, UNCHANGED votoVars PROVE VotacaoIInv'
BY DEF VotacaoIInv, votoVars, UmVotoPorUnidade, RespostaVerdadeira, VotosDosPedidos,
       Repetido, NovoVoto

\* A step that leaves the queries alone, while votos only grows.
LEMMA SemConsulta ==
    ASSUME IInv, TypeOK', VotosDosPedidos', UNCHANGED quorumVars, votos \subseteq votos'
    PROVE  ContagemParcial' /\ QuorumCoerente'
<1>1. QuorumCoerente'
  BY DEF IInv, QuorumCoerente, quorumVars
<1>2. ASSUME NEW p
      PROVE  /\ Cardinality(VotosDe(p)) \in Nat
             /\ Cardinality(VotosDe(p))' \in Nat
             /\ Cardinality(VotosDe(p)) <= Cardinality(VotosDe(p))'
  <2>1. VotosDe(p) \in SUBSET votos /\ VotosDe(p)' \in SUBSET votos'
    BY DEF VotosDe
  <2>2. VotosDe(p) \in SUBSET VotosDe(p)'
    BY DEF VotosDe
  <2>3. IsFiniteSet(VotosDe(p)')
    <3>1. \A x \in votos' : x.pedido \in Pedidos
      BY DEF TypeOK, Voto
    <3>2. \A x, y \in votos' : x.pedido = y.pedido => x = y
      BY DEF VotosDosPedidos
    <3>3. [x \in VotosDe(p)' |-> x.pedido] \in Injection(VotosDe(p)', Pedidos)
      BY <2>1, <3>1, <3>2 DEF Injection, IsInjective
    <3> QED
      BY <3>3, FS_Injection, AssembleiaAssumption
  <2> QED
    BY <2>2, <2>3, FS_Subset, FS_CardinalityType
<1>3. ASSUME NEW q \in Leituras, pcQ[q] = "contando"
      PROVE  quorum[q].votosComputados <= Cardinality(VotosDe(quorum[q].pauta))'
  <2>1. quorum[q] \in [pauta : Pautas, votosComputados : 0..Cardinality(Pedidos),
                       porOpcao : [OPCOES_VALIDAS -> 0..Cardinality(Pedidos)]]
    BY <1>3 DEF IInv, TypeOK, ContagemParcial
  <2>2. quorum[q].votosComputados \in Nat
    BY <2>1, FS_CardinalityType, AssembleiaAssumption
  <2>3. quorum[q].votosComputados <= Cardinality(VotosDe(quorum[q].pauta))
    BY <1>3 DEF IInv, ContagemParcial
  <2>p. PICK p : p = quorum[q].pauta
    OBVIOUS
  <2>4. VotosDe(quorum[q].pauta)' = VotosDe(p)' /\ VotosDe(quorum[q].pauta) = VotosDe(p)
    BY <2>p DEF quorumVars, VotosDe
  <2>5. /\ Cardinality(VotosDe(quorum[q].pauta))' = Cardinality(VotosDe(p))'
        /\ quorum[q].votosComputados <= Cardinality(VotosDe(p))
    BY <2>3, <2>4
  <2>6. /\ Cardinality(VotosDe(p)) \in Nat
        /\ Cardinality(VotosDe(p))' \in Nat
        /\ Cardinality(VotosDe(p)) <= Cardinality(VotosDe(p))'
    BY <1>2
  <2> QED
    BY <2>2, <2>5, <2>6
<1>4. ContagemParcial'
  BY <1>3 DEF IInv, ContagemParcial, quorumVars, VotosDe
<1> QED
  BY <1>1, <1>4

-----------------------------------------------------------------------------
\* The creation of an assembleia and the clock touch neither votes nor queries.
LEMMA CriacaoIInv ==
    ASSUME IInv, NEW c \in Convocacoes, Criacao(c)
    PROVE  IInv'
<1> USE DEF Pautas
<1>1. UNCHANGED votoVars /\ UNCHANGED quorumVars
  BY DEF Criacao, SalvarAssembleia, SalvarPautas, FalharPautas, RecusarOutbox
<1>2. TypeOK'
  <2>1. \A is \in SUBSET Itens : {<<c, i>> : i \in is} \subseteq Pautas
    OBVIOUS
  <2>2. itens[c] \in SUBSET Itens
    BY DEF IInv, TypeOK
  <2>3. CASE SalvarAssembleia(c)
    BY <2>3 DEF IInv, TypeOK, SalvarAssembleia, votoVars, quorumVars
  <2>4. CASE SalvarPautas(c)
    BY <2>1, <2>2, <2>4 DEF IInv, TypeOK, SalvarPautas, votoVars, quorumVars
  <2>5. CASE FalharPautas(c)
    BY <2>1, <2>2, <2>5, AssembleiaAssumption DEF IInv, TypeOK, FalharPautas, Falhar, votoVars, quorumVars
  <2>6. CASE RecusarOutbox(c)
    BY <2>6 DEF IInv, TypeOK, RecusarOutbox, votoVars, quorumVars
  <2> QED
    BY <2>3, <2>4, <2>5, <2>6 DEF Criacao
<1>3. VotacaoIInv'
  BY <1>1, SemVotacao DEF IInv
<1>4. ContagemParcial' /\ QuorumCoerente'
  BY <1>1, <1>2, <1>3, SemConsulta DEF votoVars, VotacaoIInv
<1> QED
  BY <1>2, <1>3, <1>4 DEF IInv

LEMMA EncerrarIInv ==
    ASSUME IInv, NEW p \in Pautas, Encerrar(p)
    PROVE  IInv'
<1>1. UNCHANGED votoVars /\ UNCHANGED quorumVars
  BY DEF Encerrar
<1>2. TypeOK'
  BY DEF IInv, TypeOK, Encerrar, convocacaoVars, votoVars, quorumVars
<1>3. VotacaoIInv'
  BY <1>1, SemVotacao DEF IInv
<1> QED
  BY <1>1, <1>2, <1>3, SemConsulta DEF IInv, votoVars, VotacaoIInv

-----------------------------------------------------------------------------
(* The vote requests. *)

\* The new row, from a request that is about to insert.
LEMMA NovoVotoEhVoto ==
    ASSUME IInv, NEW v \in Pedidos, pcV[v] = "inserindo"
    PROVE  /\ NovoVoto(v) \in Voto
           /\ NovoVoto(v).pauta = pedido[v].pauta /\ NovoVoto(v).unidade = pedido[v].unidade
           /\ NovoVoto(v).pedido = v
           /\ \A x \in votos : x.pedido # v
BY DEF IInv, VotacaoIInv, VotosDosPedidos, NovoVoto, Voto, Pedido

\* A request that ends with a row (its own) or without one.
LEMMA FimDoPedido ==
    ASSUME IInv, NEW v \in Pedidos, pcV[v] = "inserindo", UNCHANGED pedido,
           NEW fim \in {"201", "409", "500"}, pcV' = [pcV EXCEPT ![v] = fim],
           \/ votos' = votos /\ (fim = "409" => Repetido(v)) /\ fim # "201"
           \/ ~Repetido(v) /\ votos' = votos \cup {NovoVoto(v)} /\ fim # "409"
    PROVE  VotacaoIInv'
<1>1. pcV \in [Pedidos -> {"inicio", "verificando", "inserindo",
                           "201", "400", "404", "409", "500", "morto"}]
  BY DEF IInv, TypeOK
<1>2. \A w \in Pedidos : NovoVoto(w)' = NovoVoto(w)
  BY DEF NovoVoto
<1>3. UmVotoPorUnidade'
  BY NovoVotoEhVoto DEF IInv, VotacaoIInv, UmVotoPorUnidade, Repetido
<1>4. RespostaVerdadeira'
  <2>1. ASSUME NEW w \in Pedidos, pcV'[w] = "201" PROVE NovoVoto(w) \in votos'
    BY <1>1, <2>1 DEF IInv, VotacaoIInv, RespostaVerdadeira
  <2>2. ASSUME NEW w \in Pedidos, pcV'[w] = "409" PROVE Repetido(w)' /\ NovoVoto(w) \notin votos'
    <3>1. CASE w = v
      BY <1>1, <2>2, <3>1, NovoVotoEhVoto DEF Repetido
    <3>2. CASE w # v
      <4>1. pcV[w] = "409"
        BY <1>1, <2>2, <3>2
      <4>2. Repetido(w) /\ NovoVoto(w) \notin votos
        BY <4>1 DEF IInv, VotacaoIInv, RespostaVerdadeira
      <4>3. NovoVoto(w) # NovoVoto(v)
        BY <3>2 DEF NovoVoto
      <4> QED
        BY <4>2, <4>3 DEF Repetido
    <3> QED
      BY <3>1, <3>2
  <2> QED
    BY <1>2, <2>1, <2>2 DEF RespostaVerdadeira
<1>5. VotosDosPedidos'
  <2>1. ASSUME NEW x \in votos' PROVE pcV'[x.pedido] \in {"201", "500"} /\ x = NovoVoto(x.pedido)
    <3>1. CASE x \in votos
      BY <1>1, <3>1, NovoVotoEhVoto DEF IInv, VotacaoIInv, VotosDosPedidos, TypeOK, Voto
    <3>2. CASE x \notin votos
      BY <1>1, <3>2, NovoVotoEhVoto
    <3> QED
      BY <3>1, <3>2
  <2>2. \A w \in Pedidos : pcV'[w] # "inicio" => pedido'[w] \in Pedido
    BY <1>1 DEF IInv, VotacaoIInv, VotosDosPedidos
  <2> QED
    BY <2>1, <2>2 DEF VotosDosPedidos, NovoVoto
<1> QED
  BY <1>3, <1>4, <1>5 DEF VotacaoIInv

\* A request that has not reached the insert moves on.
LEMMA AntesDoInsert ==
    ASSUME IInv, NEW v \in Pedidos, UNCHANGED votos,
           \/ \E x \in Pedido : BuscarPauta(v, x)
           \/ VerificarVoto(v)
    PROVE  TypeOK' /\ VotacaoIInv'
<1>1. CASE \E x \in Pedido : BuscarPauta(v, x)
  <2> PICK x \in Pedido : BuscarPauta(v, x)
    BY <1>1
  <2>1. TypeOK'
    BY DEF IInv, TypeOK, BuscarPauta, convocacaoVars, quorumVars
  <2>2. \A w \in Pedidos : w # v => pcV'[w] = pcV[w] /\ pedido'[w] = pedido[w]
    BY DEF BuscarPauta, IInv, TypeOK
  <2>3. /\ pcV[v] = "inicio" /\ pcV'[v] \in {"404", "400", "verificando"}
        /\ pedido'[v] \in Pedido
    BY DEF BuscarPauta, IInv, TypeOK
  <2>4. VotacaoIInv'
    BY <2>2, <2>3 DEF IInv, TypeOK, Voto, VotacaoIInv, UmVotoPorUnidade, RespostaVerdadeira,
                      VotosDosPedidos, Repetido, NovoVoto
  <2> QED
    BY <2>1, <2>4
<1>2. CASE VerificarVoto(v)
  <2>1. TypeOK'
    BY <1>2 DEF IInv, TypeOK, VerificarVoto, convocacaoVars, quorumVars
  <2>2. /\ \A w \in Pedidos : w # v => pcV'[w] = pcV[w]
        /\ pcV[v] = "verificando" /\ pcV'[v] \in {"409", "inserindo"}
        /\ pcV'[v] = "409" => Repetido(v)
        /\ UNCHANGED <<votos, pedido>>
    BY <1>2 DEF VerificarVoto, IInv, TypeOK
  <2>3. \A x \in votos : x.pedido # v
    BY <2>2 DEF IInv, VotacaoIInv, VotosDosPedidos
  <2>4. VotacaoIInv'
    BY <2>2, <2>3 DEF IInv, TypeOK, Voto, VotacaoIInv, UmVotoPorUnidade, RespostaVerdadeira,
                      VotosDosPedidos, Repetido, NovoVoto
  <2> QED
    BY <2>1, <2>4
<1> QED
  BY <1>1, <1>2

LEMMA VotacaoPreserva ==
    ASSUME IInv, NEW v \in Pedidos, Votacao(v)
    PROVE  IInv'
<1>1. TypeOK' /\ VotacaoIInv'
  <2>1. CASE \E x \in Pedido : BuscarPauta(v, x)
    BY <2>1, AntesDoInsert DEF BuscarPauta
  <2>2. CASE VerificarVoto(v)
    BY <2>2, AntesDoInsert DEF VerificarVoto
  <2>3. CASE InserirVoto(v)
    <3>1. TypeOK'
      BY <2>3, NovoVotoEhVoto DEF IInv, TypeOK, InserirVoto, convocacaoVars, quorumVars
    <3>2. VotacaoIInv'
      BY <2>3, FimDoPedido DEF InserirVoto
    <3> QED
      BY <3>1, <3>2
  <2>4. CASE FalharVoto(v)
    <3>1. TypeOK'
      BY <2>4, NovoVotoEhVoto, AssembleiaAssumption
         DEF IInv, TypeOK, FalharVoto, Falhar, convocacaoVars, quorumVars
    <3>2. VotacaoIInv'
      BY <2>4, FimDoPedido DEF FalharVoto
    <3> QED
      BY <3>1, <3>2
  <2> QED
    BY <2>1, <2>2, <2>3, <2>4 DEF Votacao
<1>2. UNCHANGED quorumVars /\ votos \subseteq votos'
  BY DEF Votacao, BuscarPauta, VerificarVoto, InserirVoto, FalharVoto
<1> QED
  BY <1>1, <1>2, SemConsulta DEF IInv, VotacaoIInv

-----------------------------------------------------------------------------
(* The queries, and the crash. *)

\* The two queries read: the vote requests are untouched.
LEMMA ConsultaPreserva ==
    ASSUME IInv, NEW q \in Leituras, Consulta(q)
    PROVE  IInv'
<1>1. UNCHANGED votoVars
  BY DEF Consulta, LerQuorum, ContarPorOpcao
<1>2. VotacaoIInv'
  BY <1>1, SemVotacao DEF IInv
<1>3. \A p : VotosDe(p)' = VotosDe(p) /\ Cardinality(VotosDe(p))' = Cardinality(VotosDe(p))
  BY <1>1 DEF VotosDe, votoVars
<1>4. CASE \E p \in Pautas : LerQuorum(q, p)
  <2> PICK p \in Pautas : LerQuorum(q, p)
    BY <1>4
  <2>1. Cardinality(VotosDe(p)) \in 0..Cardinality(Pedidos)
    BY VotosFinitos DEF VotosDe, IInv, VotacaoIInv
  <2>2. SemParciais \in [OPCOES_VALIDAS -> 0..Cardinality(Pedidos)]
    BY FS_CardinalityType, AssembleiaAssumption DEF SemParciais
  <2>3. /\ quorum' = [quorum EXCEPT ![q] = [pauta |-> p, votosComputados |-> Cardinality(VotosDe(p)),
                                            porOpcao |-> SemParciais]]
        /\ pcQ' = [pcQ EXCEPT ![q] = "contando"]
    BY DEF LerQuorum
  <2>4. TypeOK'
    BY <2>1, <2>2, <2>3 DEF LerQuorum, IInv, TypeOK, convocacaoVars, votoVars
  <2>5. \A r \in Leituras : r # q => quorum'[r] = quorum[r] /\ pcQ'[r] = pcQ[r]
    BY <2>3 DEF IInv, TypeOK
  <2>6. /\ pcQ'[q] = "contando"
        /\ quorum'[q] # Nenhum
        /\ quorum'[q].pauta = p /\ quorum'[q].votosComputados = Cardinality(VotosDe(p))
    BY <2>3 DEF IInv, TypeOK, Nenhum
  <2>7. ContagemParcial'
    <3>1. ASSUME NEW r \in Leituras, pcQ'[r] = "contando"
          PROVE  quorum'[r].votosComputados <= Cardinality(VotosDe(quorum'[r].pauta))
      <4>1. CASE r = q
        BY <2>1, <2>6, <4>1
      <4>2. CASE r # q
        BY <2>5, <3>1, <4>2 DEF IInv, ContagemParcial
      <4> QED
        BY <4>1, <4>2
    <3>2. \A r \in Leituras : pcQ'[r] # "inicio" => quorum'[r] # Nenhum
      BY <2>5, <2>6 DEF IInv, ContagemParcial
    <3> QED
      BY <1>1, <3>1, <3>2 DEF ContagemParcial, VotosDe, votoVars
  <2>8. QuorumCoerente'
    BY <2>5, <2>6 DEF IInv, QuorumCoerente
  <2> QED
    BY <1>2, <2>4, <2>7, <2>8 DEF IInv
<1>5. CASE ContarPorOpcao(q)
  <2> DEFINE p == quorum[q].pauta
  <2>0. quorum[q] \in [pauta : Pautas, votosComputados : 0..Cardinality(Pedidos),
                       porOpcao : [OPCOES_VALIDAS -> 0..Cardinality(Pedidos)]]
    BY <1>5 DEF ContarPorOpcao, IInv, TypeOK, ContagemParcial
  <2>1. /\ Parciais(p) \in [OPCOES_VALIDAS -> 0..Cardinality(Pedidos)]
        /\ Cardinality(VotosDe(p)) = Parciais(p)["APROVAR"] + Parciais(p)["REPROVAR"]
                                     + Parciais(p)["ABSTER"]
    BY SomaDasParciais DEF IInv, VotacaoIInv
  <2>2. /\ quorum' = [quorum EXCEPT ![q].porOpcao = Parciais(p)]
        /\ pcQ' = [pcQ EXCEPT ![q] = "200"]
        /\ pcQ[q] = "contando"
    BY <1>5 DEF ContarPorOpcao
  <2>3. /\ \A r \in Leituras : r # q => quorum'[r] = quorum[r] /\ pcQ'[r] = pcQ[r]
        /\ pcQ'[q] = "200" /\ quorum'[q] = [quorum[q] EXCEPT !.porOpcao = Parciais(p)]
    BY <2>2 DEF IInv, TypeOK
  <2>4. /\ quorum'[q].votosComputados = quorum[q].votosComputados
        /\ quorum'[q].porOpcao = Parciais(p)
        /\ quorum'[q] \in [pauta : Pautas, votosComputados : 0..Cardinality(Pedidos),
                            porOpcao : [OPCOES_VALIDAS -> 0..Cardinality(Pedidos)]]
        /\ quorum'[q] # Nenhum
    <3> DEFINE n == quorum[q].votosComputados
               r == [pauta |-> p, votosComputados |-> n, porOpcao |-> Parciais(p)]
    <3>1. quorum'[q] = r
      BY <2>0, <2>3
    <3>2. r \in [pauta : Pautas, votosComputados : 0..Cardinality(Pedidos),
                 porOpcao : [OPCOES_VALIDAS -> 0..Cardinality(Pedidos)]]
      BY <2>0, <2>1
    <3>3. r.votosComputados = n /\ r.porOpcao = Parciais(p) /\ r # Nenhum
      BY DEF Nenhum
    <3> QED
      BY <3>1, <3>2, <3>3
  <2>5. TypeOK'
    BY <1>5, <2>2, <2>3, <2>4 DEF ContarPorOpcao, IInv, TypeOK, convocacaoVars, votoVars
  <2>6. quorum[q].votosComputados <= Cardinality(VotosDe(p))
    BY <2>2 DEF IInv, ContagemParcial
  <2>7. QuorumCoerente'
    BY <2>1, <2>3, <2>4, <2>6 DEF IInv, QuorumCoerente
  <2>8. ContagemParcial'
    BY <1>1, <2>3, <2>4 DEF IInv, ContagemParcial, VotosDe, votoVars
  <2> QED
    BY <1>2, <2>5, <2>7, <2>8 DEF IInv
<1> QED
  BY <1>4, <1>5 DEF Consulta

LEMMA QuedaPreserva == ASSUME IInv, Queda PROVE IInv'
<1>1. TypeOK'
  BY AssembleiaAssumption DEF Queda, Falhar, IInv, TypeOK
<1>2. \A v \in Pedidos : \/ pcV'[v] = pcV[v]
                         \/ pcV[v] \in {"verificando", "inserindo"} /\ pcV'[v] = "morto"
  BY DEF Queda, IInv, TypeOK
<1>3. VotacaoIInv'
  BY <1>2 DEF Queda, IInv, TypeOK, Voto, VotacaoIInv, UmVotoPorUnidade, RespostaVerdadeira,
              VotosDosPedidos, Repetido, NovoVoto
<1>4. \A q \in Leituras : \/ pcQ'[q] = pcQ[q]
                          \/ pcQ[q] = "contando" /\ pcQ'[q] = "morto"
  BY DEF Queda, IInv, TypeOK
<1>5. ContagemParcial' /\ QuorumCoerente'
  BY <1>4 DEF Queda, IInv, ContagemParcial, QuorumCoerente, VotosDe
<1> QED
  BY <1>1, <1>3, <1>5 DEF IInv

LEMMA NextIInv == IInv /\ [Next]_vars => IInv'
<1> SUFFICES ASSUME IInv, [Next]_vars PROVE IInv'
  OBVIOUS
<1>1. CASE UNCHANGED vars
  <2>1. TypeOK'
    BY <1>1 DEF IInv, TypeOK, vars, convocacaoVars, votoVars, quorumVars
  <2>2. UNCHANGED votoVars /\ UNCHANGED quorumVars
    BY <1>1 DEF vars
  <2>3. VotacaoIInv'
    BY <2>2, SemVotacao DEF IInv
  <2> QED
    BY <2>1, <2>2, <2>3, SemConsulta DEF IInv, votoVars, VotacaoIInv
<1> QED
  BY <1>1, CriacaoIInv, EncerrarIInv, VotacaoPreserva, ConsultaPreserva, QuedaPreserva DEF Next

-----------------------------------------------------------------------------
(* The theorems. *)

\* The inductive invariant of the assembleias module holds in every behaviour.
THEOREM Invariante == Spec => []IInv
BY InitIInv, NextIInv, PTL DEF Spec

\* Type correctness: the counts of the quorum never exceed the number of requests.
THEOREM TypeCorrect == Spec => []TypeOK
<1>1. IInv => TypeOK
  BY DEF IInv
<1> QED
  BY <1>1, Invariante, PTL

\* RN-03: at most one vote per unit and pauta, however many requests race between the
\* friendly check and the insert, fail or are retried.
THEOREM VotoUnico == Spec => []UmVotoPorUnidade
<1>1. IInv => UmVotoPorUnidade
  BY DEF IInv, VotacaoIInv
<1> QED
  BY <1>1, Invariante, PTL

\* The HTTP answer of RegistrarVotoHandler tells the truth about the ballot box, and goes
\* on telling it.
THEOREM RespostaHonesta == Spec => []RespostaVerdadeira
<1>1. IInv => RespostaVerdadeira
  BY DEF IInv, VotacaoIInv
<1> QED
  BY <1>1, Invariante, PTL

\* The two queries of ObterQuorumPautaHandler never count fewer votes by option than in
\* all, whatever is voted between them.
THEOREM QuorumHonesto == Spec => []QuorumCoerente
<1>1. IInv => QuorumCoerente
  BY DEF IInv
<1> QED
  BY <1>1, Invariante, PTL

\* A count of a closed pauta is final once the requests that found it open have ended:
\* only a request at the insert writes, to the pauta it names, and none gets there again.
THEOREM ApuracaoFinal == Spec => ApuracaoCongela
<1>1. ASSUME IInv, [Next]_vars, NEW p \in Pautas, Apurada(p)
      PROVE  VotosDe(p)' = VotosDe(p)
  <2>1. \/ votos' = votos
        \/ \E v \in Pedidos : pcV[v] = "inserindo" /\ votos' = votos \cup {NovoVoto(v)}
    BY <1>1 DEF Next, Criacao, SalvarAssembleia, SalvarPautas, FalharPautas, RecusarOutbox,
                Encerrar, Votacao, BuscarPauta, VerificarVoto, InserirVoto, FalharVoto,
                Consulta, LerQuorum, ContarPorOpcao, Queda, vars, votoVars
  <2>2. CASE votos' = votos
    BY <2>2 DEF VotosDe
  <2>3. ASSUME NEW v \in Pedidos, pcV[v] = "inserindo", votos' = votos \cup {NovoVoto(v)}
        PROVE  VotosDe(p)' = VotosDe(p)
    BY <1>1, <2>3 DEF VotosDe, NovoVoto, Apurada
  <2> QED
    BY <2>1, <2>2, <2>3
<1>2. ASSUME IInv, [Next]_vars, NEW p \in Pautas, Apurada(p)
      PROVE  Apurada(p)'
  <2>1. p \in encerradas'
    BY <1>2 DEF Apurada, Next, Criacao, SalvarAssembleia, SalvarPautas, FalharPautas,
                RecusarOutbox, Encerrar, Votacao, BuscarPauta, VerificarVoto, InserirVoto,
                FalharVoto, Consulta, LerQuorum, ContarPorOpcao, Queda, vars
  <2>2. ASSUME NEW v \in Pedidos, pcV'[v] \in {"verificando", "inserindo"}
        PROVE  pedido'[v].pauta # p
    <3>1. CASE \E w \in Pedidos, x \in Pedido : BuscarPauta(w, x)
      BY <1>2, <2>2, <3>1 DEF Apurada, BuscarPauta, IInv, TypeOK
    <3>2. CASE \E w \in Pedidos : VerificarVoto(w) \/ InserirVoto(w) \/ FalharVoto(w)
      BY <1>2, <2>2, <3>2 DEF Apurada, VerificarVoto, InserirVoto, FalharVoto, IInv, TypeOK
    <3>3. CASE Queda
      BY <1>2, <2>2, <3>3 DEF Apurada, Queda, IInv, TypeOK
    <3>4. CASE UNCHANGED votoVars
      BY <1>2, <2>2, <3>4 DEF Apurada, votoVars
    <3> QED
      BY <1>2, <3>1, <3>2, <3>3, <3>4
         DEF Next, Criacao, SalvarAssembleia, SalvarPautas, FalharPautas, RecusarOutbox,
             Encerrar, Votacao, Consulta, LerQuorum, ContarPorOpcao, vars
  <2> QED
    BY <2>1, <2>2 DEF Apurada
<1>3. IInv /\ [Next]_vars =>
          [\A p \in Pautas : Apurada(p) => Apurada(p)' /\ VotosDe(p)' = VotosDe(p)]_vars
  BY <1>1, <1>2
<1> QED
  BY <1>3, Invariante, PTL DEF Spec, ApuracaoCongela

-----------------------------------------------------------------------------
(* The refinement of the ballot box. *)

\* With one row per unit and pauta, the ballot of a unit is that row: before a step and
\* after it.
LEMMA CedulaPreenchida ==
    ASSUME UmVotoPorUnidade, NEW y \in votos, y.pauta \in Pautas, y.unidade \in Unidades
    PROVE  Cedulas[y.pauta][y.unidade] = y.opcao
<1> DEFINE c == CHOOSE x \in votos : x.pauta = y.pauta /\ x.unidade = y.unidade
<1>1. c \in votos /\ c.pauta = y.pauta /\ c.unidade = y.unidade
  OBVIOUS
<1>2. c = y
  BY <1>1 DEF UmVotoPorUnidade
<1> QED
  BY <1>2 DEF Cedulas

LEMMA CedulaPreenchidaDepois ==
    ASSUME UmVotoPorUnidade', NEW y \in votos', y.pauta \in Pautas, y.unidade \in Unidades
    PROVE  Cedulas'[y.pauta][y.unidade] = y.opcao
<1> DEFINE c == CHOOSE x \in votos' : x.pauta = y.pauta /\ x.unidade = y.unidade
<1>1. c \in votos' /\ c.pauta = y.pauta /\ c.unidade = y.unidade
  OBVIOUS
<1>2. c = y
  BY <1>1 DEF UmVotoPorUnidade
<1> QED
  BY <1>2 DEF Cedulas

\* A new row fills exactly one blank ballot.
LEMMA VotoSimula ==
    ASSUME IInv, IInv', NEW n \in Voto, votos' = votos \cup {n},
           \A x \in votos : x.pauta # n.pauta \/ x.unidade # n.unidade
    PROVE  UrnaUnica!Votar(n.pauta, n.unidade, n.opcao)
<1>1. n.pauta \in Pautas /\ n.unidade \in Unidades
  BY DEF Voto
<1>2. Cedulas[n.pauta][n.unidade] = EmBranco
  BY <1>1 DEF Cedulas
<1>3. Cedulas'[n.pauta][n.unidade] = n.opcao
  BY <1>1, CedulaPreenchidaDepois DEF IInv, VotacaoIInv
<1>4. ASSUME NEW p \in Pautas, NEW u \in Unidades, p # n.pauta \/ u # n.unidade
      PROVE  Cedulas'[p][u] = Cedulas[p][u]
  <2>1. CASE \E y \in votos : y.pauta = p /\ y.unidade = u
    <3> PICK y \in votos : y.pauta = p /\ y.unidade = u
      BY <2>1
    <3>1. Cedulas[y.pauta][y.unidade] = y.opcao
      BY CedulaPreenchida DEF IInv, VotacaoIInv
    <3>2. Cedulas'[y.pauta][y.unidade] = y.opcao
      BY CedulaPreenchidaDepois DEF IInv, VotacaoIInv
    <3> QED
      BY <3>1, <3>2
  <2>2. CASE ~ \E y \in votos : y.pauta = p /\ y.unidade = u
    <3>1. ~ \E y \in votos' : y.pauta = p /\ y.unidade = u
      BY <1>4, <2>2
    <3>2. Cedulas[p][u] = EmBranco
      BY <2>2 DEF Cedulas
    <3>3. Cedulas'[p][u] = EmBranco
      BY <3>1 DEF Cedulas
    <3> QED
      BY <3>2, <3>3
  <2> QED
    BY <2>1, <2>2
<1>5. /\ Cedulas = [p \in Pautas |-> [u \in Unidades |-> Cedulas[p][u]]]
      /\ Cedulas' = [p \in Pautas |-> [u \in Unidades |-> Cedulas'[p][u]]]
  BY DEF Cedulas
<1>6. Cedulas' = [Cedulas EXCEPT ![n.pauta] = [Cedulas[n.pauta] EXCEPT ![n.unidade] = n.opcao]]
  <2> HIDE DEF Cedulas
  <2> QED
    BY <1>1, <1>3, <1>4, <1>5
<1> QED
  BY <1>2, <1>6 DEF UrnaUnica!Votar

LEMMA PassoSimula == ASSUME IInv, IInv', [Next]_vars PROVE [UrnaUnica!Next]_Cedulas
<1>1. \/ votos' = votos
      \/ \E v \in Pedidos : /\ pcV[v] = "inserindo" /\ ~Repetido(v)
                            /\ votos' = votos \cup {NovoVoto(v)}
  BY DEF Next, Criacao, SalvarAssembleia, SalvarPautas, FalharPautas, RecusarOutbox,
         Encerrar, Votacao, BuscarPauta, VerificarVoto, InserirVoto, FalharVoto,
         Consulta, LerQuorum, ContarPorOpcao, Queda, vars, votoVars
<1>2. CASE votos' = votos
  BY <1>2 DEF Cedulas
<1>3. ASSUME NEW v \in Pedidos, pcV[v] = "inserindo", ~Repetido(v),
             votos' = votos \cup {NovoVoto(v)}
      PROVE  UrnaUnica!Next
  <2>1. PICK n \in Voto : n = NovoVoto(v)
    BY <1>3, NovoVotoEhVoto
  <2>2. \A x \in votos : x.pauta # n.pauta \/ x.unidade # n.unidade
    BY <1>3, <2>1, NovoVotoEhVoto DEF Repetido
  <2>3. UrnaUnica!Votar(n.pauta, n.unidade, n.opcao)
    BY <1>3, <2>1, <2>2, VotoSimula
  <2>4. n.pauta \in Pautas /\ n.unidade \in Unidades /\ n.opcao \in OPCOES_VALIDAS
    BY DEF Voto
  <2> QED
    BY <2>3, <2>4 DEF UrnaUnica!Next
<1> QED
  BY <1>1, <1>2, <1>3

\* The votos table implements the ballot box of RN-03: a vote is cast once into a blank
\* ballot and never changed or removed.
THEOREM Refinamento == Spec => ImplementaUrna
<1>1. Init => UrnaUnica!Init
  BY DEF Init, UrnaUnica!Init, Cedulas
<1> QED
  BY <1>1, PassoSimula, Invariante, PTL DEF Spec, ImplementaUrna, UrnaUnica!Spec
=============================================================================
