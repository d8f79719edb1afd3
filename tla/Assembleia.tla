----------------------------- MODULE Assembleia -----------------------------
(***************************************************************************)
(* The assembleias module: CriarAssembleiaHandler, RegistrarVotoHandler and *)
(* ObterQuorumPautaHandler, on the tables assembleias, pautas and votos.    *)
(*                                                                         *)
(* Each save commits by itself and each await lets other calls run.  A      *)
(* pauta is identified by the call that created it and by its place in the  *)
(* request.  The clock enters only through the set of pautas whose          *)
(* encerramento has passed; the request may already give one in the past.   *)
(***************************************************************************)
EXTENDS Naturals, FiniteSets

CONSTANTS
    Convocacoes,   \* calls of POST assembleias, retries included
    Itens,         \* pautas a request may name
    Unidades,      \* units that vote
    Pedidos,       \* calls of POST votos, retries included
    Leituras,      \* calls of GET quorum
    MaxFalhas      \* bound: failed statements and crashes in a behaviour

ASSUME AssembleiaAssumption ==
    /\ IsFiniteSet(Pedidos)
    /\ MaxFalhas \in Nat

Pautas == Convocacoes \X Itens
OPCOES_VALIDAS == {"APROVAR", "REPROVAR", "ABSTER"}
EmBranco == "EM_BRANCO"
Nenhum == <<>>

VARIABLES
    pcC,          \* where each creation is
    itens,        \* the pautas it was asked for
    assembleias,  \* rows of assembleia.assembleias
    pautas,       \* rows of assembleia.pautas
    encerradas,   \* pautas whose encerramento is not after now
    votos,        \* rows of assembleia.votos
    pcV,          \* where each vote request is: its last step, or its HTTP answer
    pedido,       \* what it asks: pauta, unidade, opcao
    pcQ,          \* where each quorum query is
    quorum,       \* what it answers: pauta, votosComputados, porOpcao
    falhas        \* failures so far, at most MaxFalhas

convocacaoVars == <<pcC, itens, assembleias, pautas>>
votoVars == <<votos, pcV, pedido>>
quorumVars == <<pcQ, quorum>>
vars == <<convocacaoVars, encerradas, votoVars, quorumVars, falhas>>

Pedido == [pauta : Pautas, unidade : Unidades, opcao : OPCOES_VALIDAS]
Voto == [pauta : Pautas, unidade : Unidades, opcao : OPCOES_VALIDAS, pedido : Pedidos]
SemParciais == [o \in OPCOES_VALIDAS |-> 0]

TypeOK ==
    /\ pcC \in [Convocacoes -> {"inicio", "pautas", "outbox", "400", "500", "morto"}]
    /\ itens \in [Convocacoes -> SUBSET Itens]
    /\ assembleias \subseteq Convocacoes
    /\ pautas \subseteq Pautas
    /\ encerradas \subseteq Pautas
    /\ votos \subseteq Voto
    /\ pcV \in [Pedidos -> {"inicio", "verificando", "inserindo",
                            "201", "400", "404", "409", "500", "morto"}]
    /\ pedido \in [Pedidos -> Pedido \cup {Nenhum}]
    /\ pcQ \in [Leituras -> {"inicio", "contando", "200", "morto"}]
    /\ quorum \in [Leituras -> [pauta : Pautas, votosComputados : 0..Cardinality(Pedidos),
                                porOpcao : [OPCOES_VALIDAS -> 0..Cardinality(Pedidos)]]
                               \cup {Nenhum}]
    /\ falhas \in 0..MaxFalhas

Init ==
    /\ pcC = [c \in Convocacoes |-> "inicio"]
    /\ itens = [c \in Convocacoes |-> {}]
    /\ assembleias = {}
    /\ pautas = {}
    /\ encerradas = {}
    /\ votos = {}
    /\ pcV = [v \in Pedidos |-> "inicio"]
    /\ pedido = [v \in Pedidos |-> Nenhum]
    /\ pcQ = [q \in Leituras |-> "inicio"]
    /\ quorum = [q \in Leituras |-> Nenhum]
    /\ falhas = 0

Falhar == falhas < MaxFalhas /\ falhas' = falhas + 1

VotosDe(p) == {x \in votos : x.pauta = p}

-----------------------------------------------------------------------------
(* CriarAssembleiaHandler. *)

\* A request without pautas is refused; otherwise the assembleia is saved.
SalvarAssembleia(c) ==
    /\ pcC[c] = "inicio"
    /\ \E is \in SUBSET Itens :
          /\ itens' = [itens EXCEPT ![c] = is]
          /\ IF is = {}
             THEN pcC' = [pcC EXCEPT ![c] = "400"] /\ UNCHANGED assembleias
             ELSE /\ pcC' = [pcC EXCEPT ![c] = "pautas"]
                  /\ assembleias' = assembleias \cup {c}
    /\ UNCHANGED <<pautas, encerradas, votoVars, quorumVars, falhas>>

\* save() of an array is one transaction: all the pautas or none.
SalvarPautas(c) ==
    /\ pcC[c] = "pautas"
    /\ pautas' = pautas \cup {<<c, i>> : i \in itens[c]}
    /\ pcC' = [pcC EXCEPT ![c] = "outbox"]
    /\ UNCHANGED <<itens, assembleias, encerradas, votoVars, quorumVars, falhas>>

FalharPautas(c) ==
    /\ pcC[c] = "pautas"
    /\ Falhar
    /\ pautas' \in {pautas, pautas \cup {<<c, i>> : i \in itens[c]}}
    /\ pcC' = [pcC EXCEPT ![c] = "500"]
    /\ UNCHANGED <<itens, assembleias, encerradas, votoVars, quorumVars>>

\* The outbox row carries the text 'resolver-a-partir-do-condominio' in a uuid column:
\* the insert is always rejected and the client gets an error.
RecusarOutbox(c) ==
    /\ pcC[c] = "outbox"
    /\ pcC' = [pcC EXCEPT ![c] = "500"]
    /\ UNCHANGED <<itens, assembleias, pautas, encerradas, votoVars, quorumVars, falhas>>

\* The encerramento of a pauta passes.
Encerrar(p) ==
    /\ p \notin encerradas
    /\ encerradas' = encerradas \cup {p}
    /\ UNCHANGED <<convocacaoVars, votoVars, quorumVars, falhas>>

-----------------------------------------------------------------------------
(* RegistrarVotoHandler. *)

\* Mutant: without the test of encerramento.
BuscarPautaSemPrazo(v, x) ==
    /\ pcV[v] = "inicio"
    /\ pedido' = [pedido EXCEPT ![v] = x]
    /\ pcV' = [pcV EXCEPT ![v] = IF x.pauta \in pautas THEN "verificando" ELSE "404"]
    /\ UNCHANGED <<convocacaoVars, encerradas, votos, quorumVars, falhas>>

\* The pauta must exist and still be open.
BuscarPauta(v, x) ==
    /\ pcV[v] = "inicio"
    /\ pedido' = [pedido EXCEPT ![v] = x]
    /\ pcV' = [pcV EXCEPT ![v] = IF x.pauta \notin pautas THEN "404"
                                 ELSE IF x.pauta \in encerradas THEN "400"
                                 ELSE "verificando"]
    /\ UNCHANGED <<convocacaoVars, encerradas, votos, quorumVars, falhas>>

Repetido(v) ==
    \E x \in votos : x.pauta = pedido[v].pauta /\ x.unidade = pedido[v].unidade

\* jaVotou: the friendly check.
VerificarVoto(v) ==
    /\ pcV[v] = "verificando"
    /\ pcV' = [pcV EXCEPT ![v] = IF Repetido(v) THEN "409" ELSE "inserindo"]
    /\ UNCHANGED <<convocacaoVars, encerradas, votos, pedido, quorumVars, falhas>>

NovoVoto(v) == [pauta |-> pedido[v].pauta, unidade |-> pedido[v].unidade,
                opcao |-> pedido[v].opcao, pedido |-> v]

\* Mutant: a table without UNIQUE (pauta_id, unidade_id).
InserirVotoSemUnique(v) ==
    /\ pcV[v] = "inserindo"
    /\ votos' = votos \cup {NovoVoto(v)}
    /\ pcV' = [pcV EXCEPT ![v] = "201"]
    /\ UNCHANGED <<convocacaoVars, encerradas, pedido, quorumVars, falhas>>

\* Mutant: the violation of UNIQUE is answered like a success.
InserirVotoCalado(v) ==
    /\ pcV[v] = "inserindo"
    /\ votos' = IF Repetido(v) THEN votos ELSE votos \cup {NovoVoto(v)}
    /\ pcV' = [pcV EXCEPT ![v] = "201"]
    /\ UNCHANGED <<convocacaoVars, encerradas, pedido, quorumVars, falhas>>

\* Mutant: the last vote of a unit replaces the former (an upsert).
InserirVotoTrocando(v) ==
    /\ pcV[v] = "inserindo"
    /\ votos' = {x \in votos : x.pauta # pedido[v].pauta \/ x.unidade # pedido[v].unidade}
                \cup {NovoVoto(v)}
    /\ pcV' = [pcV EXCEPT ![v] = "201"]
    /\ UNCHANGED <<convocacaoVars, encerradas, pedido, quorumVars, falhas>>

\* The insert, with UNIQUE (pauta_id, unidade_id): error 23505 becomes a 409.
InserirVoto(v) ==
    /\ pcV[v] = "inserindo"
    /\ IF Repetido(v)
       THEN pcV' = [pcV EXCEPT ![v] = "409"] /\ UNCHANGED votos
       ELSE /\ pcV' = [pcV EXCEPT ![v] = "201"]
            /\ votos' = votos \cup {NovoVoto(v)}
    /\ UNCHANGED <<convocacaoVars, encerradas, pedido, quorumVars, falhas>>

\* The connection fails during the insert, committed or not: any other error is rethrown.
FalharVoto(v) ==
    /\ pcV[v] = "inserindo"
    /\ Falhar
    /\ \/ UNCHANGED votos
       \/ ~Repetido(v) /\ votos' = votos \cup {NovoVoto(v)}
    /\ pcV' = [pcV EXCEPT ![v] = "500"]
    /\ UNCHANGED <<convocacaoVars, encerradas, pedido, quorumVars>>

-----------------------------------------------------------------------------
(* ObterQuorumPautaHandler: two queries, with votes possibly in between. *)

Parciais(p) == [o \in OPCOES_VALIDAS |-> Cardinality({x \in VotosDe(p) : x.opcao = o})]

\* votos_computados of vw_quorum_pauta; a pauta that does not exist counts 0.
LerQuorum(q, p) ==
    /\ pcQ[q] = "inicio"
    /\ quorum' = [quorum EXCEPT ![q] = [pauta |-> p, votosComputados |-> Cardinality(VotosDe(p)),
                                        porOpcao |-> SemParciais]]
    /\ pcQ' = [pcQ EXCEPT ![q] = "contando"]
    /\ UNCHANGED <<convocacaoVars, encerradas, votoVars, falhas>>

\* Mutant: only the options that decide are grouped.
ContarSemAbstencoes(q) ==
    /\ pcQ[q] = "contando"
    /\ quorum' = [quorum EXCEPT ![q].porOpcao =
                     [o \in OPCOES_VALIDAS |-> IF o = "ABSTER" THEN 0
                                               ELSE Parciais(quorum[q].pauta)[o]]]
    /\ pcQ' = [pcQ EXCEPT ![q] = "200"]
    /\ UNCHANGED <<convocacaoVars, encerradas, votoVars, falhas>>

\* GROUP BY opcao, then the answer.
ContarPorOpcao(q) ==
    /\ pcQ[q] = "contando"
    /\ quorum' = [quorum EXCEPT ![q].porOpcao = Parciais(quorum[q].pauta)]
    /\ pcQ' = [pcQ EXCEPT ![q] = "200"]
    /\ UNCHANGED <<convocacaoVars, encerradas, votoVars, falhas>>

-----------------------------------------------------------------------------
EmAndamento ==
    \/ \E c \in Convocacoes : pcC[c] \in {"pautas", "outbox"}
    \/ \E v \in Pedidos : pcV[v] \in {"verificando", "inserindo"}
    \/ \E q \in Leituras : pcQ[q] = "contando"

\* The process dies: the calls in progress are never answered.
Queda ==
    /\ EmAndamento
    /\ Falhar
    /\ pcC' = [c \in Convocacoes |-> IF pcC[c] \in {"pautas", "outbox"} THEN "morto" ELSE pcC[c]]
    /\ pcV' = [v \in Pedidos |-> IF pcV[v] \in {"verificando", "inserindo"} THEN "morto"
                                 ELSE pcV[v]]
    /\ pcQ' = [q \in Leituras |-> IF pcQ[q] = "contando" THEN "morto" ELSE pcQ[q]]
    /\ UNCHANGED <<itens, assembleias, pautas, encerradas, votos, pedido, quorum>>

Criacao(c) == SalvarAssembleia(c) \/ SalvarPautas(c) \/ FalharPautas(c) \/ RecusarOutbox(c)

Votacao(v) ==
    \/ \E x \in Pedido : BuscarPauta(v, x)
    \/ VerificarVoto(v)
    \/ InserirVoto(v)
    \/ FalharVoto(v)

Consulta(q) == (\E p \in Pautas : LerQuorum(q, p)) \/ ContarPorOpcao(q)

Next ==
    \/ \E c \in Convocacoes : Criacao(c)
    \/ \E p \in Pautas : Encerrar(p)
    \/ \E v \in Pedidos : Votacao(v)
    \/ \E q \in Leituras : Consulta(q)
    \/ Queda

Spec == Init /\ [][Next]_vars

-----------------------------------------------------------------------------
(* Properties. *)

\* RN-03: a unit has at most one vote in a pauta, however many requests of it race
\* between the friendly check and the insert.
UmVotoPorUnidade ==
    \A x, y \in votos : (x.pauta = y.pauta /\ x.unidade = y.unidade) => x = y

\* The answer tells the truth about the ballot box: 201 means this very vote counts,
\* 409 that the vote that counts for the unit is another one.
RespostaVerdadeira ==
    \A v \in Pedidos :
        /\ pcV[v] = "201" => NovoVoto(v) \in votos
        /\ pcV[v] = "409" => /\ Repetido(v)
                             /\ NovoVoto(v) \notin votos

\* The pauta is closed and no request that found it open is still on its way.
Apurada(p) ==
    /\ p \in encerradas
    /\ \A v \in Pedidos : pcV[v] \in {"verificando", "inserindo"} => pedido[v].pauta # p

\* Once a pauta is closed and the requests that found it open have ended, a count of it
\* is final: no request gets past the closing any more, and its votes never change.
ApuracaoCongela ==
    [][\A p \in Pautas : Apurada(p) => Apurada(p)' /\ VotosDe(p)' = VotosDe(p)]_vars

\* The two queries of the quorum may see different votes, but never fewer by option
\* than counted.
QuorumCoerente ==
    \A q \in Leituras : pcQ[q] = "200" =>
        quorum[q].votosComputados <= quorum[q].porOpcao["APROVAR"]
                                     + quorum[q].porOpcao["REPROVAR"]
                                     + quorum[q].porOpcao["ABSTER"]

\* The ballot box of RN-03: a vote is cast once and stays.
Cedulas ==
    [p \in Pautas |-> [u \in Unidades |->
        IF \E x \in votos : x.pauta = p /\ x.unidade = u
        THEN (CHOOSE x \in votos : x.pauta = p /\ x.unidade = u).opcao
        ELSE EmBranco]]

UrnaUnica == INSTANCE Urna WITH cedulas <- Cedulas, Opcoes <- OPCOES_VALIDAS

ImplementaUrna == UrnaUnica!Spec

\* The handler's own message: a pauta already closed takes no more votes.
EncerradaNaoRecebeVoto ==
    [][\A p \in encerradas : VotosDe(p)' = VotosDe(p)]_vars
=============================================================================
