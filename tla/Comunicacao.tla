---------------------------- MODULE Comunicacao ----------------------------
(***************************************************************************)
(* PublicarComunicadoHandler, NotificationDispatcherService and its         *)
(* channels.  A publication resolves its recipients, runs one sending loop  *)
(* for each entry of canais, all under one Promise.all, and only then saves *)
(* the comunicado with the results and inserts its event.  Each await of a  *)
(* loop interleaves with the other loops and the other publications.        *)
(***************************************************************************)
EXTENDS Naturals, FiniteSets, Sequences

CONSTANTS
    Usuarios, Unidades, Blocos,
    Vinculos,       \* <<usuario, unidade>>: active users and bonds in force
    BlocoDe,        \* the block of each unit
    Publicacoes,    \* calls of POST comunicados, retries included
    MaxCanais,      \* bound: length of the list canais, which may repeat a channel
    MaxFalhas       \* bound: failed inserts, lost answers of the mail server and crashes

ASSUME ComunicacaoAssumption ==
    /\ IsFiniteSet(Usuarios)
    /\ Vinculos \subseteq Usuarios \X Unidades
    /\ BlocoDe \in [Unidades -> Blocos]
    /\ MaxCanais \in Nat \ {0} /\ MaxFalhas \in Nat

VARIABLES
    smtp,         \* whether SMTP is configured: fixed when the process starts
    pc,           \* where each publication is, or its HTTP answer
    canais,       \* its channels
    alvo,         \* its recipients
    lacos,        \* the loop of each entry of canais: who is left, enviados, falhas
    resultado,    \* the object resultado of disparar
    comunicados,  \* rows of comunicacao.comunicados
    aceitos,      \* how many e-mails of the publication the server took for each user
    recusas,      \* history: users for whom a sendMail rejected
    falhas        \* at most MaxFalhas

envioVars == <<canais, alvo, lacos, resultado, aceitos, recusas>>
vars == <<smtp, pc, envioVars, comunicados, falhas>>

CANAIS_VALIDOS == {"EMAIL", "WHATSAPP", "SMS"}
Listas == UNION {[1..n -> CANAIS_VALIDOS] : n \in 1..MaxCanais}
Codigos(p) == {canais[p][i] : i \in DOMAIN canais[p]}
Vezes(p) == Cardinality({i \in DOMAIN canais[p] : canais[p][i] = "EMAIL"})

Contagem == 0..Cardinality(Usuarios)
Laco == [resta : SUBSET Usuarios, enviados : Contagem, falhas : Contagem]
EnvioResultado == [destinatarios : Contagem, enviados : Contagem, falhas : Contagem]
Nenhum == <<>>

TypeOK ==
    /\ smtp \in BOOLEAN
    /\ pc \in [Publicacoes -> {"inicio", "enviando", "salvar", "evento", "400", "500", "morto"}]
    /\ canais \in [Publicacoes -> Listas \cup {Nenhum}]
    /\ alvo \in [Publicacoes -> SUBSET Usuarios]
    /\ lacos \in [Publicacoes -> Seq(Laco)]
    /\ \A p \in Publicacoes : DOMAIN lacos[p] = DOMAIN canais[p]
    /\ resultado \in [Publicacoes -> [CANAIS_VALIDOS -> EnvioResultado \cup {Nenhum}]]
    /\ comunicados \subseteq Publicacoes
    /\ aceitos \in [Publicacoes -> [Usuarios -> 0..MaxCanais]]
    /\ recusas \in [Publicacoes -> SUBSET Usuarios]
    /\ falhas \in 0..MaxFalhas

Init ==
    /\ smtp \in BOOLEAN
    /\ pc = [p \in Publicacoes |-> "inicio"]
    /\ canais = [p \in Publicacoes |-> Nenhum]
    /\ alvo = [p \in Publicacoes |-> {}]
    /\ lacos = [p \in Publicacoes |-> Nenhum]
    /\ resultado = [p \in Publicacoes |-> [c \in CANAIS_VALIDOS |-> Nenhum]]
    /\ comunicados = {}
    /\ aceitos = [p \in Publicacoes |-> [u \in Usuarios |-> 0]]
    /\ recusas = [p \in Publicacoes |-> {}]
    /\ falhas = 0

Falhar == falhas < MaxFalhas /\ falhas' = falhas + 1

-----------------------------------------------------------------------------
(* DestinatariosRepository and the channels. *)

\* SELECT DISTINCT: the users with a bond to a unit of the segment; inad are the units with an
\* open boleto past its due date.
resolver(segmento, inad) ==
    LET unidades == CASE segmento = "TODOS"         -> Unidades
                      [] segmento = "INADIMPLENTES" -> inad
                      [] OTHER                      -> {un \in Unidades : BlocoDe[un] = segmento}
    IN {v[1] : v \in {w \in Vinculos : w[2] \in unidades}}

\* What enviar of each channel starts with: WHATSAPP, SMS and EMAIL without a transporter fail
\* for everyone at once.
LacoInicial(canal, S) ==
    IF canal = "EMAIL" /\ smtp
    THEN [resta |-> S, enviados |-> 0, falhas |-> 0]
    ELSE [resta |-> {}, enviados |-> 0, falhas |-> Cardinality(S)]

Retorno(laco, S) ==
    [destinatarios |-> Cardinality(S), enviados |-> laco.enviados, falhas |-> laco.falhas]

Terminou(laco) == laco.resta = {}

\* resultado[codigo] = what the loop returned: a repeated channel writes the same key again.
\* The last loop to end resolves the Promise.all.
Avancar(p, i, laco) ==
    /\ lacos' = [lacos EXCEPT ![p][i] = laco]
    /\ resultado' = IF Terminou(laco)
                    THEN [resultado EXCEPT ![p][canais[p][i]] = Retorno(laco, alvo[p])]
                    ELSE resultado
    /\ pc' = [pc EXCEPT ![p] = IF /\ Terminou(laco)
                                  /\ \A j \in DOMAIN canais[p] \ {i} : Terminou(lacos[p][j])
                               THEN "salvar" ELSE "enviando"]

-----------------------------------------------------------------------------
(* PublicarComunicadoHandler. *)

\* An unknown segment or channel, or BLOCO without blocoId.
Recusar(p) ==
    /\ pc[p] = "inicio"
    /\ pc' = [pc EXCEPT ![p] = "400"]
    /\ UNCHANGED <<smtp, envioVars, comunicados, falhas>>

\* Mutant: a channel with nobody to write to never resolves its promise.
PublicarEEsperar(p, lista, S) ==
    /\ pc[p] = "inicio"
    /\ canais' = [canais EXCEPT ![p] = lista]
    /\ alvo' = [alvo EXCEPT ![p] = S]
    /\ lacos' = [lacos EXCEPT ![p] = [i \in DOMAIN lista |-> LacoInicial(lista[i], S)]]
    /\ pc' = [pc EXCEPT ![p] = "enviando"]
    /\ UNCHANGED <<smtp, resultado, aceitos, recusas, comunicados, falhas>>

\* The recipients are read, and disparar starts every channel.
Publicar(p, lista, S) ==
    LET inicio == [i \in DOMAIN lista |-> LacoInicial(lista[i], S)]
        prontos == {i \in DOMAIN lista : Terminou(inicio[i])}
        pronto(c) == \E i \in prontos : lista[i] = c IN
    /\ pc[p] = "inicio"
    /\ canais' = [canais EXCEPT ![p] = lista]
    /\ alvo' = [alvo EXCEPT ![p] = S]
    /\ lacos' = [lacos EXCEPT ![p] = inicio]
    /\ resultado' = [resultado EXCEPT ![p] = [c \in CANAIS_VALIDOS |->
                        IF pronto(c) THEN Retorno(LacoInicial(c, S), S) ELSE Nenhum]]
    /\ pc' = [pc EXCEPT ![p] = IF prontos = DOMAIN lista THEN "salvar" ELSE "enviando"]
    /\ UNCHANGED <<smtp, aceitos, recusas, comunicados, falhas>>

Aceitar(p, u) == aceitos' = [aceitos EXCEPT ![p][u] = @ + 1]

\* sendMail resolves.
Enviar(p, i, u) ==
    /\ pc[p] = "enviando"
    /\ u \in lacos[p][i].resta
    /\ Avancar(p, i, [lacos[p][i] EXCEPT !.resta = @ \ {u}, !.enviados = @ + 1])
    /\ Aceitar(p, u)
    /\ UNCHANGED <<smtp, canais, alvo, recusas, comunicados, falhas>>

\* Mutant: the try is around the loop, so the first rejection ends it.
FalharEnvioEParar(p, i, u) ==
    /\ pc[p] = "enviando"
    /\ u \in lacos[p][i].resta
    /\ Avancar(p, i, [lacos[p][i] EXCEPT !.resta = {}, !.falhas = @ + Cardinality(lacos[p][i].resta)])
    /\ recusas' = [recusas EXCEPT ![p] = @ \cup {u}]
    /\ UNCHANGED <<smtp, canais, alvo, aceitos, comunicados, falhas>>

\* Mutant: the catch block only writes the log.
FalharEnvioSemContar(p, i, u) ==
    /\ pc[p] = "enviando"
    /\ u \in lacos[p][i].resta
    /\ Avancar(p, i, [lacos[p][i] EXCEPT !.resta = @ \ {u}])
    /\ recusas' = [recusas EXCEPT ![p] = @ \cup {u}]
    /\ UNCHANGED <<smtp, canais, alvo, aceitos, comunicados, falhas>>

\* sendMail rejects; when the answer was lost the server has the e-mail all the same.
FalharEnvio(p, i, u) ==
    /\ pc[p] = "enviando"
    /\ u \in lacos[p][i].resta
    /\ Avancar(p, i, [lacos[p][i] EXCEPT !.resta = @ \ {u}, !.falhas = @ + 1])
    /\ recusas' = [recusas EXCEPT ![p] = @ \cup {u}]
    /\ \/ UNCHANGED <<aceitos, falhas>>
       \/ Falhar /\ Aceitar(p, u)
    /\ UNCHANGED <<smtp, canais, alvo, comunicados>>

Salvar(p) ==
    /\ pc[p] = "salvar"
    /\ comunicados' = comunicados \cup {p}
    /\ pc' = [pc EXCEPT ![p] = "evento"]
    /\ UNCHANGED <<smtp, envioVars, falhas>>

\* The insert rejects, committed or not.
FalharSalvar(p) ==
    /\ pc[p] = "salvar"
    /\ Falhar
    /\ comunicados' \in {comunicados, comunicados \cup {p}}
    /\ pc' = [pc EXCEPT ![p] = "500"]
    /\ UNCHANGED <<smtp, envioVars>>

\* The tenant of the event is a fixed text, which a uuid column refuses: everyone has been
\* notified, the comunicado is saved, and the answer is an error.
RecusarOutbox(p) ==
    /\ pc[p] = "evento"
    /\ pc' = [pc EXCEPT ![p] = "500"]
    /\ UNCHANGED <<smtp, envioVars, comunicados, falhas>>

Ativa(p) == pc[p] \in {"enviando", "salvar", "evento"}

\* The process dies: the loops are not resumed.
Queda ==
    /\ \E p \in Publicacoes : Ativa(p)
    /\ Falhar
    /\ pc' = [p \in Publicacoes |-> IF Ativa(p) THEN "morto" ELSE pc[p]]
    /\ UNCHANGED <<smtp, envioVars, comunicados>>

Passo(p) ==
    \/ \E i \in DOMAIN canais[p], u \in alvo[p] : Enviar(p, i, u) \/ FalharEnvio(p, i, u)
    \/ Salvar(p)
    \/ FalharSalvar(p)
    \/ RecusarOutbox(p)

Pedir(p) ==
    \/ Recusar(p)
    \/ \E lista \in Listas, segmento \in {"TODOS", "INADIMPLENTES"} \cup Blocos,
          inad \in SUBSET Unidades : Publicar(p, lista, resolver(segmento, inad))

Next == \/ \E p \in Publicacoes : Pedir(p) \/ Passo(p)
        \/ Queda

Spec == Init /\ [][Next]_vars

\* A started send or insert is answered in the end, well or badly.
FairSpec == Spec /\ \A p \in Publicacoes : WF_vars(Passo(p))

-----------------------------------------------------------------------------
(* Properties. *)

\* The report that is saved can be trusted, also when a channel is listed twice and its loops
\* write one key: each listed channel accounts for every recipient, no more e-mails are
\* reported as sent than users whose e-mail the server took, nor failures than users for whom
\* a send rejected.
ResultadoConfiavel ==
    \A p \in comunicados : \A c \in Codigos(p) :
        LET r == resultado[p][c] IN
        /\ r.destinatarios = Cardinality(alvo[p])
        /\ r.enviados + r.falhas = r.destinatarios
        /\ r.enviados <= Cardinality({u \in alvo[p] : aceitos[p][u] > 0})
        /\ c = "EMAIL" /\ smtp => r.falhas <= Cardinality(recusas[p])

\* Nobody is skipped because of somebody else: when the dispatch is over every recipient for
\* whom no send rejected has an e-mail for each time EMAIL is listed; nobody else has any.
NinguemPreterido ==
    \A p \in Publicacoes : \A u \in Usuarios :
        /\ aceitos[p][u] > 0 => u \in alvo[p] /\ smtp
        /\ aceitos[p][u] <= Vezes(p)
        /\ (pc[p] \in {"salvar", "evento"} \/ p \in comunicados)
              /\ smtp /\ u \in alvo[p] \ recusas[p] => aceitos[p][u] = Vezes(p)

\* Promise.all always resolves: a dispatch that started reaches its answer, whatever the mail
\* server rejects, unless the process dies.
PublicacaoTermina == \A p \in Publicacoes : Ativa(p) ~> ~Ativa(p)
=============================================================================
