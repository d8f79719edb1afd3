------------------------------- MODULE Senha -------------------------------
(***************************************************************************)
(* The password reset: SolicitarRedefinicaoSenhaHandler and                 *)
(* RedefinirSenhaHandler on the tables usuarios and tokens_redefinicao_senha. *)
(* Each statement commits by itself.  A request names the token it draws (its *)
(* hash is the row, the raw value travels only by e-mail); time enters only *)
(* as the set of tokens past expira_em.                                     *)
(***************************************************************************)
EXTENDS Naturals

CONSTANTS
    Usuarios,       \* active users
    Pedidos,        \* calls of POST auth/esqueci-senha
    Redefinicoes,   \* calls of POST auth/redefinir-senha, retries included
    MaxFalhas       \* bound: failed statements and crashes in a behaviour

Nenhum == <<>>

ASSUME SenhaAssumption == Nenhum \notin Pedidos \cup Redefinicoes /\ MaxFalhas \in Nat

VARIABLES
    pcP,        \* where each request for a token is, or its HTTP answer
    dono,       \* usuarioId of the token it draws
    tokens,     \* rows of identity.tokens_redefinicao_senha
    vencidos,   \* rows whose expira_em has passed
    usados,     \* rows with usado_em
    enviados,   \* tokens the mail server took
    pcR,        \* where each redefinition is, or its HTTP answer
    chave,      \* the token it presents; Nenhum is one that was never drawn
    senha,      \* the redefinition whose password each user has
    trocas,     \* history: redefinitions whose update of the password committed
    antes,      \* history: redefinitions already over when this one began
    falhas      \* failures so far, at most MaxFalhas

pedidoVars == <<pcP, dono, tokens, enviados>>
redefVars == <<pcR, chave, senha, trocas, antes, usados>>
vars == <<pedidoVars, redefVars, vencidos, falhas>>

TypeOK ==
    /\ pcP \in [Pedidos -> {"inicio", "token", "email", "200", "500", "morto"}]
    /\ dono \in [Pedidos -> Usuarios \cup {Nenhum}]
    /\ tokens \subseteq {p \in Pedidos : dono[p] \in Usuarios}
    /\ vencidos \subseteq tokens /\ usados \subseteq tokens /\ enviados \subseteq Pedidos
    /\ pcR \in [Redefinicoes -> {"inicio", "trocar", "marcar", "200", "400", "500", "morto"}]
    /\ chave \in [Redefinicoes -> Pedidos \cup {Nenhum}]
    /\ senha \in [Usuarios -> Redefinicoes \cup {Nenhum}]
    /\ trocas \subseteq Redefinicoes
    /\ antes \in [Redefinicoes -> SUBSET Redefinicoes]
    /\ falhas \in 0..MaxFalhas

Init ==
    /\ pcP = [p \in Pedidos |-> "inicio"]
    /\ dono = [p \in Pedidos |-> Nenhum]
    /\ tokens = {} /\ vencidos = {} /\ usados = {} /\ enviados = {}
    /\ pcR = [r \in Redefinicoes |-> "inicio"]
    /\ chave = [r \in Redefinicoes |-> Nenhum]
    /\ senha = [u \in Usuarios |-> Nenhum]
    /\ trocas = {}
    /\ antes = [r \in Redefinicoes |-> {}]
    /\ falhas = 0

Falhar == falhas < MaxFalhas /\ falhas' = falhas + 1

-----------------------------------------------------------------------------
(* SolicitarRedefinicaoSenhaHandler. *)

BuscarUsuario(p, u) ==
    /\ pcP[p] = "inicio"
    /\ dono' = [dono EXCEPT ![p] = u]
    /\ pcP' = [pcP EXCEPT ![p] = "token"]
    /\ UNCHANGED <<tokens, enviados, redefVars, vencidos, falhas>>

\* No active user has the e-mail: the same answer.
Desconhecido(p) ==
    /\ pcP[p] = "inicio"
    /\ pcP' = [pcP EXCEPT ![p] = "200"]
    /\ UNCHANGED <<dono, tokens, enviados, redefVars, vencidos, falhas>>

\* Mutant: the save is not awaited, and may not have happened.
SalvarTokenSemEsperar(p) ==
    /\ pcP[p] = "token"
    /\ tokens' \in {tokens, tokens \cup {p}}
    /\ pcP' = [pcP EXCEPT ![p] = "email"]
    /\ UNCHANGED <<dono, enviados, redefVars, vencidos, falhas>>

SalvarToken(p) ==
    /\ pcP[p] = "token"
    /\ tokens' = tokens \cup {p}
    /\ pcP' = [pcP EXCEPT ![p] = "email"]
    /\ UNCHANGED <<dono, enviados, redefVars, vencidos, falhas>>

\* The insert rejects, committed or not.
FalharToken(p) ==
    /\ pcP[p] = "token"
    /\ Falhar
    /\ tokens' \in {tokens, tokens \cup {p}}
    /\ pcP' = [pcP EXCEPT ![p] = "500"]
    /\ UNCHANGED <<dono, enviados, redefVars, vencidos>>

\* MailerService.enviar catches every error: sent or not, the answer is 200.
Enviar(p) ==
    /\ pcP[p] = "email"
    /\ enviados' \in {enviados, enviados \cup {p}}
    /\ pcP' = [pcP EXCEPT ![p] = "200"]
    /\ UNCHANGED <<dono, tokens, redefVars, vencidos, falhas>>

\* VALIDADE_HORAS have passed.
Vencer(t) ==
    /\ t \in tokens \ vencidos
    /\ vencidos' = vencidos \cup {t}
    /\ UNCHANGED <<pedidoVars, redefVars, falhas>>

-----------------------------------------------------------------------------
(* RedefinirSenhaHandler. *)

Terminadas == {r \in Redefinicoes : pcR[r] \in {"200", "400", "500", "morto"}}

\* findOne by the hash; missing, used or expired is a 400.
BuscarToken(r, t) ==
    /\ pcR[r] = "inicio"
    /\ chave' = [chave EXCEPT ![r] = t]
    /\ antes' = [antes EXCEPT ![r] = Terminadas]
    /\ pcR' = [pcR EXCEPT ![r] = IF t \in tokens \ (usados \cup vencidos) THEN "trocar" ELSE "400"]
    /\ UNCHANGED <<pedidoVars, senha, trocas, usados, vencidos, falhas>>

\* The update of usuarios.
Trocar(r) ==
    /\ senha' = [senha EXCEPT ![dono[chave[r]]] = r]
    /\ trocas' = trocas \cup {r}

\* Mutant: the update is not awaited, and may not have happened.
TrocarSenhaSemEsperar(r) ==
    /\ pcR[r] = "trocar"
    /\ UNCHANGED <<senha, trocas>> \/ Trocar(r)
    /\ pcR' = [pcR EXCEPT ![r] = "marcar"]
    /\ UNCHANGED <<pedidoVars, chave, antes, usados, vencidos, falhas>>

\* bcrypt.hash, then the update of the password, whatever happened to the token since.
TrocarSenha(r) ==
    /\ pcR[r] = "trocar"
    /\ Trocar(r)
    /\ pcR' = [pcR EXCEPT ![r] = "marcar"]
    /\ UNCHANGED <<pedidoVars, chave, antes, usados, vencidos, falhas>>

FalharTroca(r) ==
    /\ pcR[r] = "trocar"
    /\ Falhar
    /\ UNCHANGED <<senha, trocas>> \/ Trocar(r)
    /\ pcR' = [pcR EXCEPT ![r] = "500"]
    /\ UNCHANGED <<pedidoVars, chave, antes, usados, vencidos>>

\* Mutant: the update is not awaited, and may not have happened.
MarcarUsadoSemEsperar(r) ==
    /\ pcR[r] = "marcar"
    /\ usados' \in {usados, usados \cup {chave[r]}}
    /\ pcR' = [pcR EXCEPT ![r] = "200"]
    /\ UNCHANGED <<pedidoVars, chave, senha, trocas, antes, vencidos, falhas>>

\* The update of usado_em, and the answer.
MarcarUsado(r) ==
    /\ pcR[r] = "marcar"
    /\ usados' = usados \cup {chave[r]}
    /\ pcR' = [pcR EXCEPT ![r] = "200"]
    /\ UNCHANGED <<pedidoVars, chave, senha, trocas, antes, vencidos, falhas>>

FalharMarca(r) ==
    /\ pcR[r] = "marcar"
    /\ Falhar
    /\ usados' \in {usados, usados \cup {chave[r]}}
    /\ pcR' = [pcR EXCEPT ![r] = "500"]
    /\ UNCHANGED <<pedidoVars, chave, senha, trocas, antes, vencidos>>

\* The process dies: the calls in progress are never answered.
Queda ==
    /\ \/ \E p \in Pedidos : pcP[p] \in {"token", "email"}
       \/ \E r \in Redefinicoes : pcR[r] \in {"trocar", "marcar"}
    /\ Falhar
    /\ pcP' = [p \in Pedidos |-> IF pcP[p] \in {"token", "email"} THEN "morto" ELSE pcP[p]]
    /\ pcR' = [r \in Redefinicoes |-> IF pcR[r] \in {"trocar", "marcar"} THEN "morto" ELSE pcR[r]]
    /\ UNCHANGED <<dono, tokens, enviados, chave, senha, trocas, antes, usados, vencidos>>

Pedido(p) ==
    \/ \E u \in Usuarios : BuscarUsuario(p, u)
    \/ Desconhecido(p)
    \/ SalvarToken(p)
    \/ FalharToken(p)
    \/ Enviar(p)

\* Who presents a drawn token has it from an e-mail.
Redefinicao(r) ==
    \/ \E t \in enviados \cup {Nenhum} : BuscarToken(r, t)
    \/ TrocarSenha(r)
    \/ FalharTroca(r)
    \/ MarcarUsado(r)
    \/ FalharMarca(r)

Next ==
    \/ \E p \in Pedidos : Pedido(p)
    \/ \E t \in Pedidos : Vencer(t)
    \/ \E r \in Redefinicoes : Redefinicao(r)
    \/ Queda

Spec == Init /\ [][Next]_vars

-----------------------------------------------------------------------------
(* Properties. *)

\* A token changes the password twice only when the calls overlapped or the first was cut
\* short: the check and the mark are apart, but a call that begins after a 200 with the same
\* token changes nothing.
UsoRepetidoExplicado ==
    \A r \in trocas : \A q \in antes[r] \cap trocas :
        chave[q] = chave[r] => pcR[q] \in {"500", "morto"}

\* Nobody is refused for nothing: a link that arrived by e-mail fails only once it has
\* expired, or because another call did change the password with it.
RecusaJustificada ==
    \A r \in Redefinicoes : pcR[r] = "400" /\ chave[r] \in enviados =>
        \/ chave[r] \in vencidos
        \/ \E q \in trocas \ {r} : chave[q] = chave[r]

\* After a 200 the password is the one of the call, or of a call that ended later than the
\* beginning of this one: never one that was already old, never the original.
SenhaEmVigor ==
    \A r \in Redefinicoes : pcR[r] = "200" =>
        senha[dono[chave[r]]] \in Redefinicoes \ antes[r]

\* From the comment of the handler: a token is for one use.
UsoUnico == \A r, q \in trocas : chave[r] = chave[q] => r = q
=============================================================================
