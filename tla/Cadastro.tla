------------------------------ MODULE Cadastro ------------------------------
(***************************************************************************)
(* Accounts of the identity and condominios modules: RegistrarClienteHandler, *)
(* CadastrarCondominioHandler, LoginHandler and RefreshTokenHandler, on the *)
(* tables tenants, usuarios, condominios and usuarios_papeis.               *)
(*                                                                         *)
(* Each statement commits by itself, except the two inserts that end a      *)
(* registration, which are one transaction.  The tenant and the user that a *)
(* registration inserts are named by the call.  The only role these         *)
(* handlers give is ADMIN_TENANT, so a token carries it or carries none.    *)
(***************************************************************************)
EXTENDS Naturals, FiniteSets

CONSTANTS
    Registros,   \* calls of POST auth/registrar, retries included
    Cnpjs,
    Emails,
    Criacoes,    \* calls of POST condominios
    Sessoes,     \* calls of POST auth/login and auth/refresh
    MaxFalhas    \* bound: failed statements and crashes in a behaviour

ASSUME CadastroAssumption ==
    /\ Registros \cap Criacoes = {}
    /\ MaxFalhas \in Nat

Nenhum == <<>>

VARIABLES
    pcR,          \* where each registration is: its next step, or its HTTP answer
    dados,        \* the cnpj and the e-mail it was given
    tenants,      \* rows of identity.tenants
    concorrentes, \* history: the registrations in progress when its e-mail was looked up
    usuarios,     \* rows of identity.usuarios; a user has the tenant of the same call
    condominios,  \* rows of condo.condominios
    papeis,       \* rows of identity.usuarios_papeis
    pcC,          \* where each creation of a condominio is
    autor,        \* the user who asks for it
    pcS,          \* where each login or refresh is
    quem,         \* its user
    token,        \* the role its tokens carry
    respondido,   \* history: a call that gives its user a role had been answered when it began
    falhas        \* failures so far, at most MaxFalhas

registroVars == <<pcR, dados, concorrentes, tenants, usuarios>>
criacaoVars == <<pcC, autor>>
sessaoVars == <<pcS, quem, token, respondido>>
vars == <<registroVars, condominios, papeis, criacaoVars, sessaoVars, falhas>>

Dados == [cnpj : Cnpjs, email : Emails]
Condominio == [id : Registros \cup Criacoes, tenant : Registros]
Papel == [usuario : Registros, condominio : Registros \cup Criacoes]

TypeOK ==
    /\ pcR \in [Registros -> {"inicio", "cnpj", "tenant", "usuario", "vinculo",
                              "201", "409", "500", "morto"}]
    /\ dados \in [Registros -> Dados \cup {Nenhum}]
    /\ concorrentes \in [Registros -> SUBSET Registros]
    /\ tenants \subseteq Registros /\ usuarios \subseteq tenants
    /\ condominios \subseteq Condominio
    /\ papeis \subseteq Papel
    /\ pcC \in [Criacoes -> {"inicio", "vinculo", "201", "500", "morto"}]
    /\ autor \in [Criacoes -> Registros \cup {Nenhum}]
    /\ pcS \in [Sessoes -> {"inicio", "papeis", "contando", "200", "401", "morto"}]
    /\ quem \in [Sessoes -> Registros \cup {Nenhum}]
    /\ token \in [Sessoes -> {"nenhum", "ADMIN_TENANT"}]
    /\ respondido \in [Sessoes -> BOOLEAN]
    /\ falhas \in 0..MaxFalhas

Init ==
    /\ pcR = [r \in Registros |-> "inicio"]
    /\ dados = [r \in Registros |-> Nenhum]
    /\ concorrentes = [r \in Registros |-> {}]
    /\ tenants = {} /\ usuarios = {}
    /\ condominios = {} /\ papeis = {}
    /\ pcC = [c \in Criacoes |-> "inicio"]
    /\ autor = [c \in Criacoes |-> Nenhum]
    /\ pcS = [s \in Sessoes |-> "inicio"]
    /\ quem = [s \in Sessoes |-> Nenhum]
    /\ token = [s \in Sessoes |-> "nenhum"]
    /\ respondido = [s \in Sessoes |-> FALSE]
    /\ falhas = 0

Falhar == falhas < MaxFalhas /\ falhas' = falhas + 1

ComEmail(e) == {u \in usuarios : dados[u].email = e}
ComCnpj(k) == {t \in tenants : dados[t].cnpj = k}
PapeisDe(u) == {p \in papeis : p.usuario = u}
CondominiosDe(t) == {k \in condominios : k.tenant = t}

-----------------------------------------------------------------------------
(* RegistrarClienteHandler. *)

Registrando == {"cnpj", "tenant", "usuario", "vinculo"}
EmAndamento == {r \in Registros : pcR[r] \in Registrando}

\* Mutant: the e-mail is looked up in the new tenant only, as the constraint of the table does.
VerificarEmailPorTenant(r, d) ==
    /\ pcR[r] = "inicio"
    /\ dados' = [dados EXCEPT ![r] = d]
    /\ concorrentes' = [concorrentes EXCEPT ![r] = EmAndamento]
    /\ pcR' = [pcR EXCEPT ![r] = "cnpj"]
    /\ UNCHANGED <<tenants, usuarios, condominios, papeis, criacaoVars, sessaoVars, falhas>>

\* emailExistente: the e-mail in any tenant.
VerificarEmail(r, d) ==
    /\ pcR[r] = "inicio"
    /\ dados' = [dados EXCEPT ![r] = d]
    /\ concorrentes' = [concorrentes EXCEPT ![r] = EmAndamento]
    /\ pcR' = [pcR EXCEPT ![r] = IF ComEmail(d.email) = {} THEN "cnpj" ELSE "409"]
    /\ UNCHANGED <<tenants, usuarios, condominios, papeis, criacaoVars, sessaoVars, falhas>>

\* cnpjExistente.
VerificarCnpj(r) ==
    /\ pcR[r] = "cnpj"
    /\ pcR' = [pcR EXCEPT ![r] = IF ComCnpj(dados[r].cnpj) = {} THEN "tenant" ELSE "409"]
    /\ UNCHANGED <<dados, concorrentes, tenants, usuarios, condominios, papeis, criacaoVars, sessaoVars, falhas>>

\* Mutant: cnpj without UNIQUE.
SalvarTenantSemUnique(r) ==
    /\ pcR[r] = "tenant"
    /\ pcR' = [pcR EXCEPT ![r] = "usuario"]
    /\ tenants' = tenants \cup {r}
    /\ UNCHANGED <<dados, concorrentes, usuarios, condominios, papeis, criacaoVars, sessaoVars, falhas>>

\* Mutant: error 23505 is not told from the others.
SalvarTenant409(r) ==
    /\ pcR[r] = "tenant"
    /\ pcR' = [pcR EXCEPT ![r] = "409"]
    /\ \/ ComCnpj(dados[r].cnpj) # {} /\ UNCHANGED <<tenants, falhas>>
       \/ Falhar /\ UNCHANGED tenants
    /\ UNCHANGED <<dados, concorrentes, usuarios, condominios, papeis, criacaoVars, sessaoVars>>

\* The insert of the tenant, with UNIQUE (cnpj): error 23505 becomes a 409.
SalvarTenant(r) ==
    /\ pcR[r] = "tenant"
    /\ IF ComCnpj(dados[r].cnpj) # {}
       THEN pcR' = [pcR EXCEPT ![r] = "409"] /\ UNCHANGED tenants
       ELSE pcR' = [pcR EXCEPT ![r] = "usuario"] /\ tenants' = tenants \cup {r}
    /\ UNCHANGED <<dados, concorrentes, usuarios, condominios, papeis, criacaoVars, sessaoVars, falhas>>

\* The insert of the user: UNIQUE (tenant_id, email) cannot fail in a fresh tenant.
SalvarUsuario(r) ==
    /\ pcR[r] = "usuario"
    /\ usuarios' = usuarios \cup {r}
    /\ pcR' = [pcR EXCEPT ![r] = "vinculo"]
    /\ UNCHANGED <<dados, concorrentes, tenants, condominios, papeis, criacaoVars, sessaoVars, falhas>>

\* One of the two saves rejects with another error, committed or not.
FalharRegistro(r) ==
    /\ pcR[r] \in {"tenant", "usuario"}
    /\ Falhar
    /\ \/ UNCHANGED <<tenants, usuarios>>
       \/ /\ pcR[r] = "tenant" /\ ComCnpj(dados[r].cnpj) = {}
          /\ tenants' = tenants \cup {r}
          /\ UNCHANGED usuarios
       \/ /\ pcR[r] = "usuario"
          /\ usuarios' = usuarios \cup {r}
          /\ UNCHANGED tenants
    /\ pcR' = [pcR EXCEPT ![r] = "500"]
    /\ UNCHANGED <<dados, concorrentes, condominios, papeis, criacaoVars, sessaoVars>>

CondominioPadrao(r) == [id |-> r, tenant |-> r]

\* Mutant: the condominio is inserted and the role is forgotten.
VincularSemPapel(r) ==
    /\ pcR[r] = "vinculo"
    /\ condominios' = condominios \cup {CondominioPadrao(r)}
    /\ pcR' = [pcR EXCEPT ![r] = "201"]
    /\ UNCHANGED <<dados, concorrentes, tenants, usuarios, papeis, criacaoVars, sessaoVars, falhas>>

\* The transaction: the default condominio and its role; then the tokens.
Vincular(r) ==
    /\ pcR[r] = "vinculo"
    /\ condominios' = condominios \cup {CondominioPadrao(r)}
    /\ papeis' = papeis \cup {[usuario |-> r, condominio |-> r]}
    /\ pcR' = [pcR EXCEPT ![r] = "201"]
    /\ UNCHANGED <<dados, concorrentes, tenants, usuarios, criacaoVars, sessaoVars, falhas>>

\* The transaction rejects: nothing of it, or all when only its answer was lost.
FalharVinculo(r) ==
    /\ pcR[r] = "vinculo"
    /\ Falhar
    /\ \/ UNCHANGED <<condominios, papeis>>
       \/ /\ condominios' = condominios \cup {CondominioPadrao(r)}
          /\ papeis' = papeis \cup {[usuario |-> r, condominio |-> r]}
    /\ pcR' = [pcR EXCEPT ![r] = "500"]
    /\ UNCHANGED <<dados, concorrentes, tenants, usuarios, criacaoVars, sessaoVars>>

-----------------------------------------------------------------------------
(* CadastrarCondominioHandler, behind RolesGuard with @Roles('ADMIN_TENANT'). *)

\* Who holds a token with the role: from the registration or from a session.
Admins == {r \in Registros : pcR[r] = "201"}
          \cup {quem[s] : s \in {t \in Sessoes : pcS[t] = "200" /\ token[t] = "ADMIN_TENANT"}}

SalvarCondominio(c, u) ==
    /\ pcC[c] = "inicio"
    /\ autor' = [autor EXCEPT ![c] = u]
    /\ condominios' = condominios \cup {[id |-> c, tenant |-> u]}
    /\ pcC' = [pcC EXCEPT ![c] = "vinculo"]
    /\ UNCHANGED <<registroVars, papeis, sessaoVars, falhas>>

FalharCondominio(c, u) ==
    /\ pcC[c] = "inicio"
    /\ Falhar
    /\ autor' = [autor EXCEPT ![c] = u]
    /\ condominios' \in {condominios, condominios \cup {[id |-> c, tenant |-> u]}}
    /\ pcC' = [pcC EXCEPT ![c] = "500"]
    /\ UNCHANGED <<registroVars, papeis, sessaoVars>>

\* Mutant: only the first condominio of a tenant gives the role.
SalvarPapelSoDoPrimeiro(c) ==
    /\ pcC[c] = "vinculo"
    /\ papeis' = IF CondominiosDe(autor[c]) = {[id |-> c, tenant |-> autor[c]]}
                 THEN papeis \cup {[usuario |-> autor[c], condominio |-> c]} ELSE papeis
    /\ pcC' = [pcC EXCEPT ![c] = "201"]
    /\ UNCHANGED <<registroVars, condominios, autor, sessaoVars, falhas>>

\* The second statement: the role of the author in the new condominio.
SalvarPapel(c) ==
    /\ pcC[c] = "vinculo"
    /\ papeis' = papeis \cup {[usuario |-> autor[c], condominio |-> c]}
    /\ pcC' = [pcC EXCEPT ![c] = "201"]
    /\ UNCHANGED <<registroVars, condominios, autor, sessaoVars, falhas>>

FalharPapel(c) ==
    /\ pcC[c] = "vinculo"
    /\ Falhar
    /\ papeis' \in {papeis, papeis \cup {[usuario |-> autor[c], condominio |-> c]}}
    /\ pcC' = [pcC EXCEPT ![c] = "500"]
    /\ UNCHANGED <<registroVars, condominios, autor, sessaoVars>>

-----------------------------------------------------------------------------
(* LoginHandler and RefreshTokenHandler: the same two queries once the user is known. *)

\* The user of the credentials or of the refresh token is found, and the password is right.
Identificar(s, u) ==
    /\ pcS[s] = "inicio"
    /\ quem' = [quem EXCEPT ![s] = u]
    /\ respondido' = [respondido EXCEPT ![s] =
                         pcR[u] = "201" \/ \E c \in Criacoes : autor[c] = u /\ pcC[c] = "201"]
    /\ pcS' = [pcS EXCEPT ![s] = "papeis"]
    /\ UNCHANGED <<registroVars, condominios, papeis, criacaoVars, token, falhas>>

\* No such user, a wrong password or a bad token.
Recusar(s) ==
    /\ pcS[s] = "inicio"
    /\ pcS' = [pcS EXCEPT ![s] = "401"]
    /\ UNCHANGED <<registroVars, condominios, papeis, criacaoVars, quem, token, respondido, falhas>>

\* userRoles.
LerPapeis(s) ==
    /\ pcS[s] = "papeis"
    /\ IF PapeisDe(quem[s]) # {}
       THEN /\ pcS' = [pcS EXCEPT ![s] = "200"]
            /\ token' = [token EXCEPT ![s] = "ADMIN_TENANT"]
       ELSE pcS' = [pcS EXCEPT ![s] = "contando"] /\ UNCHANGED token
    /\ UNCHANGED <<registroVars, condominios, papeis, criacaoVars, quem, respondido, falhas>>

\* Mutant: the condominios of every tenant are counted.
ContarTodosCondominios(s) ==
    /\ pcS[s] = "contando"
    /\ token' = [token EXCEPT ![s] = IF condominios = {} THEN "ADMIN_TENANT" ELSE "nenhum"]
    /\ pcS' = [pcS EXCEPT ![s] = "200"]
    /\ UNCHANGED <<registroVars, condominios, papeis, criacaoVars, quem, respondido, falhas>>

\* Fallback of the onboarding: no role and no condominio in the tenant.
ContarCondominios(s) ==
    /\ pcS[s] = "contando"
    /\ token' = [token EXCEPT ![s] = IF CondominiosDe(quem[s]) = {} THEN "ADMIN_TENANT"
                                     ELSE "nenhum"]
    /\ pcS' = [pcS EXCEPT ![s] = "200"]
    /\ UNCHANGED <<registroVars, condominios, papeis, criacaoVars, quem, respondido, falhas>>

-----------------------------------------------------------------------------
Quieto ==
    /\ \A r \in Registros : pcR[r] \notin Registrando
    /\ \A c \in Criacoes : pcC[c] # "vinculo"

\* The process dies: the calls in progress are never answered.
Queda ==
    /\ ~Quieto
    /\ Falhar
    /\ pcR' = [r \in Registros |-> IF pcR[r] \in Registrando THEN "morto" ELSE pcR[r]]
    /\ pcC' = [c \in Criacoes |-> IF pcC[c] = "vinculo" THEN "morto" ELSE pcC[c]]
    /\ pcS' = [s \in Sessoes |-> IF pcS[s] \in {"papeis", "contando"} THEN "morto" ELSE pcS[s]]
    /\ UNCHANGED <<dados, concorrentes, tenants, usuarios, condominios, papeis, autor, quem,
                   token, respondido>>

Registro(r) ==
    \/ \E d \in Dados : VerificarEmail(r, d)
    \/ VerificarCnpj(r)
    \/ SalvarTenant(r)
    \/ SalvarUsuario(r)
    \/ FalharRegistro(r)
    \/ Vincular(r)
    \/ FalharVinculo(r)

Criacao(c) ==
    \/ \E u \in Admins : SalvarCondominio(c, u) \/ FalharCondominio(c, u)
    \/ SalvarPapel(c)
    \/ FalharPapel(c)

Sessao(s) ==
    \/ \E u \in usuarios : Identificar(s, u)
    \/ Recusar(s)
    \/ LerPapeis(s)
    \/ ContarCondominios(s)

Next ==
    \/ \E r \in Registros : Registro(r)
    \/ \E c \in Criacoes : Criacao(c)
    \/ \E s \in Sessoes : Sessao(s)
    \/ Queda

Spec == Init /\ [][Next]_vars

-----------------------------------------------------------------------------
(* Properties. *)

\* A cnpj belongs to one tenant, however many registrations of it race between the check
\* and the insert.
CnpjUnico == \A t, s \in tenants : dados[t].cnpj = dados[s].cnpj => t = s

\* A registration refused with 409 left nothing behind, and the conflict is real: another
\* call holds its e-mail or its cnpj.
RecusaVerdadeira ==
    \A r \in Registros : pcR[r] = "409" =>
        /\ r \notin tenants
        /\ ComEmail(dados[r].email) \cup ComCnpj(dados[r].cnpj) # {}

\* No role, and a condominio that switches the fallback off: the login gives no role any
\* more, and without it no condominio can be created.
Trancado(u) == PapeisDe(u) = {} /\ CondominiosDe(u) # {}

\* It takes an interrupted registration and an interrupted creation.
Interrompido(u) ==
    /\ pcR[u] \in {"500", "morto"}
    /\ \E c \in Criacoes : autor[c] = u /\ pcC[c] \in {"500", "morto"}

\* Nobody is locked out by interleavings alone, and nobody whose registration was answered
\* is ever locked out.
TrancadoSoComFalhas == Quieto => \A u \in usuarios : Trancado(u) => Interrompido(u)

\* Roles and condominios are read by two queries, while a registration or a creation may
\* commit both in between: the role is missed and its condominio counted.  Only that, or a
\* failure, makes tokens without the role: the user has a condominio, and no call that gives
\* the role had been answered when the login or refresh began.  And it passes: when no call
\* is in progress the user has a role for the next login, or was locked out by failures.
SemPapelExplicado ==
    \A s \in Sessoes : pcS[s] = "200" /\ token[s] = "nenhum" =>
        /\ CondominiosDe(quem[s]) # {}
        /\ ~respondido[s]
        /\ Quieto => PapeisDe(quem[s]) # {} \/ Interrompido(quem[s])

\* An e-mail has two accounts only when their registrations overlapped: nothing but the
\* time between the lookup and the insert lets a second one in.
EmailRepetidoSoComCorrida ==
    \A u, w \in usuarios : u # w /\ dados[u].email = dados[w].email =>
        u \in concorrentes[w] \/ w \in concorrentes[u]

\* A registration ends whole or says that it did not: a tenant without its user or without
\* its default condominio is in progress, failed or interrupted, and never has the
\* condominio without the role that makes it reachable, or the role alone.
RegistroInteiro ==
    \A t \in tenants :
        /\ t \notin usuarios \/ CondominioPadrao(t) \notin condominios =>
               pcR[t] \in {"usuario", "vinculo", "500", "morto"}
        /\ CondominioPadrao(t) \in condominios <=> [usuario |-> t, condominio |-> t] \in papeis
=============================================================================
