--------------------------- MODULE CadastroProofs ---------------------------
(***************************************************************************)
(* Proofs about Cadastro, for every set of calls and every number of        *)
(* failures.                                                               *)
(*                                                                         *)
(* The properties look at the end of a call; the invariant says what each   *)
(* step of a call has already stored (RegistrosCoerentes), what a session   *)
(* knows of its user (SessoesCoerentes), and where each condominio comes    *)
(* from: its tenant has a role, or its creation has not given one           *)
(* (CondominiosExplicados).  CorridasVistas carries the race of the e-mails  *)
(* from the lookup to the insert; RegistrosInteiros the rows of each step.   *)
(***************************************************************************)
EXTENDS Cadastro, TLAPS

\* What a registration has stored, from its step or its answer.
RegistrosCoerentes ==
    \A r \in Registros :
        /\ pcR[r] # "inicio" => dados[r] \in Dados
        /\ pcR[r] \in {"inicio", "cnpj", "tenant", "409"} => r \notin tenants
        /\ pcR[r] \in {"usuario", "vinculo", "201"} => r \in tenants
        /\ pcR[r] \in {"inicio", "cnpj", "tenant", "usuario", "409"} => r \notin usuarios
        /\ pcR[r] = "201" => PapeisDe(r) # {}

\* A session in progress has its user; one that began after a call that gave the role was
\* answered never reaches the count of the condominios, and one left without a role counted.
SessoesCoerentes ==
    \A s \in Sessoes :
        /\ pcS[s] \in {"papeis", "contando", "200"} => quem[s] \in usuarios
        /\ respondido[s] /\ pcS[s] = "papeis" => PapeisDe(quem[s]) # {}
        /\ pcS[s] = "contando" => ~respondido[s]
        /\ pcS[s] = "200" /\ token[s] = "nenhum" =>
               ~respondido[s] /\ CondominiosDe(quem[s]) # {}

\* A condominio came with the registration of its tenant, which gave the role as well,
\* or from a creation, which gave it if it was answered.
CondominiosExplicados ==
    /\ \A c \in Criacoes : /\ pcC[c] = "vinculo" => autor[c] \in Registros
                           /\ pcC[c] = "201" => PapeisDe(autor[c]) # {}
    /\ \A k \in condominios :
        \/ PapeisDe(k.tenant) # {}
        \/ /\ k.id \in Criacoes
           /\ autor[k.id] = k.tenant
           /\ pcC[k.id] \in {"vinculo", "500", "morto"}

\* Registrations past the lookup of the e-mail that have a user or may still get one.
ComUsuarioOuQuase == usuarios \cup {r \in Registros : pcR[r] \in {"cnpj", "tenant", "usuario"}}

\* Of two such registrations of an e-mail one saw the other in progress.
CorridasVistas ==
    \A u, w \in ComUsuarioOuQuase : u # w /\ dados[u].email = dados[w].email =>
        u \in concorrentes[w] \/ w \in concorrentes[u]

\* The rows of a registration, by its step: the condominio and its role come together.
RegistrosInteiros ==
    \A r \in Registros :
        /\ pcR[r] \in {"vinculo", "201"} => r \in usuarios
        /\ pcR[r] = "201" => CondominioPadrao(r) \in condominios
        /\ CondominioPadrao(r) \in condominios <=> [usuario |-> r, condominio |-> r] \in papeis

IInv ==
    /\ TypeOK
    /\ RegistrosCoerentes /\ SessoesCoerentes /\ CondominiosExplicados
    /\ CnpjUnico /\ RecusaVerdadeira
    /\ CorridasVistas /\ RegistrosInteiros

-----------------------------------------------------------------------------
\* Rows of usuarios_papeis are only added, so a user keeps having a role.
LEMMA PapeisFicam ==
    ASSUME papeis \subseteq papeis'
    PROVE  \A u : PapeisDe(u) # {} => PapeisDe(u)' # {}
BY DEF PapeisDe

\* The user of a new row has a role.
LEMMA PapelDado ==
    ASSUME NEW u, NEW k, [usuario |-> u, condominio |-> k] \in papeis'
    PROVE  PapeisDe(u)' # {}
<1>1. [usuario |-> u, condominio |-> k].usuario = u
  OBVIOUS
<1> QED
  BY <1>1 DEF PapeisDe

\* Who may create a condominio is a user.
LEMMA AdminsUsuarios ==
    ASSUME IInv
    PROVE  Admins \subseteq Registros
BY DEF IInv, Admins, TypeOK, SessoesCoerentes

\* A step of the other handlers takes no role and no condominio from the user of a session.
LEMMA SessoesFicam ==
    ASSUME IInv, UNCHANGED sessaoVars,
           papeis \subseteq papeis', condominios \subseteq condominios',
           usuarios \subseteq usuarios'
    PROVE  SessoesCoerentes'
<1>1. \A t : CondominiosDe(t) # {} => CondominiosDe(t)' # {}
  BY DEF CondominiosDe
<1> QED
  BY <1>1, PapeisFicam DEF IInv, SessoesCoerentes, sessaoVars

LEMMA InitIInv == Init => IInv
BY CadastroAssumption
   DEF Init, IInv, TypeOK, RegistrosCoerentes, SessoesCoerentes, CondominiosExplicados,
       CnpjUnico, RecusaVerdadeira, CorridasVistas,
       ComUsuarioOuQuase, RegistrosInteiros

-----------------------------------------------------------------------------
(* RegistrarClienteHandler. *)

LEMMA VerificarEmailIInv ==
    ASSUME IInv, NEW r \in Registros, NEW d \in Dados, VerificarEmail(r, d)
    PROVE  IInv'
<1>1. TypeOK'
  BY DEF IInv, VerificarEmail, TypeOK, RegistrosCoerentes, EmAndamento, criacaoVars,
         sessaoVars
<1>2. RegistrosCoerentes'
  BY DEF IInv, VerificarEmail, TypeOK, RegistrosCoerentes, PapeisDe
<1>3. SessoesCoerentes'
  BY SessoesFicam DEF VerificarEmail
<1>4. CondominiosExplicados'
  BY DEF IInv, VerificarEmail, CondominiosExplicados, PapeisDe, criacaoVars
<1>5. CnpjUnico' /\ RecusaVerdadeira'
  BY DEF IInv, VerificarEmail, TypeOK, RegistrosCoerentes, CnpjUnico, RecusaVerdadeira,
         ComCnpj, ComEmail
<1>8. CorridasVistas'
  BY DEF IInv, VerificarEmail, TypeOK, RegistrosCoerentes, CorridasVistas,
         ComUsuarioOuQuase,
         EmAndamento, Registrando, ComEmail
<1>9. RegistrosInteiros'
  BY DEF IInv, VerificarEmail, TypeOK, RegistrosCoerentes, RegistrosInteiros,
         CondominioPadrao
<1> QED
  BY <1>1, <1>2, <1>3, <1>4, <1>5, <1>8, <1>9 DEF IInv

LEMMA VerificarCnpjIInv ==
    ASSUME IInv, NEW r \in Registros, VerificarCnpj(r)
    PROVE  IInv'
<1>1. TypeOK'
  BY DEF IInv, VerificarCnpj, TypeOK, RegistrosCoerentes, criacaoVars, sessaoVars
<1>2. RegistrosCoerentes'
  BY DEF IInv, VerificarCnpj, TypeOK, RegistrosCoerentes, PapeisDe
<1>3. SessoesCoerentes'
  BY SessoesFicam DEF VerificarCnpj
<1>4. CondominiosExplicados'
  BY DEF IInv, VerificarCnpj, CondominiosExplicados, PapeisDe, criacaoVars
<1>5. CnpjUnico' /\ RecusaVerdadeira'
  BY DEF IInv, VerificarCnpj, TypeOK, RegistrosCoerentes, CnpjUnico, RecusaVerdadeira,
         ComCnpj, ComEmail
<1>8. CorridasVistas'
  BY DEF IInv, VerificarCnpj, TypeOK, RegistrosCoerentes, CorridasVistas,
         ComUsuarioOuQuase
<1>9. RegistrosInteiros'
  BY DEF IInv, VerificarCnpj, TypeOK, RegistrosCoerentes, RegistrosInteiros,
         CondominioPadrao
<1> QED
  BY <1>1, <1>2, <1>3, <1>4, <1>5, <1>8, <1>9 DEF IInv

LEMMA SalvarTenantIInv ==
    ASSUME IInv, NEW r \in Registros, SalvarTenant(r)
    PROVE  IInv'
<1>1. TypeOK'
  BY DEF IInv, SalvarTenant, TypeOK, RegistrosCoerentes, criacaoVars, sessaoVars
<1>2. RegistrosCoerentes'
  BY DEF IInv, SalvarTenant, TypeOK, RegistrosCoerentes, PapeisDe
<1>3. SessoesCoerentes'
  BY SessoesFicam DEF SalvarTenant
<1>4. CondominiosExplicados'
  BY DEF IInv, SalvarTenant, CondominiosExplicados, PapeisDe, criacaoVars
<1>5. CnpjUnico' /\ RecusaVerdadeira'
  BY DEF IInv, SalvarTenant, TypeOK, RegistrosCoerentes, CnpjUnico, RecusaVerdadeira,
         ComCnpj, ComEmail
<1>8. CorridasVistas'
  BY DEF IInv, SalvarTenant, TypeOK, RegistrosCoerentes, CorridasVistas,
         ComUsuarioOuQuase
<1>9. RegistrosInteiros'
  BY DEF IInv, SalvarTenant, TypeOK, RegistrosCoerentes, RegistrosInteiros,
         CondominioPadrao
<1> QED
  BY <1>1, <1>2, <1>3, <1>4, <1>5, <1>8, <1>9 DEF IInv

LEMMA SalvarUsuarioIInv ==
    ASSUME IInv, NEW r \in Registros, SalvarUsuario(r)
    PROVE  IInv'
<1>1. TypeOK'
  BY DEF IInv, SalvarUsuario, TypeOK, RegistrosCoerentes, criacaoVars, sessaoVars
<1>2. RegistrosCoerentes'
  BY DEF IInv, SalvarUsuario, TypeOK, RegistrosCoerentes, PapeisDe
<1>3. SessoesCoerentes'
  BY SessoesFicam DEF SalvarUsuario
<1>4. CondominiosExplicados'
  BY DEF IInv, SalvarUsuario, CondominiosExplicados, PapeisDe, criacaoVars
<1>5. CnpjUnico' /\ RecusaVerdadeira'
  BY DEF IInv, SalvarUsuario, TypeOK, RegistrosCoerentes, CnpjUnico, RecusaVerdadeira,
         ComCnpj, ComEmail
<1>8. CorridasVistas'
  BY DEF IInv, SalvarUsuario, TypeOK, RegistrosCoerentes, CorridasVistas,
         ComUsuarioOuQuase
<1>9. RegistrosInteiros'
  BY DEF IInv, SalvarUsuario, TypeOK, RegistrosCoerentes, RegistrosInteiros,
         CondominioPadrao
<1> QED
  BY <1>1, <1>2, <1>3, <1>4, <1>5, <1>8, <1>9 DEF IInv

LEMMA FalharRegistroIInv ==
    ASSUME IInv, NEW r \in Registros, FalharRegistro(r)
    PROVE  IInv'
<1>1. TypeOK'
  BY CadastroAssumption
     DEF IInv, FalharRegistro, TypeOK, RegistrosCoerentes, Falhar, criacaoVars,
         sessaoVars
<1>2. RegistrosCoerentes'
  BY DEF IInv, FalharRegistro, TypeOK, RegistrosCoerentes, PapeisDe
<1>3. SessoesCoerentes'
  BY SessoesFicam DEF FalharRegistro
<1>4. CondominiosExplicados'
  BY DEF IInv, FalharRegistro, CondominiosExplicados, PapeisDe, criacaoVars
<1>5. CnpjUnico' /\ RecusaVerdadeira'
  BY DEF IInv, FalharRegistro, TypeOK, RegistrosCoerentes, CnpjUnico, RecusaVerdadeira,
         ComCnpj, ComEmail
<1>8. CorridasVistas'
  BY DEF IInv, FalharRegistro, TypeOK, RegistrosCoerentes, CorridasVistas,
         ComUsuarioOuQuase
<1>9. RegistrosInteiros'
  BY DEF IInv, FalharRegistro, TypeOK, RegistrosCoerentes, RegistrosInteiros,
         CondominioPadrao
<1> QED
  BY <1>1, <1>2, <1>3, <1>4, <1>5, <1>8, <1>9 DEF IInv

LEMMA VincularIInv ==
    ASSUME IInv, NEW r \in Registros, Vincular(r)
    PROVE  IInv'
<1>1. papeis \subseteq papeis'
  BY DEF Vincular
<1>2. PapeisDe(r)' # {}
  BY PapelDado DEF Vincular
<1>3. TypeOK'
  BY DEF IInv, Vincular, TypeOK, RegistrosCoerentes, CondominioPadrao, Condominio,
         Papel, criacaoVars, sessaoVars
<1>4. RegistrosCoerentes'
  BY <1>1, <1>2, PapeisFicam DEF IInv, Vincular, TypeOK, RegistrosCoerentes
<1>5. SessoesCoerentes'
  BY SessoesFicam DEF Vincular
<1>6. CondominiosExplicados'
  BY <1>1, <1>2, PapeisFicam
     DEF IInv, Vincular, CondominiosExplicados, CondominioPadrao, criacaoVars
<1>7. CnpjUnico' /\ RecusaVerdadeira'
  BY DEF IInv, Vincular, TypeOK, RegistrosCoerentes, CnpjUnico, RecusaVerdadeira,
         ComCnpj, ComEmail
<1>8. CorridasVistas'
  BY DEF IInv, Vincular, TypeOK, RegistrosCoerentes, CorridasVistas, ComUsuarioOuQuase
<1>9. RegistrosInteiros'
  BY DEF IInv, Vincular, TypeOK, RegistrosCoerentes, RegistrosInteiros, CondominioPadrao
<1> QED
  BY <1>3, <1>4, <1>5, <1>6, <1>7, <1>8, <1>9 DEF IInv

LEMMA FalharVinculoIInv ==
    ASSUME IInv, NEW r \in Registros, FalharVinculo(r)
    PROVE  IInv'
<1>1. papeis \subseteq papeis'
  BY DEF FalharVinculo
<1>2. condominios' = condominios \/ PapeisDe(r)' # {}
  BY PapelDado DEF FalharVinculo
<1>3. TypeOK'
  BY CadastroAssumption
     DEF IInv, FalharVinculo, TypeOK, RegistrosCoerentes, Falhar, CondominioPadrao,
         Condominio, Papel, criacaoVars, sessaoVars
<1>4. RegistrosCoerentes'
  BY <1>1, <1>2, PapeisFicam DEF IInv, FalharVinculo, TypeOK, RegistrosCoerentes
<1>5. SessoesCoerentes'
  BY SessoesFicam DEF FalharVinculo
<1>6. CondominiosExplicados'
  BY <1>1, <1>2, PapeisFicam
     DEF IInv, FalharVinculo, CondominiosExplicados, CondominioPadrao, criacaoVars
<1>7. CnpjUnico' /\ RecusaVerdadeira'
  BY DEF IInv, FalharVinculo, TypeOK, RegistrosCoerentes, CnpjUnico, RecusaVerdadeira,
         ComCnpj, ComEmail
<1>8. CorridasVistas'
  BY DEF IInv, FalharVinculo, TypeOK, RegistrosCoerentes, CorridasVistas,
         ComUsuarioOuQuase
<1>9. RegistrosInteiros'
  <2>1. CASE UNCHANGED <<condominios, papeis>>
    BY <2>1 DEF IInv, FalharVinculo, TypeOK, RegistrosInteiros, CondominioPadrao
  <2>2. CASE /\ condominios' = condominios \cup {CondominioPadrao(r)}
             /\ papeis' = papeis \cup {[usuario |-> r, condominio |-> r]}
    BY <2>2 DEF IInv, FalharVinculo, TypeOK, RegistrosInteiros, CondominioPadrao
  <2> QED
    BY <2>1, <2>2 DEF FalharVinculo
<1> QED
  BY <1>3, <1>4, <1>5, <1>6, <1>7, <1>8, <1>9 DEF IInv

-----------------------------------------------------------------------------
(* CadastrarCondominioHandler. *)

LEMMA SalvarCondominioIInv ==
    ASSUME IInv, NEW c \in Criacoes, NEW u \in Admins, SalvarCondominio(c, u)
    PROVE  IInv'
<1>1. TypeOK'
  BY AdminsUsuarios
     DEF IInv, SalvarCondominio, TypeOK, Condominio, registroVars, sessaoVars
<1>2. RegistrosCoerentes'
  BY DEF IInv, SalvarCondominio, RegistrosCoerentes, PapeisDe, registroVars
<1>3. CondominiosExplicados'
  BY AdminsUsuarios DEF IInv, SalvarCondominio, TypeOK, CondominiosExplicados, PapeisDe
<1>4. /\ SessoesCoerentes'
      /\ CnpjUnico' /\ RecusaVerdadeira'
  BY SessoesFicam DEF IInv, SalvarCondominio, CnpjUnico, RecusaVerdadeira, ComCnpj, ComEmail, registroVars
<1>8. CorridasVistas'
  BY DEF IInv, SalvarCondominio, TypeOK, RegistrosCoerentes, CorridasVistas,
         ComUsuarioOuQuase, registroVars
<1>9. RegistrosInteiros'
  BY CadastroAssumption DEF IInv, SalvarCondominio, TypeOK, RegistrosCoerentes,
         RegistrosInteiros, CondominioPadrao, registroVars
<1> QED
  BY <1>1, <1>2, <1>3, <1>4, <1>8, <1>9 DEF IInv

LEMMA FalharCondominioIInv ==
    ASSUME IInv, NEW c \in Criacoes, NEW u \in Admins, FalharCondominio(c, u)
    PROVE  IInv'
<1>1. TypeOK'
  BY AdminsUsuarios, CadastroAssumption
     DEF IInv, FalharCondominio, TypeOK, Condominio, Falhar, registroVars, sessaoVars
<1>2. RegistrosCoerentes'
  BY DEF IInv, FalharCondominio, RegistrosCoerentes, PapeisDe, registroVars
<1>3. CondominiosExplicados'
  BY AdminsUsuarios DEF IInv, FalharCondominio, TypeOK, CondominiosExplicados, PapeisDe
<1>4. /\ SessoesCoerentes'
      /\ CnpjUnico' /\ RecusaVerdadeira'
  BY SessoesFicam DEF IInv, FalharCondominio, CnpjUnico, RecusaVerdadeira, ComCnpj, ComEmail, registroVars
<1>8. CorridasVistas'
  BY DEF IInv, FalharCondominio, TypeOK, RegistrosCoerentes, CorridasVistas,
         ComUsuarioOuQuase, registroVars
<1>9. RegistrosInteiros'
  <2>1. ASSUME NEW r \in Registros
        PROVE  CondominioPadrao(r) \in condominios' <=> CondominioPadrao(r) \in condominios
    BY CadastroAssumption DEF FalharCondominio, CondominioPadrao
  <2> QED
    BY <2>1 DEF IInv, FalharCondominio, RegistrosInteiros, CondominioPadrao, registroVars
<1> QED
  BY <1>1, <1>2, <1>3, <1>4, <1>8, <1>9 DEF IInv

LEMMA SalvarPapelIInv ==
    ASSUME IInv, NEW c \in Criacoes, SalvarPapel(c)
    PROVE  IInv'
<1>1. papeis \subseteq papeis'
  BY DEF SalvarPapel
<1>2. PapeisDe(autor[c])' # {}
  BY PapelDado DEF SalvarPapel
<1>3. TypeOK'
  BY DEF IInv, SalvarPapel, TypeOK, CondominiosExplicados, Papel, registroVars,
         sessaoVars
<1>4. RegistrosCoerentes'
  BY <1>1, PapeisFicam DEF IInv, SalvarPapel, RegistrosCoerentes, registroVars
<1>5. CondominiosExplicados'
  BY <1>1, <1>2, PapeisFicam DEF IInv, SalvarPapel, TypeOK, CondominiosExplicados
<1>6. /\ SessoesCoerentes'
      /\ CnpjUnico' /\ RecusaVerdadeira'
  BY SessoesFicam DEF IInv, SalvarPapel, CnpjUnico, RecusaVerdadeira, ComCnpj, ComEmail, registroVars
<1>8. CorridasVistas'
  BY DEF IInv, SalvarPapel, TypeOK, RegistrosCoerentes, CorridasVistas,
         ComUsuarioOuQuase, registroVars
<1>9. RegistrosInteiros'
  BY CadastroAssumption DEF IInv, SalvarPapel, TypeOK, RegistrosCoerentes,
         RegistrosInteiros, CondominioPadrao, registroVars
<1> QED
  BY <1>3, <1>4, <1>5, <1>6, <1>8, <1>9 DEF IInv

LEMMA FalharPapelIInv ==
    ASSUME IInv, NEW c \in Criacoes, FalharPapel(c)
    PROVE  IInv'
<1>1. papeis \subseteq papeis'
  BY DEF FalharPapel
<1>2. TypeOK'
  BY CadastroAssumption
     DEF IInv, FalharPapel, TypeOK, CondominiosExplicados, Papel, Falhar, registroVars,
         sessaoVars
<1>3. RegistrosCoerentes'
  BY <1>1, PapeisFicam DEF IInv, FalharPapel, RegistrosCoerentes, registroVars
<1>4. CondominiosExplicados'
  BY <1>1, PapeisFicam DEF IInv, FalharPapel, TypeOK, CondominiosExplicados
<1>5. /\ SessoesCoerentes'
      /\ CnpjUnico' /\ RecusaVerdadeira'
  BY SessoesFicam DEF IInv, FalharPapel, CnpjUnico, RecusaVerdadeira, ComCnpj, ComEmail, registroVars
<1>8. CorridasVistas'
  BY DEF IInv, FalharPapel, TypeOK, RegistrosCoerentes, CorridasVistas,
         ComUsuarioOuQuase, registroVars
<1>9. RegistrosInteiros'
  <2>1. ASSUME NEW r \in Registros
        PROVE  [usuario |-> r, condominio |-> r] \in papeis'
                  <=> [usuario |-> r, condominio |-> r] \in papeis
    BY CadastroAssumption DEF FalharPapel
  <2> QED
    BY <2>1 DEF IInv, FalharPapel, RegistrosInteiros, CondominioPadrao, registroVars
<1> QED
  BY <1>2, <1>3, <1>4, <1>5, <1>8, <1>9 DEF IInv

-----------------------------------------------------------------------------
(* LoginHandler and RefreshTokenHandler. *)

LEMMA IdentificarIInv ==
    ASSUME IInv, NEW s \in Sessoes, NEW u \in usuarios, Identificar(s, u)
    PROVE  IInv'
<1>1. TypeOK'
  BY DEF IInv, Identificar, TypeOK, registroVars, criacaoVars
<1>2. SessoesCoerentes'
  <2>1. /\ pcS'[s] = "papeis" /\ quem'[s] = u
        /\ respondido'[s] => pcR[u] = "201" \/ \E c \in Criacoes : autor[c] = u /\ pcC[c] = "201"
        /\ \A t \in Sessoes : t # s => /\ pcS'[t] = pcS[t] /\ quem'[t] = quem[t]
                                      /\ respondido'[t] = respondido[t]
        /\ UNCHANGED <<token, usuarios, papeis, condominios>>
    BY DEF IInv, Identificar, TypeOK, registroVars
  <2>2. u \in Registros
    BY DEF IInv, TypeOK
  <2>3. respondido'[s] => PapeisDe(u) # {}
    BY <2>1, <2>2 DEF IInv, RegistrosCoerentes, CondominiosExplicados
  <2>4. \A v : PapeisDe(v)' = PapeisDe(v) /\ CondominiosDe(v)' = CondominiosDe(v)
    BY <2>1 DEF PapeisDe, CondominiosDe
  <2> QED
    BY <2>1, <2>3, <2>4 DEF IInv, SessoesCoerentes
<1>3. /\ RegistrosCoerentes' /\ CondominiosExplicados'
      /\ CnpjUnico' /\ RecusaVerdadeira'
  BY DEF IInv, Identificar, RegistrosCoerentes, CondominiosExplicados, CnpjUnico,
         RecusaVerdadeira, PapeisDe, ComCnpj, ComEmail, registroVars, criacaoVars
<1>8. CorridasVistas'
  BY DEF IInv, Identificar, TypeOK, RegistrosCoerentes, CorridasVistas,
         ComUsuarioOuQuase, registroVars
<1>9. RegistrosInteiros'
  BY DEF IInv, Identificar, TypeOK, RegistrosCoerentes, RegistrosInteiros,
         CondominioPadrao, registroVars
<1> QED
  BY <1>1, <1>2, <1>3, <1>8, <1>9 DEF IInv

LEMMA RecusarIInv ==
    ASSUME IInv, NEW s \in Sessoes, Recusar(s)
    PROVE  IInv'
<1>1. TypeOK'
  BY DEF IInv, Recusar, TypeOK, registroVars, criacaoVars
<1>2. SessoesCoerentes'
  BY DEF IInv, Recusar, TypeOK, SessoesCoerentes, PapeisDe,
         CondominiosDe, registroVars
<1>3. /\ RegistrosCoerentes' /\ CondominiosExplicados'
      /\ CnpjUnico' /\ RecusaVerdadeira'
  BY DEF IInv, Recusar, RegistrosCoerentes, CondominiosExplicados, CnpjUnico,
         RecusaVerdadeira, PapeisDe, ComCnpj, ComEmail, registroVars, criacaoVars
<1>8. CorridasVistas'
  BY DEF IInv, Recusar, TypeOK, RegistrosCoerentes, CorridasVistas, ComUsuarioOuQuase,
         registroVars
<1>9. RegistrosInteiros'
  BY DEF IInv, Recusar, TypeOK, RegistrosCoerentes, RegistrosInteiros,
         CondominioPadrao, registroVars
<1> QED
  BY <1>1, <1>2, <1>3, <1>8, <1>9 DEF IInv

LEMMA LerPapeisIInv ==
    ASSUME IInv, NEW s \in Sessoes, LerPapeis(s)
    PROVE  IInv'
<1>1. TypeOK'
  BY DEF IInv, LerPapeis, TypeOK, registroVars, criacaoVars
<1>2. SessoesCoerentes'
  BY DEF IInv, LerPapeis, TypeOK, SessoesCoerentes,
         PapeisDe, CondominiosDe, registroVars
<1>3. /\ RegistrosCoerentes' /\ CondominiosExplicados'
      /\ CnpjUnico' /\ RecusaVerdadeira'
  BY DEF IInv, LerPapeis, RegistrosCoerentes, CondominiosExplicados, CnpjUnico,
         RecusaVerdadeira, PapeisDe, ComCnpj, ComEmail, registroVars, criacaoVars
<1>8. CorridasVistas'
  BY DEF IInv, LerPapeis, TypeOK, RegistrosCoerentes, CorridasVistas,
         ComUsuarioOuQuase, registroVars
<1>9. RegistrosInteiros'
  BY DEF IInv, LerPapeis, TypeOK, RegistrosCoerentes, RegistrosInteiros,
         CondominioPadrao, registroVars
<1> QED
  BY <1>1, <1>2, <1>3, <1>8, <1>9 DEF IInv

LEMMA ContarCondominiosIInv ==
    ASSUME IInv, NEW s \in Sessoes, ContarCondominios(s)
    PROVE  IInv'
<1>1. TypeOK'
  BY DEF IInv, ContarCondominios, TypeOK, registroVars, criacaoVars
<1>2. SessoesCoerentes'
  BY DEF IInv, ContarCondominios, TypeOK, SessoesCoerentes,
         PapeisDe, CondominiosDe, registroVars
<1>3. /\ RegistrosCoerentes' /\ CondominiosExplicados'
      /\ CnpjUnico' /\ RecusaVerdadeira'
  BY DEF IInv, ContarCondominios, RegistrosCoerentes, CondominiosExplicados, CnpjUnico,
         RecusaVerdadeira, PapeisDe, ComCnpj, ComEmail, registroVars, criacaoVars
<1>8. CorridasVistas'
  BY DEF IInv, ContarCondominios, TypeOK, RegistrosCoerentes, CorridasVistas,
         ComUsuarioOuQuase, registroVars
<1>9. RegistrosInteiros'
  BY DEF IInv, ContarCondominios, TypeOK, RegistrosCoerentes, RegistrosInteiros,
         CondominioPadrao, registroVars
<1> QED
  BY <1>1, <1>2, <1>3, <1>8, <1>9 DEF IInv

-----------------------------------------------------------------------------
(* The crash and the whole next-state relation. *)

LEMMA QuedaIInv ==
    ASSUME IInv, Queda
    PROVE  IInv'
<1>1. TypeOK'
  BY CadastroAssumption DEF IInv, Queda, TypeOK, Registrando, Falhar
<1>2. RegistrosCoerentes'
  BY DEF IInv, Queda, TypeOK, RegistrosCoerentes, PapeisDe, Registrando
<1>3. SessoesCoerentes'
  BY DEF IInv, Queda, TypeOK, SessoesCoerentes, PapeisDe, CondominiosDe
<1>4. CondominiosExplicados'
  BY DEF IInv, Queda, TypeOK, CondominiosExplicados, PapeisDe
<1>5. CnpjUnico' /\ RecusaVerdadeira'
  BY DEF IInv, Queda, TypeOK, CnpjUnico, RecusaVerdadeira, ComCnpj, ComEmail,
         Registrando
<1>8. CorridasVistas'
  BY DEF IInv, Queda, TypeOK, RegistrosCoerentes, CorridasVistas, ComUsuarioOuQuase,
         Registrando
<1>9. RegistrosInteiros'
  BY DEF IInv, Queda, TypeOK, RegistrosCoerentes, RegistrosInteiros, CondominioPadrao,
         Registrando
<1> QED
  BY <1>1, <1>2, <1>3, <1>4, <1>5, <1>8, <1>9 DEF IInv

LEMMA NextIInv == IInv /\ [Next]_vars => IInv'
<1> SUFFICES ASSUME IInv, [Next]_vars PROVE IInv'
  OBVIOUS
<1>1. ASSUME NEW r \in Registros, Registro(r) PROVE IInv'
  BY <1>1, VerificarEmailIInv, VerificarCnpjIInv, SalvarTenantIInv, SalvarUsuarioIInv,
     FalharRegistroIInv, VincularIInv, FalharVinculoIInv
     DEF Registro
<1>2. ASSUME NEW c \in Criacoes, Criacao(c) PROVE IInv'
  BY <1>2, SalvarCondominioIInv, FalharCondominioIInv, SalvarPapelIInv, FalharPapelIInv
     DEF Criacao
<1>3. ASSUME NEW s \in Sessoes, Sessao(s) PROVE IInv'
  BY <1>3, IdentificarIInv, RecusarIInv, LerPapeisIInv, ContarCondominiosIInv DEF Sessao
<1>4. CASE UNCHANGED vars
  BY <1>4
     DEF IInv, TypeOK, RegistrosCoerentes, SessoesCoerentes, CondominiosExplicados,
         CnpjUnico, RecusaVerdadeira, PapeisDe, CondominiosDe, ComCnpj, ComEmail,
         CorridasVistas, ComUsuarioOuQuase, RegistrosInteiros, CondominioPadrao, vars,
         registroVars, criacaoVars, sessaoVars
<1> QED
  BY <1>1, <1>2, <1>3, <1>4, QuedaIInv DEF Next

\* Who is locked out when nothing is in progress: the row that switches the fallback off
\* has an explanation, and the only one left is a creation that was interrupted.
LEMMA TrancadoExplicado == IInv => TrancadoSoComFalhas
<1> SUFFICES ASSUME IInv, Quieto, NEW u \in usuarios, Trancado(u)
             PROVE  Interrompido(u)
  BY DEF TrancadoSoComFalhas
<1>1. u \in Registros /\ PapeisDe(u) = {}
  BY DEF IInv, TypeOK, Trancado
<1>2. pcR[u] \in {"500", "morto"}
  BY <1>1 DEF IInv, TypeOK, RegistrosCoerentes, Quieto, Registrando
<1>3. PICK k \in condominios : k.tenant = u
  BY DEF Trancado, CondominiosDe
<1>4. /\ k.id \in Criacoes /\ autor[k.id] = u
      /\ pcC[k.id] \in {"vinculo", "500", "morto"}
  BY <1>1, <1>3 DEF IInv, CondominiosExplicados
<1> QED
  BY <1>2, <1>4 DEF Quieto, Interrompido

-----------------------------------------------------------------------------
\* The inductive invariant holds in every state, whatever the calls in progress do.
THEOREM Invariante == Spec => []IInv
<1> QED
  BY InitIInv, NextIInv, PTL DEF Spec

\* Type correctness, for any number of calls and failures.
THEOREM TypeCorrect == Spec => []TypeOK
<1>1. IInv => TypeOK
  BY DEF IInv
<1> QED
  BY <1>1, Invariante, PTL

\* One tenant per cnpj, however many registrations race (registrar-cliente.handler.ts:33).
THEOREM CnpjDeUmSo == Spec => []CnpjUnico
<1>1. IInv => CnpjUnico
  BY DEF IInv
<1> QED
  BY <1>1, Invariante, PTL

\* A 409 left nothing behind, and the account it conflicts with stays.
THEOREM RecusaHonesta == Spec => []RecusaVerdadeira
<1>1. IInv => RecusaVerdadeira
  BY DEF IInv
<1> QED
  BY <1>1, Invariante, PTL

\* Tokens without the role come from a call that overlapped the session, or from failures,
\* whatever commits between the two queries (login.handler.ts:31 and :44), and it passes.
THEOREM PapelExplicado == Spec => []SemPapelExplicado
<1>1. IInv => SemPapelExplicado
  <2> SUFFICES ASSUME IInv, NEW s \in Sessoes, pcS[s] = "200", token[s] = "nenhum"
               PROVE  /\ CondominiosDe(quem[s]) # {}
                      /\ ~respondido[s]
                      /\ Quieto => PapeisDe(quem[s]) # {} \/ Interrompido(quem[s])
    BY DEF SemPapelExplicado
  <2>1. quem[s] \in usuarios /\ CondominiosDe(quem[s]) # {} /\ ~respondido[s]
    BY DEF IInv, SessoesCoerentes
  <2> QED
    BY <2>1, TrancadoExplicado DEF TrancadoSoComFalhas, Trancado
<1> QED
  BY <1>1, Invariante, PTL

\* Only an interrupted registration followed by an interrupted creation locks a user out.
THEOREM NinguemTrancado == Spec => []TrancadoSoComFalhas
  BY TrancadoExplicado, Invariante, PTL

\* Two accounts of one e-mail come only from registrations that overlapped
\* (registrar-cliente.handler.ts:28).
THEOREM EmailDeUmSoSemCorrida == Spec => []EmailRepetidoSoComCorrida
<1>1. IInv => EmailRepetidoSoComCorrida
  BY DEF IInv, CorridasVistas, ComUsuarioOuQuase, EmailRepetidoSoComCorrida
<1> QED
  BY <1>1, Invariante, PTL

\* A registration is whole, in progress, or was answered with an error or not at all.
THEOREM CadastroInteiro == Spec => []RegistroInteiro
<1>1. IInv => RegistroInteiro
  <2> SUFFICES ASSUME IInv, NEW t \in tenants
               PROVE  /\ t \notin usuarios \/ CondominioPadrao(t) \notin condominios =>
                             pcR[t] \in {"usuario", "vinculo", "500", "morto"}
                      /\ CondominioPadrao(t) \in condominios
                            <=> [usuario |-> t, condominio |-> t] \in papeis
    BY DEF RegistroInteiro
  <2> QED
    BY DEF IInv, TypeOK, RegistrosCoerentes, RegistrosInteiros
<1> QED
  BY <1>1, Invariante, PTL
=============================================================================
