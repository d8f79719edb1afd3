------------------------- MODULE ComunicacaoProofs -------------------------
(***************************************************************************)
(* Theorems about Comunicacao, for any tables, lists of channels and        *)
(* failures.  The counters of a loop are numbers; the invariant says which  *)
(* sets of users they count, and, for each user, that the e-mails accepted  *)
(* and the loops that still have the user ahead make up the times EMAIL is  *)
(* listed.                                                                  *)
(***************************************************************************)
EXTENDS Comunicacao, FiniteSetTheorems, SequenceTheorems, TLAPS

\* The loops of p that still have u ahead.
Restam(p, u) == {i \in DOMAIN canais[p] : u \in lacos[p][i].resta}

\* The counters count users: those sent to, and the other ones done, for whom it failed
\* (A and R are aceitos and recusas of the publication; m, whether e-mails really go out).
Contado(m, feitos, enviados, fracassos, A, R) ==
    \E OK \in SUBSET feitos :
        /\ enviados = Cardinality(OK) /\ fracassos = Cardinality(feitos \ OK)
        /\ \A u \in OK : A[u] > 0
        /\ m => feitos \ OK \subseteq R

Envia(canal) == canal = "EMAIL" /\ smtp

LacosContados ==
    \A p \in Publicacoes : \A i \in DOMAIN canais[p] :
        LET laco == lacos[p][i] IN
        /\ Contado(Envia(canais[p][i]), alvo[p] \ laco.resta, laco.enviados, laco.falhas,
                   aceitos[p], recusas[p])
        /\ laco.resta \subseteq alvo[p]
        /\ laco.resta # {} => Envia(canais[p][i])
        /\ Terminou(laco) => resultado[p][canais[p][i]] # Nenhum

RetornosContados ==
    \A p \in Publicacoes : \A c \in CANAIS_VALIDOS :
        LET r == resultado[p][c] IN
        r # Nenhum => /\ r.destinatarios = Cardinality(alvo[p])
                      /\ Contado(Envia(c), alvo[p], r.enviados, r.falhas, aceitos[p], recusas[p])

\* For each user: what arrived and what is ahead.
Saldos ==
    \A p \in Publicacoes : \A u \in Usuarios :
        /\ aceitos[p][u] > 0 => u \in alvo[p] /\ smtp
        /\ aceitos[p][u] + Cardinality(Restam(p, u)) <= Vezes(p)
        /\ smtp /\ u \in alvo[p] \ recusas[p] =>
              aceitos[p][u] + Cardinality(Restam(p, u)) = Vezes(p)

Acabou(p) == \A i \in DOMAIN canais[p] : Terminou(lacos[p][i])

Andamento ==
    \A p \in Publicacoes :
        /\ pc[p] = "inicio" => /\ canais[p] = Nenhum /\ lacos[p] = Nenhum
                               /\ alvo[p] = {} /\ recusas[p] = {}
                               /\ \A u \in Usuarios : aceitos[p][u] = 0
        /\ p \in comunicados => pc[p] \in {"evento", "500", "morto"} /\ Acabou(p)
        /\ pc[p] \in {"salvar", "evento"} => Acabou(p)

IInv == TypeOK /\ LacosContados /\ RetornosContados /\ Saldos /\ Andamento

-----------------------------------------------------------------------------
(* Counting. *)

\* A result is not the empty tuple.
LEMMA RetornoExiste == ASSUME NEW laco, NEW S PROVE Retorno(laco, S) # Nenhum
<1>1. "enviados" \in DOMAIN Retorno(laco, S)
  BY DEF Retorno
<1>2. "enviados" \notin DOMAIN Nenhum
  BY DEF Nenhum
<1>3. QED
  BY <1>1, <1>2

\* Later sends and failures take nothing back.
LEMMA ContadoFica ==
    ASSUME NEW m, NEW F, NEW a, NEW b, NEW A, NEW R, NEW B, NEW Q,
           Contado(m, F, a, b, A, R), R \subseteq Q, \A u \in F : A[u] > 0 => B[u] > 0
    PROVE  Contado(m, F, a, b, B, Q)
<1>1. PICK OK \in SUBSET F :
        /\ a = Cardinality(OK) /\ b = Cardinality(F \ OK)
        /\ \A u \in OK : A[u] > 0
        /\ m => F \ OK \subseteq R
  BY DEF Contado
<1>2. /\ \A u \in OK : B[u] > 0
      /\ m => F \ OK \subseteq Q
  BY <1>1
<1>3. QED
  BY <1>1, <1>2 DEF Contado

\* One more user, sent to.
LEMMA ContadoEnvio ==
    ASSUME NEW m, NEW F, IsFiniteSet(F), NEW u, u \notin F, NEW a, NEW b, NEW A, NEW R,
           Contado(m, F, a, b, A, R), A[u] > 0
    PROVE  Contado(m, F \cup {u}, a + 1, b, A, R)
<1>1. PICK OK \in SUBSET F :
        /\ a = Cardinality(OK) /\ b = Cardinality(F \ OK)
        /\ \A v \in OK : A[v] > 0
        /\ m => F \ OK \subseteq R
  BY DEF Contado
<1>2. Cardinality(OK \cup {u}) = a + 1
  BY <1>1, FS_AddElement, FS_Subset
<1>3. (F \cup {u}) \ (OK \cup {u}) = F \ OK
  OBVIOUS
<1>4. OK \cup {u} \in SUBSET (F \cup {u})
  OBVIOUS
<1>5. QED
  BY <1>1, <1>2, <1>3, <1>4 DEF Contado

\* One more user, for whom it failed.
LEMMA ContadoFalha ==
    ASSUME NEW m, NEW F, IsFiniteSet(F), NEW u, u \notin F, NEW a, NEW b, NEW A, NEW R,
           Contado(m, F, a, b, A, R), u \in R
    PROVE  Contado(m, F \cup {u}, a, b + 1, A, R)
<1>1. PICK OK \in SUBSET F :
        /\ a = Cardinality(OK) /\ b = Cardinality(F \ OK)
        /\ \A v \in OK : A[v] > 0
        /\ m => F \ OK \subseteq R
  BY DEF Contado
<1>2. (F \cup {u}) \ OK = (F \ OK) \cup {u}
  OBVIOUS
<1>3. IsFiniteSet(F \ OK)
  BY FS_Subset
<1>4. Cardinality((F \cup {u}) \ OK) = b + 1
  BY <1>1, <1>2, <1>3, FS_AddElement
<1>5. OK \in SUBSET (F \cup {u})
  OBVIOUS
<1>6. QED
  BY <1>1, <1>2, <1>4, <1>5 DEF Contado

Servidos(S, A) == {u \in S : A[u] > 0}

\* What is counted fits the type and adds up.
LEMMA ContadoSoma ==
    ASSUME ComunicacaoAssumption, NEW m, NEW F \in SUBSET Usuarios, NEW a, NEW b, NEW A, NEW R,
           Contado(m, F, a, b, A, R)
    PROVE  /\ a \in Contagem /\ b \in Contagem /\ Cardinality(F) \in Contagem
           /\ a + b = Cardinality(F)
           /\ a <= Cardinality(Servidos(F, A))
           /\ m /\ IsFiniteSet(R) => b <= Cardinality(R)
<1>1. PICK OK \in SUBSET F :
        /\ a = Cardinality(OK) /\ b = Cardinality(F \ OK)
        /\ \A v \in OK : A[v] > 0
        /\ m => F \ OK \subseteq R
  BY DEF Contado
<1>2. IsFiniteSet(Usuarios)
  BY DEF ComunicacaoAssumption
<1>3. /\ IsFiniteSet(F) /\ IsFiniteSet(OK) /\ IsFiniteSet(F \ OK)
      /\ IsFiniteSet(Servidos(F, A))
      /\ Cardinality(F) <= Cardinality(Usuarios)
      /\ Cardinality(OK) <= Cardinality(Usuarios)
      /\ Cardinality(F \ OK) <= Cardinality(Usuarios)
  <2>1. ASSUME NEW T \in SUBSET Usuarios
        PROVE  IsFiniteSet(T) /\ Cardinality(T) <= Cardinality(Usuarios)
    BY <1>2, FS_Subset
  <2>2. IsFiniteSet(F) /\ Cardinality(F) <= Cardinality(Usuarios)
    BY <2>1
  <2>3. IsFiniteSet(OK) /\ Cardinality(OK) <= Cardinality(Usuarios)
    BY <1>1, <2>1
  <2>4. IsFiniteSet(F \ OK) /\ Cardinality(F \ OK) <= Cardinality(Usuarios)
    <3>1. F \ OK \in SUBSET Usuarios
      OBVIOUS
    <3>2. QED
      BY <2>1, <3>1
  <2>5. IsFiniteSet(Servidos(F, A))
    BY <2>2, FS_Subset DEF Servidos
  <2>6. QED
    BY <2>2, <2>3, <2>4, <2>5
<1>4. /\ Cardinality(F) \in Nat /\ a \in Nat /\ b \in Nat /\ Cardinality(Usuarios) \in Nat
  BY <1>1, <1>2, <1>3, FS_CardinalityType
<1>5. a + b = Cardinality(F)
  <2>1. F \cap OK = OK
    OBVIOUS
  <2>2. b = Cardinality(F) - Cardinality(F \cap OK)
    BY <1>1, <1>3, FS_Difference
  <2>3. Cardinality(F \cap OK) = a
    BY <1>1, <2>1
  <2>4. QED
    BY <1>4, <2>2, <2>3
<1>6. a <= Cardinality(Servidos(F, A))
  <2>1. OK \in SUBSET Servidos(F, A)
    BY <1>1 DEF Servidos
  <2>2. QED
    BY <1>1, <1>3, <2>1, FS_Subset
<1>7. m /\ IsFiniteSet(R) => b <= Cardinality(R)
  BY <1>1, FS_Subset
<1>8. QED
  BY <1>1, <1>3, <1>4, <1>5, <1>6, <1>7 DEF Contagem

-----------------------------------------------------------------------------
(* A loop goes on. *)

LEMMA ListaFinita ==
    ASSUME ComunicacaoAssumption, TypeOK, NEW p \in Publicacoes
    PROVE  /\ IsFiniteSet(DOMAIN canais[p]) /\ Cardinality(DOMAIN canais[p]) <= MaxCanais
           /\ IsFiniteSet(alvo[p]) /\ IsFiniteSet(recusas[p])
<1>1. CASE canais[p] = Nenhum
  <2>1. DOMAIN canais[p] = {}
    BY <1>1 DEF Nenhum
  <2>2. QED
    BY <2>1, FS_EmptySet, FS_Subset DEF TypeOK, ComunicacaoAssumption
<1>2. CASE canais[p] # Nenhum
  <2>1. PICK n \in 1..MaxCanais : canais[p] \in [1..n -> CANAIS_VALIDOS]
    BY <1>2 DEF TypeOK, Listas
  <2>2. DOMAIN canais[p] = 1..n
    BY <2>1
  <2>3. n \in Nat /\ n <= MaxCanais
    BY <2>1 DEF ComunicacaoAssumption
  <2>4. IsFiniteSet(1..n) /\ Cardinality(1..n) = n
    BY <2>3, FS_Interval
  <2>5. IsFiniteSet(DOMAIN canais[p]) /\ Cardinality(DOMAIN canais[p]) <= MaxCanais
    BY <2>2, <2>3, <2>4
  <2>6. QED
    BY <2>5, FS_Subset DEF TypeOK, ComunicacaoAssumption
<1>3. QED
  BY <1>1, <1>2

\* Two fields of a loop change.
LEMMA LacoEnvia ==
    ASSUME NEW l \in Laco, NEW r, NEW v
    PROVE  [l EXCEPT !.resta = r, !.enviados = v] = [resta |-> r, enviados |-> v, falhas |-> l.falhas]
<1> DEFINE m == [l EXCEPT !.resta = r]
<1>1. m = [resta |-> r, enviados |-> l.enviados, falhas |-> l.falhas]
  BY DEF Laco
<1>2. [l EXCEPT !.resta = r, !.enviados = v] = [m EXCEPT !.enviados = v]
  BY Zenon
<1> HIDE DEF m
<1>3. [m EXCEPT !.enviados = v] = [resta |-> r, enviados |-> v, falhas |-> l.falhas]
  BY <1>1
<1>4. QED
  BY <1>2, <1>3

LEMMA LacoFalha ==
    ASSUME NEW l \in Laco, NEW r, NEW v
    PROVE  [l EXCEPT !.resta = r, !.falhas = v] = [resta |-> r, enviados |-> l.enviados, falhas |-> v]
<1> DEFINE m == [l EXCEPT !.resta = r]
<1>1. m = [resta |-> r, enviados |-> l.enviados, falhas |-> l.falhas]
  BY DEF Laco
<1>2. [l EXCEPT !.resta = r, !.falhas = v] = [m EXCEPT !.falhas = v]
  BY Zenon
<1> HIDE DEF m
<1>3. [m EXCEPT !.falhas = v] = [resta |-> r, enviados |-> l.enviados, falhas |-> v]
  BY <1>1
<1>4. QED
  BY <1>2, <1>3

LEMMA CanalValido ==
    ASSUME TypeOK, NEW p \in Publicacoes, NEW i \in DOMAIN canais[p]
    PROVE  canais[p][i] \in CANAIS_VALIDOS
<1>1. canais[p] # Nenhum
  <2>1. DOMAIN Nenhum = {}
    BY DEF Nenhum
  <2>2. QED
    BY <2>1
<1>2. canais[p] \in Listas
  BY <1>1 DEF TypeOK
<1>3. PICK n \in 1..MaxCanais : canais[p] \in [1..n -> CANAIS_VALIDOS]
  BY <1>2 DEF Listas
<1>4. QED
  BY <1>3

\* The entries of a list are counted by small numbers.
LEMMA VezesLimitadas ==
    ASSUME ComunicacaoAssumption, TypeOK, NEW p \in Publicacoes
    PROVE  /\ Vezes(p) \in 0..MaxCanais
           /\ \A u \in Usuarios : IsFiniteSet(Restam(p, u)) /\ Cardinality(Restam(p, u)) \in Nat
<1>1. /\ IsFiniteSet(DOMAIN canais[p]) /\ Cardinality(DOMAIN canais[p]) <= MaxCanais
      /\ Cardinality(DOMAIN canais[p]) \in Nat /\ MaxCanais \in Nat
  BY ListaFinita, FS_CardinalityType DEF ComunicacaoAssumption
<1>2. ASSUME NEW T \in SUBSET DOMAIN canais[p]
      PROVE  IsFiniteSet(T) /\ Cardinality(T) \in Nat /\ Cardinality(T) <= MaxCanais
  <2>1. IsFiniteSet(T) /\ Cardinality(T) <= Cardinality(DOMAIN canais[p])
    BY <1>1, FS_Subset
  <2>2. Cardinality(T) \in Nat
    BY <2>1, FS_CardinalityType
  <2>3. QED
    BY <1>1, <2>1, <2>2
<1>3. {i \in DOMAIN canais[p] : canais[p][i] = "EMAIL"} \in SUBSET DOMAIN canais[p]
  OBVIOUS
<1>4. \A u \in Usuarios : Restam(p, u) \in SUBSET DOMAIN canais[p]
  BY DEF Restam
<1>5. Vezes(p) \in 0..MaxCanais
  BY <1>1, <1>2, <1>3 DEF Vezes
<1>6. QED
  BY <1>2, <1>4, <1>5

\* One user leaves what is left of loop i: sent to (and accepted), or failed for (and perhaps
\* accepted all the same).
Resolvido(p, i, u, laco) ==
    /\ laco.resta = lacos[p][i].resta \ {u}
    /\ \/ /\ laco.enviados = lacos[p][i].enviados + 1 /\ laco.falhas = lacos[p][i].falhas
          /\ recusas' = recusas
          /\ Aceitar(p, u)
       \/ /\ laco.enviados = lacos[p][i].enviados /\ laco.falhas = lacos[p][i].falhas + 1
          /\ recusas' = [recusas EXCEPT ![p] = @ \cup {u}]
          /\ aceitos' = aceitos \/ Aceitar(p, u)

LEMMA ResolvidoIInv ==
    ASSUME ComunicacaoAssumption, IInv, NEW p \in Publicacoes, NEW i \in DOMAIN canais[p],
           NEW u \in lacos[p][i].resta, NEW laco,
           laco = [resta |-> laco.resta, enviados |-> laco.enviados, falhas |-> laco.falhas],
           pc[p] = "enviando", Avancar(p, i, laco), Resolvido(p, i, u, laco),
           UNCHANGED <<smtp, canais, alvo, comunicados>>, falhas' \in 0..MaxFalhas
    PROVE  IInv'
<1> DEFINE feitos == alvo[p] \ lacos[p][i].resta
           envia == Envia(canais[p][i])
<1>1. /\ lacos \in [Publicacoes -> Seq(Laco)] /\ DOMAIN lacos[p] = DOMAIN canais[p]
      /\ lacos[p] \in Seq(Laco) /\ lacos[p][i] \in Laco /\ u \in Usuarios
      /\ canais[p][i] \in CANAIS_VALIDOS
  <2>1. /\ lacos \in [Publicacoes -> Seq(Laco)] /\ DOMAIN lacos[p] = DOMAIN canais[p]
        /\ lacos[p] \in Seq(Laco)
    BY DEF IInv, TypeOK
  <2>2. lacos[p][i] \in Laco
    BY <2>1, LenProperties
  <2>3. u \in Usuarios
    BY <2>2 DEF Laco
  <2>4. canais[p][i] \in CANAIS_VALIDOS
    BY CanalValido DEF IInv
  <2>5. QED
    BY <2>1, <2>2, <2>3, <2>4
<1>2. /\ lacos[p][i].resta \subseteq alvo[p] /\ envia
      /\ alvo[p] \in SUBSET Usuarios /\ IsFiniteSet(alvo[p]) /\ IsFiniteSet(feitos)
  <2>1. lacos[p][i].resta \subseteq alvo[p] /\ envia /\ alvo[p] \in SUBSET Usuarios
    BY DEF IInv, TypeOK, LacosContados
  <2>2. IsFiniteSet(alvo[p])
    BY ListaFinita DEF IInv
  <2>3. QED
    BY <2>1, <2>2, FS_Subset
<1>3. /\ \A q \in Publicacoes : \A v \in Usuarios :
            /\ aceitos'[q][v] \in Nat /\ aceitos[q][v] \in Nat
            /\ aceitos'[q][v] >= aceitos[q][v]
            /\ aceitos'[q][v] # aceitos[q][v] => q = p /\ v = u /\ aceitos'[q][v] = aceitos[q][v] + 1
      /\ \A q \in Publicacoes : recusas[q] \subseteq recusas'[q]
      /\ \A q \in Publicacoes : q # p => recusas'[q] = recusas[q]
      /\ recusas' \in [Publicacoes -> SUBSET Usuarios]
      /\ \A v \in Usuarios : v # u => (v \in recusas'[p] <=> v \in recusas[p])
      /\ u \notin recusas'[p] => aceitos'[p][u] = aceitos[p][u] + 1
  <2>1. /\ aceitos \in [Publicacoes -> [Usuarios -> Nat]]
        /\ recusas \in [Publicacoes -> SUBSET Usuarios]
    BY DEF IInv, TypeOK, ComunicacaoAssumption
  <2>2. aceitos' = aceitos \/ Aceitar(p, u)
    BY DEF Resolvido
  <2>3. \A q \in Publicacoes : \A v \in Usuarios :
            /\ aceitos'[q][v] \in Nat /\ aceitos[q][v] \in Nat
            /\ aceitos'[q][v] >= aceitos[q][v]
            /\ aceitos'[q][v] # aceitos[q][v]
                  => q = p /\ v = u /\ aceitos'[q][v] = aceitos[q][v] + 1
    <3>1. CASE aceitos' = aceitos
      BY <2>1, <3>1
    <3>2. CASE Aceitar(p, u)
      BY <1>1, <2>1, <3>2 DEF Aceitar
    <3>3. QED
      BY <2>2, <3>1, <3>2
  <2>4. recusas' = recusas \/ recusas' = [recusas EXCEPT ![p] = @ \cup {u}]
    BY DEF Resolvido
  <2>5. /\ \A q \in Publicacoes : recusas[q] \subseteq recusas'[q]
        /\ \A q \in Publicacoes : q # p => recusas'[q] = recusas[q]
        /\ recusas' \in [Publicacoes -> SUBSET Usuarios]
        /\ \A v \in Usuarios : v # u => (v \in recusas'[p] <=> v \in recusas[p])
    <3>1. CASE recusas' = recusas
      BY <2>1, <3>1
    <3>2. CASE recusas' = [recusas EXCEPT ![p] = @ \cup {u}]
      <4>1. /\ recusas'[p] = recusas[p] \cup {u}
            /\ \A q \in Publicacoes : q # p => recusas'[q] = recusas[q]
        BY <2>1, <3>2
      <4>2. recusas' \in [Publicacoes -> SUBSET Usuarios]
        BY <1>1, <2>1, <3>2
      <4>3. QED
        BY <4>1, <4>2
    <3>3. QED
      BY <2>4, <3>1, <3>2
  <2>6. u \notin recusas'[p] => aceitos'[p][u] = aceitos[p][u] + 1
    <3>1. CASE Aceitar(p, u)
      BY <1>1, <2>1, <3>1 DEF Aceitar
    <3>2. CASE recusas' = [recusas EXCEPT ![p] = @ \cup {u}]
      BY <2>1, <3>2
    <3>3. QED
      BY <3>1, <3>2 DEF Resolvido
  <2>7. QED
    BY <2>3, <2>5, <2>6
<1>4. Contado(envia, alvo[p] \ laco.resta, laco.enviados, laco.falhas, aceitos'[p], recusas'[p])
  <2>1. Contado(envia, feitos, lacos[p][i].enviados, lacos[p][i].falhas, aceitos[p], recusas[p])
    BY DEF IInv, LacosContados
  <2>2. feitos \subseteq Usuarios
    BY <1>2
  <2>3. Contado(envia, feitos, lacos[p][i].enviados, lacos[p][i].falhas, aceitos'[p], recusas'[p])
    <3>1. recusas[p] \subseteq recusas'[p] /\ \A v \in feitos : aceitos[p][v] > 0 => aceitos'[p][v] > 0
      BY <1>3, <2>2
    <3>2. QED
      BY <2>1, <3>1, ContadoFica
  <2>4. alvo[p] \ laco.resta = feitos \cup {u} /\ u \notin feitos
    BY <1>2 DEF Resolvido
  <2>5. CASE laco.enviados = lacos[p][i].enviados + 1 /\ laco.falhas = lacos[p][i].falhas
             /\ Aceitar(p, u)
    <3>1. aceitos'[p][u] > 0
      BY <1>1, <2>5 DEF Aceitar, IInv, TypeOK
    <3>2. Contado(envia, feitos \cup {u}, lacos[p][i].enviados + 1, lacos[p][i].falhas,
                  aceitos'[p], recusas'[p])
      BY <1>2, <2>3, <2>4, <3>1, ContadoEnvio
    <3>3. QED
      BY <2>4, <2>5, <3>2
  <2>6. CASE laco.enviados = lacos[p][i].enviados /\ laco.falhas = lacos[p][i].falhas + 1
             /\ recusas' = [recusas EXCEPT ![p] = @ \cup {u}]
    <3>1. u \in recusas'[p]
      BY <1>1, <2>6 DEF IInv, TypeOK
    <3>2. Contado(envia, feitos \cup {u}, lacos[p][i].enviados, lacos[p][i].falhas + 1,
                  aceitos'[p], recusas'[p])
      BY <1>2, <2>3, <2>4, <3>1, ContadoFalha
    <3>3. QED
      BY <2>4, <2>6, <3>2
  <2>7. QED
    BY <2>5, <2>6 DEF Resolvido
<1>5. laco \in Laco
  <2>1. alvo[p] \ laco.resta \in SUBSET Usuarios /\ laco.resta \in SUBSET Usuarios
    BY <1>1, <1>2 DEF Resolvido, Laco
  <2>2. laco.enviados \in Contagem /\ laco.falhas \in Contagem
    BY <1>4, <2>1, ContadoSoma
  <2>3. QED
    BY <2>1, <2>2 DEF Laco
<1>6. /\ lacos' \in [Publicacoes -> Seq(Laco)]
      /\ lacos'[p][i] = laco /\ DOMAIN lacos'[p] = DOMAIN lacos[p]
      /\ \A j \in DOMAIN canais[p] : j # i => lacos'[p][j] = lacos[p][j]
      /\ \A q \in Publicacoes : q # p => lacos'[q] = lacos[q]
  <2>1. /\ lacos' = [lacos EXCEPT ![p] = [lacos[p] EXCEPT ![i] = laco]]
    BY DEF Avancar
  <2>2. [lacos[p] EXCEPT ![i] = laco] \in Seq(Laco)
    BY <1>1, <1>5, ExceptSeq, LenProperties
  <2>3. QED
    BY <1>1, <2>1, <2>2
<1>7. /\ \A q \in Publicacoes, c \in CANAIS_VALIDOS :
            \/ resultado'[q][c] = resultado[q][c]
            \/ q = p /\ c = canais[p][i] /\ Terminou(laco)
               /\ resultado'[q][c] = Retorno(laco, alvo[p])
      /\ Terminou(laco) => resultado'[p][canais[p][i]] = Retorno(laco, alvo[p])
  BY <1>1 DEF Avancar, IInv, TypeOK
<1>8. LacosContados'
  <2> SUFFICES ASSUME NEW q \in Publicacoes, NEW j \in DOMAIN canais[q]
               PROVE  /\ Contado(Envia(canais[q][j]), alvo[q] \ lacos'[q][j].resta,
                                 lacos'[q][j].enviados, lacos'[q][j].falhas,
                                 aceitos'[q], recusas'[q])
                      /\ lacos'[q][j].resta \subseteq alvo[q]
                      /\ lacos'[q][j].resta # {} => Envia(canais[q][j])
                      /\ Terminou(lacos'[q][j]) => resultado'[q][canais[q][j]] # Nenhum
    BY DEF LacosContados, Envia, Terminou, Nenhum
  <2>1. CASE q = p /\ j = i
    <3>1. lacos'[q][j] = laco
      BY <1>6, <2>1
    <3>2. laco.resta \subseteq alvo[p]
      BY <1>2 DEF Resolvido
    <3>3. Terminou(laco) => resultado'[p][canais[p][i]] # Nenhum
      BY <1>7, RetornoExiste
    <3>4. QED
      BY <2>1, <1>2, <1>4, <3>1, <3>2, <3>3
  <2>2. CASE ~(q = p /\ j = i)
    <3>1. lacos'[q][j] = lacos[q][j]
      BY <1>6, <2>2
    <3>2. /\ Contado(Envia(canais[q][j]), alvo[q] \ lacos[q][j].resta, lacos[q][j].enviados,
                     lacos[q][j].falhas, aceitos[q], recusas[q])
          /\ lacos[q][j].resta \subseteq alvo[q]
          /\ lacos[q][j].resta # {} => Envia(canais[q][j])
          /\ Terminou(lacos[q][j]) => resultado[q][canais[q][j]] # Nenhum
      BY DEF IInv, LacosContados
    <3>3. /\ recusas[q] \subseteq recusas'[q]
          /\ \A v \in alvo[q] \ lacos[q][j].resta : aceitos[q][v] > 0 => aceitos'[q][v] > 0
      BY <1>3 DEF IInv, TypeOK
    <3>4. canais[q][j] \in CANAIS_VALIDOS
      BY CanalValido DEF IInv
    <3>5. Contado(Envia(canais[q][j]), alvo[q] \ lacos[q][j].resta, lacos[q][j].enviados,
                  lacos[q][j].falhas, aceitos'[q], recusas'[q])
      BY <3>2, <3>3, ContadoFica
    <3>6. QED
      BY <3>1, <3>2, <3>4, <3>5, <1>7, RetornoExiste
  <2>3. QED
    BY <2>1, <2>2
<1>9. RetornosContados'
  <2> SUFFICES ASSUME NEW q \in Publicacoes, NEW c \in CANAIS_VALIDOS, resultado'[q][c] # Nenhum
               PROVE  /\ resultado'[q][c].destinatarios = Cardinality(alvo[q])
                      /\ Contado(Envia(c), alvo[q], resultado'[q][c].enviados,
                                 resultado'[q][c].falhas, aceitos'[q], recusas'[q])
    BY DEF RetornosContados, Envia, Nenhum
  <2>1. CASE resultado'[q][c] = resultado[q][c]
    <3>1. /\ resultado[q][c].destinatarios = Cardinality(alvo[q])
          /\ Contado(Envia(c), alvo[q], resultado[q][c].enviados, resultado[q][c].falhas,
                     aceitos[q], recusas[q])
      BY <2>1 DEF IInv, RetornosContados
    <3>2. /\ recusas[q] \subseteq recusas'[q]
          /\ \A v \in alvo[q] : aceitos[q][v] > 0 => aceitos'[q][v] > 0
      BY <1>3 DEF IInv, TypeOK
    <3>3. QED
      BY <2>1, <3>1, <3>2, ContadoFica
  <2>2. CASE /\ q = p /\ c = canais[p][i] /\ Terminou(laco)
             /\ resultado'[q][c] = Retorno(laco, alvo[p])
    <3>1. alvo[p] \ laco.resta = alvo[p]
      BY <2>2 DEF Terminou
    <3>2. /\ resultado'[q][c].destinatarios = Cardinality(alvo[p])
          /\ resultado'[q][c].enviados = laco.enviados /\ resultado'[q][c].falhas = laco.falhas
      BY <2>2 DEF Retorno
    <3>3. Contado(envia, alvo[p], laco.enviados, laco.falhas, aceitos'[p], recusas'[p])
      BY <3>1, <1>4
    <3>4. QED
      BY <2>2, <3>2, <3>3
  <2>3. QED
    BY <1>7, <2>1, <2>2
<1>10. Saldos'
  <2> SUFFICES ASSUME NEW q \in Publicacoes, NEW v \in Usuarios
               PROVE  /\ aceitos'[q][v] > 0 => v \in alvo[q] /\ smtp
                      /\ aceitos'[q][v] + Cardinality(Restam(q, v)') <= Vezes(q)
                      /\ smtp /\ v \in alvo[q] \ recusas'[q] =>
                            aceitos'[q][v] + Cardinality(Restam(q, v)') = Vezes(q)
    BY DEF Saldos, Vezes
  <2>1. /\ aceitos[q][v] > 0 => v \in alvo[q] /\ smtp
        /\ aceitos[q][v] + Cardinality(Restam(q, v)) <= Vezes(q)
        /\ smtp /\ v \in alvo[q] \ recusas[q] =>
              aceitos[q][v] + Cardinality(Restam(q, v)) = Vezes(q)
    BY DEF IInv, Saldos
  <2>2. CASE q # p \/ v # u
    <3>1. aceitos'[q][v] = aceitos[q][v] /\ (v \in recusas'[q] <=> v \in recusas[q])
      BY <1>3, <2>2
    <3>2. \A j \in DOMAIN canais[q] : v \in lacos'[q][j].resta <=> v \in lacos[q][j].resta
      <4>1. CASE q # p
        BY <1>6, <4>1
      <4>2. CASE q = p /\ v # u
        <5>1. \A j \in DOMAIN canais[p] : j # i => lacos'[p][j] = lacos[p][j]
          BY <1>6
        <5>2. lacos'[p][i].resta = lacos[p][i].resta \ {u}
          BY <1>6 DEF Resolvido
        <5>3. QED
          BY <4>2, <5>1, <5>2
      <4>3. QED
        BY <2>2, <4>1, <4>2
    <3>3. Restam(q, v)' = Restam(q, v)
      BY <3>2 DEF Restam
    <3>4. QED
      BY <2>1, <3>1, <3>3
  <2>3. CASE q = p /\ v = u
    <3>1. Restam(p, u)' = Restam(p, u) \ {i} /\ i \in Restam(p, u)
      <4>1. \A j \in DOMAIN canais[p] : j # i => lacos'[p][j] = lacos[p][j]
        BY <1>6
      <4>2. lacos'[p][i].resta = lacos[p][i].resta \ {u}
        BY <1>6 DEF Resolvido
      <4>3. QED
        BY <4>1, <4>2 DEF Restam
    <3>2. /\ IsFiniteSet(Restam(p, u)) /\ Cardinality(Restam(p, u)) \in Nat
          /\ Vezes(p) \in Nat
      BY <1>1, VezesLimitadas DEF IInv
    <3>3. Cardinality(Restam(p, u)') = Cardinality(Restam(p, u)) - 1
      BY <3>1, <3>2, FS_RemoveElement
    <3>4. u \in alvo[p] /\ smtp
      BY <1>2 DEF Envia
    <3>5. /\ aceitos'[p][u] \in Nat /\ aceitos[p][u] \in Nat
          /\ aceitos'[p][u] = aceitos[p][u] \/ aceitos'[p][u] = aceitos[p][u] + 1
          /\ u \notin recusas'[p] => u \notin recusas[p] /\ aceitos'[p][u] = aceitos[p][u] + 1
      BY <1>1, <1>3
    <3>6. /\ aceitos[p][u] + Cardinality(Restam(p, u)) <= Vezes(p)
          /\ u \notin recusas[p] => aceitos[p][u] + Cardinality(Restam(p, u)) = Vezes(p)
      BY <2>1, <2>3, <3>4
    <3>7. /\ aceitos'[p][u] + Cardinality(Restam(p, u)') <= Vezes(p)
          /\ u \notin recusas'[p] => aceitos'[p][u] + Cardinality(Restam(p, u)') = Vezes(p)
      BY <3>2, <3>3, <3>5, <3>6
    <3>8. QED
      BY <2>3, <3>4, <3>7
  <2>4. QED
    BY <2>2, <2>3
<1>11. TypeOK' /\ Andamento'
  <2>1. aceitos' \in [Publicacoes -> [Usuarios -> 0..MaxCanais]]
    <3>1. aceitos' = aceitos \/ Aceitar(p, u)
      BY DEF Resolvido
    <3>2. CASE aceitos' = aceitos
      BY <3>2 DEF IInv, TypeOK
    <3>3. CASE Aceitar(p, u)
      <4>1. aceitos \in [Publicacoes -> [Usuarios -> 0..MaxCanais]] /\ MaxCanais \in Nat
        BY DEF IInv, TypeOK, ComunicacaoAssumption
      <4>2. aceitos[p][u] + 1 \in 0..MaxCanais
        <5>1. Vezes(p) \in 0..MaxCanais /\ Vezes(p)' = Vezes(p)
          BY VezesLimitadas DEF IInv, Vezes
        <5>2. Restam(p, u)' = Restam(p, u) \ {i} /\ IsFiniteSet(Restam(p, u))
          <6>1. \A j \in DOMAIN canais[p] : j # i => lacos'[p][j] = lacos[p][j]
            BY <1>6
          <6>2. lacos'[p][i].resta = lacos[p][i].resta \ {u}
            BY <1>6 DEF Resolvido
          <6>3. QED
            BY <1>1, <6>1, <6>2, VezesLimitadas DEF IInv, Restam
        <5>3. Cardinality(Restam(p, u)') \in Nat
          BY <5>2, FS_Subset, FS_CardinalityType
        <5>4. aceitos'[p][u] + Cardinality(Restam(p, u)') <= Vezes(p)
          BY <1>1, <1>10, <5>1 DEF Saldos
        <5>5. aceitos'[p][u] = aceitos[p][u] + 1 /\ aceitos[p][u] \in Nat
          BY <1>1, <3>3, <4>1 DEF Aceitar
        <5>6. QED
          BY <4>1, <5>1, <5>3, <5>4, <5>5
      <4>3. [aceitos[p] EXCEPT ![u] = @ + 1] \in [Usuarios -> 0..MaxCanais]
        BY <1>1, <4>1, <4>2
      <4>4. QED
        BY <3>3, <4>1, <4>3 DEF Aceitar
    <3>4. QED
      BY <3>1, <3>2, <3>3
  <2>2. resultado' \in [Publicacoes -> [CANAIS_VALIDOS -> EnvioResultado \cup {Nenhum}]]
    <3>1. Cardinality(alvo[p]) \in Contagem
      BY <1>2, <1>4, ContadoSoma, FS_Subset, FS_CardinalityType DEF Contagem, ComunicacaoAssumption
    <3>2. Retorno(laco, alvo[p]) \in EnvioResultado
      BY <1>5, <3>1 DEF Retorno, EnvioResultado, Laco
    <3>3. [resultado[p] EXCEPT ![canais[p][i]] = Retorno(laco, alvo[p])]
             \in [CANAIS_VALIDOS -> EnvioResultado \cup {Nenhum}]
      BY <3>2 DEF IInv, TypeOK
    <3>4. QED
      BY <3>3 DEF IInv, TypeOK, Avancar
  <2>3. /\ pc' \in [Publicacoes -> {"inicio", "enviando", "salvar", "evento", "400", "500", "morto"}]
        /\ pc'[p] \in {"salvar", "enviando"}
        /\ \A q \in Publicacoes : q # p => pc'[q] = pc[q]
        /\ pc'[p] = "salvar" => /\ Terminou(laco)
                                /\ \A j \in DOMAIN canais[p] \ {i} : Terminou(lacos[p][j])
    BY DEF IInv, TypeOK, Avancar
  <2>4. TypeOK'
    <3>1. \A q \in Publicacoes : DOMAIN lacos'[q] = DOMAIN canais[q]
      BY <1>6 DEF IInv, TypeOK
    <3>2. recusas' \in [Publicacoes -> SUBSET Usuarios] /\ lacos' \in [Publicacoes -> Seq(Laco)]
      BY <1>3, <1>6
    <3>3. QED
      BY <2>1, <2>2, <2>3, <3>1, <3>2 DEF IInv, TypeOK
  <2>5. Andamento'
    <3> SUFFICES ASSUME NEW q \in Publicacoes
                 PROVE  /\ pc'[q] = "inicio" => /\ canais[q] = Nenhum /\ lacos'[q] = Nenhum
                                                /\ alvo[q] = {} /\ recusas'[q] = {}
                                                /\ \A v \in Usuarios : aceitos'[q][v] = 0
                        /\ q \in comunicados => pc'[q] \in {"evento", "500", "morto"} /\ Acabou(q)'
                        /\ pc'[q] \in {"salvar", "evento"} => Acabou(q)'
      BY DEF Andamento, Nenhum
    <3>1. CASE q # p
      <4>1. /\ pc'[q] = pc[q] /\ lacos'[q] = lacos[q] /\ recusas'[q] = recusas[q]
            /\ \A v \in Usuarios : aceitos'[q][v] = aceitos[q][v]
        BY <1>3, <1>6, <2>3, <3>1
      <4>2. Acabou(q)' <=> Acabou(q)
        BY <4>1 DEF Acabou, Terminou
      <4>3. QED
        BY <4>1, <4>2 DEF IInv, Andamento
    <3>2. CASE q = p
      <4>1. q \notin comunicados
        BY <3>2 DEF IInv, Andamento
      <4>2. pc'[p] = "salvar" => Acabou(p)'
        BY <1>6, <2>3 DEF Acabou, Terminou
      <4>3. QED
        BY <2>3, <3>2, <4>1, <4>2
    <3>3. QED
      BY <3>1, <3>2
  <2>6. QED
    BY <2>4, <2>5
<1>12. QED
  BY <1>8, <1>9, <1>10, <1>11 DEF IInv

\* sendMail resolved or rejected for one user.
LEMMA EnviosIInv ==
    ASSUME ComunicacaoAssumption, IInv, NEW p \in Publicacoes, NEW i \in DOMAIN canais[p],
           NEW u \in alvo[p], Enviar(p, i, u) \/ FalharEnvio(p, i, u)
    PROVE  IInv'
<1>1. lacos[p][i] \in Laco /\ u \in lacos[p][i].resta /\ pc[p] = "enviando"
  <2>1. lacos[p] \in Seq(Laco) /\ DOMAIN lacos[p] = DOMAIN canais[p]
    BY DEF IInv, TypeOK
  <2>2. QED
    BY <2>1, LenProperties DEF Enviar, FalharEnvio
<1>2. falhas' \in 0..MaxFalhas
  BY DEF IInv, TypeOK, ComunicacaoAssumption, Enviar, FalharEnvio, Falhar
<1>3. CASE Enviar(p, i, u)
  <2> DEFINE laco == [lacos[p][i] EXCEPT !.resta = @ \ {u}, !.enviados = @ + 1]
  <2>1. /\ laco = [resta |-> laco.resta, enviados |-> laco.enviados, falhas |-> laco.falhas]
        /\ laco.resta = lacos[p][i].resta \ {u}
        /\ laco.enviados = lacos[p][i].enviados + 1 /\ laco.falhas = lacos[p][i].falhas
    <3>1. laco = [resta |-> lacos[p][i].resta \ {u}, enviados |-> lacos[p][i].enviados + 1,
                   falhas |-> lacos[p][i].falhas]
      BY <1>1, LacoEnvia, Zenon
    <3> HIDE DEF laco
    <3>2. QED
      BY <3>1
  <2>2. /\ Avancar(p, i, laco) /\ UNCHANGED <<smtp, canais, alvo, comunicados>>
        /\ recusas' = recusas /\ Aceitar(p, u)
    BY <1>3 DEF Enviar
  <2>3. Resolvido(p, i, u, laco)
    BY <2>1, <2>2 DEF Resolvido
  <2> HIDE DEF laco
  <2>4. QED
    BY <1>1, <1>2, <2>1, <2>2, <2>3, ResolvidoIInv
<1>4. CASE FalharEnvio(p, i, u)
  <2> DEFINE laco == [lacos[p][i] EXCEPT !.resta = @ \ {u}, !.falhas = @ + 1]
  <2>1. /\ laco = [resta |-> laco.resta, enviados |-> laco.enviados, falhas |-> laco.falhas]
        /\ laco.resta = lacos[p][i].resta \ {u}
        /\ laco.enviados = lacos[p][i].enviados /\ laco.falhas = lacos[p][i].falhas + 1
    <3>1. laco = [resta |-> lacos[p][i].resta \ {u}, enviados |-> lacos[p][i].enviados,
                   falhas |-> lacos[p][i].falhas + 1]
      BY <1>1, LacoFalha, Zenon
    <3> HIDE DEF laco
    <3>2. QED
      BY <3>1
  <2>2. /\ Avancar(p, i, laco) /\ UNCHANGED <<smtp, canais, alvo, comunicados>>
        /\ recusas' = [recusas EXCEPT ![p] = @ \cup {u}] /\ (aceitos' = aceitos \/ Aceitar(p, u))
    BY <1>4 DEF FalharEnvio
  <2>3. Resolvido(p, i, u, laco)
    BY <2>1, <2>2 DEF Resolvido
  <2> HIDE DEF laco
  <2>4. QED
    BY <1>1, <1>2, <2>1, <2>2, <2>3, ResolvidoIInv
<1>5. QED
  BY <1>3, <1>4

-----------------------------------------------------------------------------
(* A publication starts. *)

LEMMA ResolverTipo ==
    ASSUME ComunicacaoAssumption, NEW segmento, NEW inad
    PROVE  resolver(segmento, inad) \in SUBSET Usuarios
BY DEF ComunicacaoAssumption, resolver

LEMMA ListaContavel ==
    ASSUME ComunicacaoAssumption, NEW lista \in Listas
    PROVE  /\ \E n \in 1..MaxCanais : lista \in [1..n -> CANAIS_VALIDOS]
           /\ \A T \in SUBSET DOMAIN lista : Cardinality(T) \in Nat
<1>1. PICK n \in 1..MaxCanais : lista \in [1..n -> CANAIS_VALIDOS]
  BY DEF Listas
<1>2. DOMAIN lista = 1..n /\ IsFiniteSet(1..n)
  BY <1>1, FS_Interval DEF ComunicacaoAssumption
<1>3. QED
  BY <1>1, <1>2, FS_Subset, FS_CardinalityType

\* What a loop starts with is counted: nobody yet, or a failure for everyone.
LEMMA InicioContado ==
    ASSUME ComunicacaoAssumption, NEW S \in SUBSET Usuarios, NEW c \in CANAIS_VALIDOS, NEW A, NEW R
    PROVE  /\ LacoInicial(c, S) \in Laco /\ LacoInicial(c, S).resta \subseteq S
           /\ LacoInicial(c, S).resta = IF Envia(c) THEN S ELSE {}
           /\ Contado(Envia(c), S \ LacoInicial(c, S).resta, LacoInicial(c, S).enviados,
                      LacoInicial(c, S).falhas, A, R)
           /\ Cardinality(S) \in Contagem
<1>1. IsFiniteSet(S) /\ Cardinality(S) \in Contagem /\ Cardinality(Usuarios) \in Nat
  BY FS_Subset, FS_CardinalityType DEF ComunicacaoAssumption, Contagem
<1>2. Cardinality({}) = 0 /\ 0 \in Contagem
  BY <1>1, FS_EmptySet DEF Contagem
<1>3. CASE Envia(c)
  <2>1. LacoInicial(c, S) = [resta |-> S, enviados |-> 0, falhas |-> 0]
    BY <1>3 DEF LacoInicial, Envia
  <2>2. Contado(Envia(c), S \ S, 0, 0, A, R)
    <3>1. {} \in SUBSET (S \ S) /\ (S \ S) \ {} = {}
      OBVIOUS
    <3>2. QED
      BY <1>2, <3>1 DEF Contado
  <2>3. /\ LacoInicial(c, S).resta = S
        /\ LacoInicial(c, S).enviados = 0 /\ LacoInicial(c, S).falhas = 0
    BY <2>1
  <2>4. LacoInicial(c, S) \in Laco
    BY <1>2, <2>1 DEF Laco
  <2>5. QED
    BY <1>1, <1>3, <2>2, <2>3, <2>4
<1>4. CASE ~Envia(c)
  <2>1. LacoInicial(c, S) = [resta |-> {}, enviados |-> 0, falhas |-> Cardinality(S)]
    BY <1>4 DEF LacoInicial, Envia
  <2>2. Contado(Envia(c), S \ {}, 0, Cardinality(S), A, R)
    <3>1. {} \in SUBSET (S \ {}) /\ (S \ {}) \ {} = S
      OBVIOUS
    <3>2. QED
      BY <1>2, <1>4, <3>1 DEF Contado
  <2>3. QED
    BY <1>1, <1>2, <1>4, <2>1, <2>2 DEF Laco
<1>5. QED
  BY <1>3, <1>4

LEMMA PublicarIInv ==
    ASSUME ComunicacaoAssumption, IInv, NEW p \in Publicacoes, NEW lista \in Listas,
           NEW S \in SUBSET Usuarios, Publicar(p, lista, S)
    PROVE  IInv'
<1> DEFINE inicio == [i \in DOMAIN lista |-> LacoInicial(lista[i], S)]
           prontos == {i \in DOMAIN lista : Terminou(inicio[i])}
           pronto(c) == \E i \in prontos : lista[i] = c
<1>1. PICK n \in 1..MaxCanais : lista \in [1..n -> CANAIS_VALIDOS]
  BY ListaContavel
<1>2. DOMAIN lista = 1..n /\ n \in Nat /\ \A i \in DOMAIN lista : lista[i] \in CANAIS_VALIDOS
  BY <1>1 DEF ComunicacaoAssumption
<1>3. inicio \in Seq(Laco) /\ DOMAIN inicio = DOMAIN lista
  <2>1. inicio \in [1..n -> Laco]
    BY <1>2, InicioContado
  <2>2. QED
    BY <1>2, <2>1, SeqDef
<1>4. /\ pc[p] = "inicio" /\ smtp' = smtp
      /\ aceitos' = aceitos /\ recusas' = recusas /\ comunicados' = comunicados /\ falhas' = falhas
  BY DEF Publicar
<1>5. /\ canais' \in [Publicacoes -> Listas \cup {Nenhum}]
      /\ canais'[p] = lista /\ \A q \in Publicacoes : q # p => canais'[q] = canais[q]
      /\ alvo' \in [Publicacoes -> SUBSET Usuarios]
      /\ alvo'[p] = S /\ \A q \in Publicacoes : q # p => alvo'[q] = alvo[q]
  BY DEF Publicar, IInv, TypeOK
<1>6. /\ lacos' \in [Publicacoes -> Seq(Laco)]
      /\ lacos'[p] = inicio /\ \A q \in Publicacoes : q # p => lacos'[q] = lacos[q]
  BY <1>3 DEF Publicar, IInv, TypeOK
<1>7. /\ resultado' \in [Publicacoes -> [CANAIS_VALIDOS -> EnvioResultado \cup {Nenhum}]]
      /\ \A c \in CANAIS_VALIDOS :
            resultado'[p][c] = IF pronto(c) THEN Retorno(LacoInicial(c, S), S) ELSE Nenhum
      /\ \A q \in Publicacoes : q # p => resultado'[q] = resultado[q]
  <2> DEFINE novo == [c \in CANAIS_VALIDOS |->
                        IF pronto(c) THEN Retorno(LacoInicial(c, S), S) ELSE Nenhum]
  <2>1. \A c \in CANAIS_VALIDOS : Retorno(LacoInicial(c, S), S) \in EnvioResultado
    BY InicioContado DEF Retorno, EnvioResultado, Laco
  <2>2. novo \in [CANAIS_VALIDOS -> EnvioResultado \cup {Nenhum}]
    BY <2>1
  <2>3. resultado' = [resultado EXCEPT ![p] = novo]
    BY DEF Publicar
  <2>4. \A c \in CANAIS_VALIDOS :
            novo[c] = IF pronto(c) THEN Retorno(LacoInicial(c, S), S) ELSE Nenhum
    OBVIOUS
  <2> HIDE DEF novo
  <2>5. QED
    BY <2>2, <2>3, <2>4 DEF IInv, TypeOK
<1>8. /\ pc' \in [Publicacoes -> {"inicio", "enviando", "salvar", "evento", "400", "500", "morto"}]
      /\ pc'[p] \in {"salvar", "enviando"} /\ (pc'[p] = "salvar" => prontos = DOMAIN lista)
      /\ \A q \in Publicacoes : q # p => pc'[q] = pc[q]
  BY DEF Publicar, IInv, TypeOK
<1>9. \A q \in Publicacoes : DOMAIN lacos'[q] = DOMAIN canais'[q]
  BY <1>3, <1>5, <1>6 DEF IInv, TypeOK
<1> HIDE DEF inicio, prontos, pronto
<1>10. TypeOK'
  BY <1>4, <1>5, <1>6, <1>7, <1>8, <1>9 DEF IInv, TypeOK
<1>11. LacosContados'
  <2> SUFFICES ASSUME NEW q \in Publicacoes, NEW j \in DOMAIN canais'[q]
               PROVE  /\ Contado(Envia(canais'[q][j]), alvo'[q] \ lacos'[q][j].resta,
                                 lacos'[q][j].enviados, lacos'[q][j].falhas,
                                 aceitos[q], recusas[q])
                      /\ lacos'[q][j].resta \subseteq alvo'[q]
                      /\ lacos'[q][j].resta # {} => Envia(canais'[q][j])
                      /\ Terminou(lacos'[q][j]) => resultado'[q][canais'[q][j]] # Nenhum
    BY <1>4 DEF LacosContados, Envia, Terminou, Nenhum
  <2>1. CASE q = p
    <3>1. j \in DOMAIN lista /\ canais'[q][j] = lista[j] /\ lista[j] \in CANAIS_VALIDOS
      BY <1>2, <1>5, <2>1
    <3>2. lacos'[q][j] = LacoInicial(lista[j], S)
      BY <1>6, <2>1, <3>1 DEF inicio
    <3>3. Terminou(lacos'[q][j]) => resultado'[p][lista[j]] # Nenhum
      <4>1. Terminou(lacos'[q][j]) => pronto(lista[j])
        BY <3>1, <3>2 DEF pronto, prontos, inicio
      <4>2. QED
        BY <1>7, <3>1, <4>1, RetornoExiste
    <3>4. QED
      BY <1>5, <2>1, <3>1, <3>2, <3>3, InicioContado
  <2>2. CASE q # p
    <3>1. /\ canais'[q] = canais[q] /\ alvo'[q] = alvo[q] /\ lacos'[q] = lacos[q]
          /\ resultado'[q] = resultado[q]
      BY <1>5, <1>6, <1>7, <2>2
    <3>2. QED
      BY <3>1 DEF IInv, LacosContados
  <2>3. QED
    BY <2>1, <2>2
<1>12. RetornosContados'
  <2> SUFFICES ASSUME NEW q \in Publicacoes, NEW c \in CANAIS_VALIDOS, resultado'[q][c] # Nenhum
               PROVE  /\ resultado'[q][c].destinatarios = Cardinality(alvo'[q])
                      /\ Contado(Envia(c), alvo'[q], resultado'[q][c].enviados,
                                 resultado'[q][c].falhas, aceitos[q], recusas[q])
    BY <1>4 DEF RetornosContados, Envia, Nenhum
  <2>1. CASE q = p
    <3>1. pronto(c) /\ resultado'[q][c] = Retorno(LacoInicial(c, S), S)
      BY <1>7, <2>1
    <3>2. LacoInicial(c, S).resta = {}
      BY <3>1 DEF pronto, prontos, inicio, Terminou
    <3>3. S \ LacoInicial(c, S).resta = S
      BY <3>2
    <3>4. Contado(Envia(c), S, LacoInicial(c, S).enviados, LacoInicial(c, S).falhas,
                  aceitos[q], recusas[q])
      <4>1. Contado(Envia(c), S \ LacoInicial(c, S).resta, LacoInicial(c, S).enviados,
                    LacoInicial(c, S).falhas, aceitos[q], recusas[q])
        BY InicioContado
      <4>2. QED
        BY <3>3, <4>1
    <3>5. QED
      BY <1>5, <2>1, <3>1, <3>4 DEF Retorno
  <2>2. CASE q # p
    BY <1>5, <1>7, <2>2 DEF IInv, RetornosContados
  <2>3. QED
    BY <2>1, <2>2
<1>13. Saldos'
  <2> SUFFICES ASSUME NEW q \in Publicacoes, NEW v \in Usuarios
               PROVE  /\ aceitos[q][v] > 0 => v \in alvo'[q] /\ smtp
                      /\ aceitos[q][v] + Cardinality(Restam(q, v)') <= Vezes(q)'
                      /\ smtp /\ v \in alvo'[q] \ recusas[q] =>
                            aceitos[q][v] + Cardinality(Restam(q, v)') = Vezes(q)'
    BY <1>4 DEF Saldos
  <2>1. CASE q = p
    <3> DEFINE emails == {i \in DOMAIN lista : lista[i] = "EMAIL"}
    <3>1. aceitos[p][v] = 0
      BY <1>4 DEF IInv, Andamento
    <3>2. Vezes(p)' = Cardinality(emails) /\ Cardinality(emails) \in Nat
      BY <1>5, ListaContavel DEF Vezes
    <3>3. Restam(p, v)' = {i \in DOMAIN lista : v \in LacoInicial(lista[i], S).resta}
      BY <1>5, <1>6 DEF Restam, inicio
    <3>4. \A i \in DOMAIN lista :
             v \in LacoInicial(lista[i], S).resta <=> lista[i] = "EMAIL" /\ smtp /\ v \in S
      <4>1. \A i \in DOMAIN lista :
               LacoInicial(lista[i], S).resta = IF Envia(lista[i]) THEN S ELSE {}
        BY <1>2, InicioContado
      <4>2. QED
        BY <4>1 DEF Envia
    <3>5. Restam(p, v)' = IF smtp /\ v \in S THEN emails ELSE {}
      BY <3>3, <3>4
    <3>6. Cardinality({}) = 0
      BY FS_EmptySet
    <3> HIDE DEF emails
    <3>7. QED
      BY <1>5, <2>1, <3>1, <3>2, <3>5, <3>6
  <2>2. CASE q # p
    <3>1. Restam(q, v)' = Restam(q, v) /\ Vezes(q)' = Vezes(q) /\ alvo'[q] = alvo[q]
      BY <1>5, <1>6, <2>2 DEF Restam, Vezes
    <3>2. QED
      BY <3>1 DEF IInv, Saldos
  <2>3. QED
    BY <2>1, <2>2
<1>14. Andamento'
  <2> SUFFICES ASSUME NEW q \in Publicacoes
               PROVE  /\ pc'[q] = "inicio" => /\ canais'[q] = Nenhum /\ lacos'[q] = Nenhum
                                              /\ alvo'[q] = {} /\ recusas[q] = {}
                                              /\ \A v \in Usuarios : aceitos[q][v] = 0
                      /\ q \in comunicados => pc'[q] \in {"evento", "500", "morto"} /\ Acabou(q)'
                      /\ pc'[q] \in {"salvar", "evento"} => Acabou(q)'
    BY <1>4 DEF Andamento, Nenhum
  <2>1. CASE q = p
    <3>1. q \notin comunicados
      BY <1>4, <2>1 DEF IInv, Andamento
    <3>2. prontos = DOMAIN lista => Acabou(p)'
      BY <1>5, <1>6 DEF prontos, inicio, Acabou, Terminou
    <3>3. QED
      BY <1>8, <2>1, <3>1, <3>2
  <2>2. CASE q # p
    <3>1. /\ canais'[q] = canais[q] /\ alvo'[q] = alvo[q] /\ lacos'[q] = lacos[q] /\ pc'[q] = pc[q]
      BY <1>5, <1>6, <1>8, <2>2
    <3>2. Acabou(q)' <=> Acabou(q)
      BY <3>1 DEF Acabou, Terminou
    <3>3. QED
      BY <3>1, <3>2 DEF IInv, Andamento
  <2>3. QED
    BY <2>1, <2>2
<1>15. QED
  BY <1>10, <1>11, <1>12, <1>13, <1>14 DEF IInv

-----------------------------------------------------------------------------
(* The other steps touch neither the loops nor what they count. *)

LEMMA RestoIInv ==
    ASSUME ComunicacaoAssumption, IInv,
           \/ \E p \in Publicacoes : \/ Recusar(p) \/ Salvar(p) \/ FalharSalvar(p)
                                     \/ RecusarOutbox(p)
           \/ Queda
           \/ UNCHANGED vars
    PROVE  IInv'
<1>1. UNCHANGED <<smtp, envioVars>>
  BY DEF Recusar, Salvar, FalharSalvar, RecusarOutbox, Queda, vars
<1>2. falhas' \in 0..MaxFalhas
  BY DEF IInv, TypeOK, ComunicacaoAssumption, Recusar, Salvar, FalharSalvar, RecusarOutbox, Queda,
         Falhar, vars
<1>3. /\ pc' \in [Publicacoes -> {"inicio", "enviando", "salvar", "evento", "400", "500", "morto"}]
      /\ comunicados' \subseteq Publicacoes
      /\ \A q \in Publicacoes :
            \/ pc'[q] = pc[q] /\ (q \in comunicados' <=> q \in comunicados)
            \/ /\ pc[q] = "inicio" /\ pc'[q] = "400" /\ (q \in comunicados' <=> q \in comunicados)
            \/ /\ pc[q] = "salvar" /\ pc'[q] \in {"evento", "500"}
            \/ /\ pc[q] = "evento" /\ pc'[q] = "500" /\ (q \in comunicados' <=> q \in comunicados)
            \/ /\ Ativa(q) /\ pc'[q] = "morto" /\ (q \in comunicados' <=> q \in comunicados)
  <2>1. CASE \E p \in Publicacoes : Recusar(p) \/ RecusarOutbox(p)
    BY <2>1 DEF IInv, TypeOK, Recusar, RecusarOutbox
  <2>2. CASE \E p \in Publicacoes : Salvar(p) \/ FalharSalvar(p)
    BY <2>2 DEF IInv, TypeOK, Salvar, FalharSalvar
  <2>3. CASE Queda
    BY <2>3 DEF IInv, TypeOK, Queda
  <2>4. CASE UNCHANGED vars
    BY <2>4 DEF IInv, TypeOK, vars
  <2>5. QED
    BY <2>1, <2>2, <2>3, <2>4
<1>4. TypeOK'
  BY <1>1, <1>2, <1>3 DEF IInv, TypeOK, envioVars
<1>5. LacosContados' /\ RetornosContados'
  BY <1>1 DEF IInv, LacosContados, RetornosContados, Envia, Terminou, envioVars
<1>6. Saldos'
  BY <1>1 DEF IInv, Saldos, Restam, Vezes, envioVars
<1>7. Andamento'
  <2>1. \A q \in Publicacoes : Acabou(q)' <=> Acabou(q)
    BY <1>1 DEF Acabou, Terminou, envioVars
  <2>2. QED
    BY <1>1, <1>3, <2>1 DEF IInv, Andamento, envioVars, Ativa
<1>8. QED
  BY <1>4, <1>5, <1>6, <1>7 DEF IInv

-----------------------------------------------------------------------------

LEMMA InitIInv == ASSUME ComunicacaoAssumption, Init PROVE IInv
<1>1. Cardinality({}) = 0 /\ DOMAIN Nenhum = {} /\ Nenhum \in Seq(Laco)
  BY FS_EmptySet, EmptySeq DEF Nenhum
<1>2. TypeOK
  BY <1>1 DEF Init, TypeOK, ComunicacaoAssumption
<1>3. LacosContados /\ RetornosContados /\ Andamento
  BY <1>1 DEF Init, LacosContados, RetornosContados, Andamento
<1>4. ASSUME NEW p \in Publicacoes, NEW u \in Usuarios
      PROVE  Vezes(p) = 0 /\ Cardinality(Restam(p, u)) = 0 /\ aceitos[p][u] = 0 /\ alvo[p] = {}
  <2>1. DOMAIN canais[p] = {}
    BY <1>1 DEF Init
  <2>2. Restam(p, u) = {} /\ {i \in DOMAIN canais[p] : canais[p][i] = "EMAIL"} = {}
    BY <2>1 DEF Restam
  <2>3. QED
    BY <1>1, <2>2 DEF Vezes, Init
<1>5. Saldos
  BY <1>4 DEF Saldos
<1>6. QED
  BY <1>2, <1>3, <1>5 DEF IInv

LEMMA NextIInv == ASSUME ComunicacaoAssumption, IInv, [Next]_vars PROVE IInv'
<1>1. ASSUME NEW p \in Publicacoes, Pedir(p) PROVE IInv'
  <2>1. CASE Recusar(p)
    BY <2>1, RestoIInv
  <2>2. CASE \E lista \in Listas, segmento \in {"TODOS", "INADIMPLENTES"} \cup Blocos,
                inad \in SUBSET Unidades : Publicar(p, lista, resolver(segmento, inad))
    BY <2>2, PublicarIInv, ResolverTipo
  <2>3. QED
    BY <1>1, <2>1, <2>2 DEF Pedir
<1>2. ASSUME NEW p \in Publicacoes, Passo(p) PROVE IInv'
  <2>1. CASE \E i \in DOMAIN canais[p], u \in alvo[p] : Enviar(p, i, u) \/ FalharEnvio(p, i, u)
    BY <2>1, EnviosIInv
  <2>2. CASE Salvar(p) \/ FalharSalvar(p) \/ RecusarOutbox(p)
    BY <2>2, RestoIInv
  <2>3. QED
    BY <1>2, <2>1, <2>2 DEF Passo
<1>3. CASE Queda \/ UNCHANGED vars
  BY <1>3, RestoIInv
<1>4. QED
  BY <1>1, <1>2, <1>3 DEF Next

LEMMA Invariante == ASSUME ComunicacaoAssumption PROVE Spec => []IInv
<1>1. Init => IInv
  BY InitIInv
<1>2. IInv /\ [Next]_vars => IInv'
  BY NextIInv
<1>3. QED
  BY <1>1, <1>2, PTL DEF Spec

\* Type correctness: among it, no counter of a loop exceeds the number of users, and nobody
\* gets more e-mails than the list of channels is long.
THEOREM TypeCorrect == ASSUME ComunicacaoAssumption PROVE Spec => []TypeOK
<1>1. IInv => TypeOK
  BY DEF IInv
<1>2. QED
  BY <1>1, Invariante, PTL

\* The saved report accounts for every recipient in each channel, and claims neither e-mails
\* the server did not take nor failures nobody saw, however the loops interleave.
THEOREM ResultadoVerdadeiro == ASSUME ComunicacaoAssumption PROVE Spec => []ResultadoConfiavel
<1>1. ASSUME IInv PROVE ResultadoConfiavel
  <2> SUFFICES ASSUME NEW p \in comunicados, NEW i \in DOMAIN canais[p]
               PROVE  LET r == resultado[p][canais[p][i]] IN
                      /\ r.destinatarios = Cardinality(alvo[p])
                      /\ r.enviados + r.falhas = r.destinatarios
                      /\ r.enviados <= Cardinality({u \in alvo[p] : aceitos[p][u] > 0})
                      /\ canais[p][i] = "EMAIL" /\ smtp => r.falhas <= Cardinality(recusas[p])
    BY DEF ResultadoConfiavel, Codigos
  <2>1. p \in Publicacoes /\ alvo[p] \in SUBSET Usuarios
    BY <1>1 DEF IInv, TypeOK
  <2>2. canais[p][i] \in CANAIS_VALIDOS
    BY <1>1, <2>1, CanalValido DEF IInv
  <2>3. Terminou(lacos[p][i])
    BY <1>1, <2>1 DEF IInv, Andamento, Acabou
  <2>4. resultado[p][canais[p][i]] # Nenhum
    BY <1>1, <2>1, <2>3 DEF IInv, LacosContados
  <2> DEFINE r == resultado[p][canais[p][i]]
  <2>5. /\ r.destinatarios = Cardinality(alvo[p])
        /\ Contado(Envia(canais[p][i]), alvo[p], r.enviados, r.falhas, aceitos[p], recusas[p])
    BY <1>1, <2>1, <2>2, <2>4 DEF IInv, RetornosContados
  <2>6. IsFiniteSet(recusas[p])
    BY <1>1, <2>1, ListaFinita DEF IInv
  <2>7. /\ r.enviados + r.falhas = Cardinality(alvo[p])
        /\ r.enviados <= Cardinality({u \in alvo[p] : aceitos[p][u] > 0})
        /\ Envia(canais[p][i]) => r.falhas <= Cardinality(recusas[p])
    <3> HIDE DEF r
    <3>1. PICK m \in BOOLEAN : m = Envia(canais[p][i])
      BY DEF Envia
    <3>2. PICK a, b : a = r.enviados /\ b = r.falhas
      OBVIOUS
    <3>3. Contado(m, alvo[p], a, b, aceitos[p], recusas[p])
      BY <2>5, <3>1, <3>2
    <3>4. /\ a + b = Cardinality(alvo[p])
          /\ a <= Cardinality(Servidos(alvo[p], aceitos[p]))
          /\ m /\ IsFiniteSet(recusas[p]) => b <= Cardinality(recusas[p])
      BY <2>1, <3>3, ContadoSoma
    <3>5. QED
      BY <2>6, <3>1, <3>2, <3>4 DEF Servidos
  <2>8. QED
    BY <2>5, <2>7 DEF Envia
<1>2. QED
  BY <1>1, Invariante, PTL

\* Once the dispatch is over, every recipient for whom no send rejected has an e-mail for each
\* time EMAIL is listed, and nobody else has any.
THEOREM TodosAtendidos == ASSUME ComunicacaoAssumption PROVE Spec => []NinguemPreterido
<1>1. ASSUME IInv PROVE NinguemPreterido
  <2> SUFFICES ASSUME NEW p \in Publicacoes, NEW u \in Usuarios
               PROVE  /\ aceitos[p][u] > 0 => u \in alvo[p] /\ smtp
                      /\ aceitos[p][u] <= Vezes(p)
                      /\ (pc[p] \in {"salvar", "evento"} \/ p \in comunicados)
                            /\ smtp /\ u \in alvo[p] \ recusas[p] => aceitos[p][u] = Vezes(p)
    BY DEF NinguemPreterido
  <2>1. /\ aceitos[p][u] > 0 => u \in alvo[p] /\ smtp
        /\ aceitos[p][u] + Cardinality(Restam(p, u)) <= Vezes(p)
        /\ smtp /\ u \in alvo[p] \ recusas[p] =>
              aceitos[p][u] + Cardinality(Restam(p, u)) = Vezes(p)
    BY <1>1 DEF IInv, Saldos
  <2>2. /\ Vezes(p) \in Nat /\ Cardinality(Restam(p, u)) \in Nat /\ aceitos[p][u] \in Nat
    BY <1>1, VezesLimitadas DEF IInv, TypeOK, ComunicacaoAssumption
  <2>3. Acabou(p) => Cardinality(Restam(p, u)) = 0
    <3>1. Acabou(p) => Restam(p, u) = {}
      BY DEF Acabou, Terminou, Restam
    <3>2. QED
      BY <3>1, FS_EmptySet
  <2>4. pc[p] \in {"salvar", "evento"} \/ p \in comunicados => Acabou(p)
    BY <1>1 DEF IInv, Andamento
  <2>5. QED
    BY <2>1, <2>2, <2>3, <2>4
<1>2. QED
  BY <1>1, Invariante, PTL
=============================================================================
