---------------------------- MODULE SenhaProofs ----------------------------
(* Theorems about Senha, for any number of users, requests, redefinitions and failures. *)
EXTENDS Senha, TLAPS

\* What a request has stored at each step.
PedidosCoerentes ==
    /\ enviados \subseteq tokens
    /\ \A p \in Pedidos :
        /\ pcP[p] = "inicio" => p \notin tokens
        /\ pcP[p] = "token" => dono[p] \in Usuarios
        /\ pcP[p] = "email" => p \in tokens

\* What a redefinition has changed at each step: first the password, then the mark.
RedefinicoesCoerentes ==
    \A r \in Redefinicoes :
        /\ chave[r] \in enviados \cup {Nenhum}
        /\ pcR[r] \in {"inicio", "trocar", "400"} => r \notin trocas
        /\ pcR[r] = "trocar" \/ r \in trocas => chave[r] \in tokens
        /\ pcR[r] \in {"marcar", "200"} => r \in trocas
        /\ pcR[r] = "200" => chave[r] \in usados

\* The mark never comes without the password.
UsadosTrocaram == \A t \in usados : \E q \in trocas : chave[q] = t

\* What was over stays over, and a 200 leaves nothing to the calls that begin after it.
DepoisDoSucesso ==
    \A r \in Redefinicoes :
        /\ antes[r] \subseteq Terminadas
        /\ pcR[r] = "inicio" => antes[r] = {}
        /\ \A q \in antes[r] : chave[q] = chave[r] /\ pcR[q] = "200" => pcR[r] = "400"

TrocasEmVigor ==
    \A r \in trocas : senha[dono[chave[r]]] \in Redefinicoes \ antes[r]

IInv ==
    /\ TypeOK
    /\ PedidosCoerentes
    /\ RedefinicoesCoerentes
    /\ UsadosTrocaram
    /\ DepoisDoSucesso
    /\ TrocasEmVigor
    /\ RecusaJustificada

-----------------------------------------------------------------------------
LEMMA InitIInv == ASSUME SenhaAssumption, Init PROVE IInv
  BY DEF SenhaAssumption, Init, IInv, TypeOK, PedidosCoerentes, RedefinicoesCoerentes, UsadosTrocaram,
         DepoisDoSucesso, Terminadas, TrocasEmVigor, RecusaJustificada
LEMMA BuscarUsuarioIInv ==
  ASSUME SenhaAssumption, IInv, NEW p \in Pedidos, NEW u \in Usuarios, BuscarUsuario(p, u)
  PROVE  IInv'
<1>1. TypeOK'
  BY DEF IInv, BuscarUsuario, TypeOK, PedidosCoerentes, SenhaAssumption, redefVars
<1>2. PedidosCoerentes'
  BY DEF IInv, BuscarUsuario, TypeOK, PedidosCoerentes, redefVars
<1>3. RedefinicoesCoerentes'
  BY DEF IInv, BuscarUsuario, TypeOK, RedefinicoesCoerentes, redefVars
<1>4. UsadosTrocaram'
  BY DEF IInv, BuscarUsuario, UsadosTrocaram, redefVars
<1>5. DepoisDoSucesso'
  BY DEF IInv, BuscarUsuario, DepoisDoSucesso, Terminadas, redefVars
<1>6. TrocasEmVigor'
  BY DEF IInv, BuscarUsuario, TypeOK, PedidosCoerentes, RedefinicoesCoerentes, TrocasEmVigor,
         redefVars
<1>7. RecusaJustificada'
  BY DEF IInv, BuscarUsuario, TypeOK, RedefinicoesCoerentes, RecusaJustificada, SenhaAssumption,
         redefVars
<1>8. QED BY <1>1, <1>2, <1>3, <1>4, <1>5, <1>6, <1>7 DEF IInv

LEMMA DesconhecidoIInv ==
  ASSUME SenhaAssumption, IInv, NEW p \in Pedidos, Desconhecido(p)
  PROVE  IInv'
<1>1. TypeOK'
  BY DEF IInv, Desconhecido, TypeOK, PedidosCoerentes, SenhaAssumption, redefVars
<1>2. PedidosCoerentes'
  BY DEF IInv, Desconhecido, TypeOK, PedidosCoerentes, redefVars
<1>3. RedefinicoesCoerentes'
  BY DEF IInv, Desconhecido, TypeOK, RedefinicoesCoerentes, redefVars
<1>4. UsadosTrocaram'
  BY DEF IInv, Desconhecido, UsadosTrocaram, redefVars
<1>5. DepoisDoSucesso'
  BY DEF IInv, Desconhecido, DepoisDoSucesso, Terminadas, redefVars
<1>6. TrocasEmVigor'
  BY DEF IInv, Desconhecido, TypeOK, PedidosCoerentes, RedefinicoesCoerentes, TrocasEmVigor,
         redefVars
<1>7. RecusaJustificada'
  BY DEF IInv, Desconhecido, TypeOK, RedefinicoesCoerentes, RecusaJustificada, SenhaAssumption,
         redefVars
<1>8. QED BY <1>1, <1>2, <1>3, <1>4, <1>5, <1>6, <1>7 DEF IInv

LEMMA SalvarTokenIInv ==
  ASSUME SenhaAssumption, IInv, NEW p \in Pedidos, SalvarToken(p)
  PROVE  IInv'
<1>1. TypeOK'
  BY DEF IInv, SalvarToken, TypeOK, PedidosCoerentes, SenhaAssumption, redefVars
<1>2. PedidosCoerentes'
  BY DEF IInv, SalvarToken, TypeOK, PedidosCoerentes, redefVars
<1>3. RedefinicoesCoerentes'
  BY DEF IInv, SalvarToken, TypeOK, RedefinicoesCoerentes, redefVars
<1>4. UsadosTrocaram'
  BY DEF IInv, SalvarToken, UsadosTrocaram, redefVars
<1>5. DepoisDoSucesso'
  BY DEF IInv, SalvarToken, DepoisDoSucesso, Terminadas, redefVars
<1>6. TrocasEmVigor'
  BY DEF IInv, SalvarToken, TypeOK, PedidosCoerentes, RedefinicoesCoerentes, TrocasEmVigor,
         redefVars
<1>7. RecusaJustificada'
  BY DEF IInv, SalvarToken, TypeOK, RedefinicoesCoerentes, RecusaJustificada, SenhaAssumption,
         redefVars
<1>8. QED BY <1>1, <1>2, <1>3, <1>4, <1>5, <1>6, <1>7 DEF IInv

LEMMA FalharTokenIInv ==
  ASSUME SenhaAssumption, IInv, NEW p \in Pedidos, FalharToken(p)
  PROVE  IInv'
<1>1. TypeOK'
  BY DEF IInv, FalharToken, TypeOK, PedidosCoerentes, SenhaAssumption, Falhar, redefVars
<1>2. PedidosCoerentes'
  BY DEF IInv, FalharToken, TypeOK, PedidosCoerentes, redefVars
<1>3. RedefinicoesCoerentes'
  BY DEF IInv, FalharToken, TypeOK, RedefinicoesCoerentes, redefVars
<1>4. UsadosTrocaram'
  BY DEF IInv, FalharToken, UsadosTrocaram, redefVars
<1>5. DepoisDoSucesso'
  BY DEF IInv, FalharToken, DepoisDoSucesso, Terminadas, redefVars
<1>6. TrocasEmVigor'
  BY DEF IInv, FalharToken, TypeOK, PedidosCoerentes, RedefinicoesCoerentes, TrocasEmVigor,
         redefVars
<1>7. RecusaJustificada'
  BY DEF IInv, FalharToken, TypeOK, RedefinicoesCoerentes, RecusaJustificada, SenhaAssumption,
         redefVars
<1>8. QED BY <1>1, <1>2, <1>3, <1>4, <1>5, <1>6, <1>7 DEF IInv

LEMMA EnviarIInv ==
  ASSUME SenhaAssumption, IInv, NEW p \in Pedidos, Enviar(p)
  PROVE  IInv'
<1>1. TypeOK'
  BY DEF IInv, Enviar, TypeOK, PedidosCoerentes, SenhaAssumption, redefVars
<1>2. PedidosCoerentes'
  BY DEF IInv, Enviar, TypeOK, PedidosCoerentes, redefVars
<1>3. RedefinicoesCoerentes'
  BY DEF IInv, Enviar, TypeOK, RedefinicoesCoerentes, redefVars
<1>4. UsadosTrocaram'
  BY DEF IInv, Enviar, UsadosTrocaram, redefVars
<1>5. DepoisDoSucesso'
  BY DEF IInv, Enviar, DepoisDoSucesso, Terminadas, redefVars
<1>6. TrocasEmVigor'
  BY DEF IInv, Enviar, TypeOK, PedidosCoerentes, RedefinicoesCoerentes, TrocasEmVigor, redefVars
<1>7. RecusaJustificada'
  BY DEF IInv, Enviar, TypeOK, RedefinicoesCoerentes, RecusaJustificada, SenhaAssumption,
         redefVars
<1>8. QED BY <1>1, <1>2, <1>3, <1>4, <1>5, <1>6, <1>7 DEF IInv

LEMMA VencerIInv ==
  ASSUME SenhaAssumption, IInv, NEW t \in Pedidos, Vencer(t)
  PROVE  IInv'
<1>1. TypeOK'
  BY DEF IInv, Vencer, TypeOK, PedidosCoerentes, SenhaAssumption, redefVars, pedidoVars
<1>2. PedidosCoerentes'
  BY DEF IInv, Vencer, TypeOK, PedidosCoerentes, redefVars, pedidoVars
<1>3. RedefinicoesCoerentes'
  BY DEF IInv, Vencer, TypeOK, RedefinicoesCoerentes, redefVars, pedidoVars
<1>4. UsadosTrocaram'
  BY DEF IInv, Vencer, UsadosTrocaram, redefVars, pedidoVars
<1>5. DepoisDoSucesso'
  BY DEF IInv, Vencer, DepoisDoSucesso, Terminadas, redefVars, pedidoVars
<1>6. TrocasEmVigor'
  BY DEF IInv, Vencer, TypeOK, PedidosCoerentes, RedefinicoesCoerentes, TrocasEmVigor,
         redefVars, pedidoVars
<1>7. RecusaJustificada'
  BY DEF IInv, Vencer, TypeOK, RedefinicoesCoerentes, RecusaJustificada, SenhaAssumption,
         redefVars, pedidoVars
<1>8. QED BY <1>1, <1>2, <1>3, <1>4, <1>5, <1>6, <1>7 DEF IInv

LEMMA BuscarTokenIInv ==
  ASSUME SenhaAssumption, IInv, NEW r \in Redefinicoes, NEW t \in enviados \cup {Nenhum}, BuscarToken(r, t)
  PROVE  IInv'
<1>1. TypeOK'
  <2>1. t \in Pedidos \cup {Nenhum} BY DEF IInv, TypeOK
  <2>2. Terminadas \in SUBSET Redefinicoes BY DEF Terminadas
  <2>3. QED BY <2>1, <2>2 DEF IInv, BuscarToken, TypeOK, pedidoVars
<1>2. PedidosCoerentes'
  BY DEF IInv, BuscarToken, PedidosCoerentes, pedidoVars
<1>3. RedefinicoesCoerentes'
  BY DEF IInv, BuscarToken, TypeOK, PedidosCoerentes, RedefinicoesCoerentes, SenhaAssumption,
         pedidoVars
<1>4. UsadosTrocaram'
  BY DEF IInv, BuscarToken, TypeOK, RedefinicoesCoerentes, UsadosTrocaram, pedidoVars
<1>5. DepoisDoSucesso'
  BY DEF IInv, BuscarToken, TypeOK, RedefinicoesCoerentes, DepoisDoSucesso, Terminadas,
         pedidoVars
<1>6. TrocasEmVigor'
  BY DEF IInv, BuscarToken, TypeOK, PedidosCoerentes, RedefinicoesCoerentes, DepoisDoSucesso,
         Terminadas, TrocasEmVigor, pedidoVars
<1>7. RecusaJustificada'
  BY DEF IInv, BuscarToken, TypeOK, PedidosCoerentes, RedefinicoesCoerentes, UsadosTrocaram,
         RecusaJustificada, SenhaAssumption, pedidoVars
<1>8. QED BY <1>1, <1>2, <1>3, <1>4, <1>5, <1>6, <1>7 DEF IInv

LEMMA TrocarSenhaIInv ==
  ASSUME SenhaAssumption, IInv, NEW r \in Redefinicoes, TrocarSenha(r)
  PROVE  IInv'
<1>1. TypeOK'
  BY DEF IInv, TrocarSenha, TypeOK, PedidosCoerentes, RedefinicoesCoerentes, SenhaAssumption,
         Trocar, pedidoVars
<1>2. PedidosCoerentes'
  BY DEF IInv, TrocarSenha, PedidosCoerentes, pedidoVars
<1>3. RedefinicoesCoerentes'
  BY DEF IInv, TrocarSenha, TypeOK, PedidosCoerentes, RedefinicoesCoerentes, SenhaAssumption,
         Trocar, pedidoVars
<1>4. UsadosTrocaram'
  BY DEF IInv, TrocarSenha, TypeOK, RedefinicoesCoerentes, UsadosTrocaram, Trocar, pedidoVars
<1>5. DepoisDoSucesso'
  BY DEF IInv, TrocarSenha, TypeOK, RedefinicoesCoerentes, DepoisDoSucesso, Terminadas, Trocar,
         pedidoVars
<1>6. TrocasEmVigor'
  BY DEF IInv, TrocarSenha, TypeOK, PedidosCoerentes, RedefinicoesCoerentes, DepoisDoSucesso,
         Terminadas, TrocasEmVigor, Trocar, pedidoVars
<1>7. RecusaJustificada'
  BY DEF IInv, TrocarSenha, TypeOK, PedidosCoerentes, RedefinicoesCoerentes, UsadosTrocaram,
         RecusaJustificada, SenhaAssumption, Trocar, pedidoVars
<1>8. QED BY <1>1, <1>2, <1>3, <1>4, <1>5, <1>6, <1>7 DEF IInv

LEMMA FalharTrocaIInv ==
  ASSUME SenhaAssumption, IInv, NEW r \in Redefinicoes, FalharTroca(r)
  PROVE  IInv'
<1>1. TypeOK'
  BY DEF IInv, FalharTroca, TypeOK, PedidosCoerentes, RedefinicoesCoerentes, SenhaAssumption,
         Falhar, Trocar, pedidoVars
<1>2. PedidosCoerentes'
  BY DEF IInv, FalharTroca, PedidosCoerentes, pedidoVars
<1>3. RedefinicoesCoerentes'
  BY DEF IInv, FalharTroca, TypeOK, PedidosCoerentes, RedefinicoesCoerentes, SenhaAssumption,
         Trocar, pedidoVars
<1>4. UsadosTrocaram'
  BY DEF IInv, FalharTroca, TypeOK, RedefinicoesCoerentes, UsadosTrocaram, Trocar, pedidoVars
<1>5. DepoisDoSucesso'
  BY DEF IInv, FalharTroca, TypeOK, RedefinicoesCoerentes, DepoisDoSucesso, Terminadas, Trocar,
         pedidoVars
<1>6. TrocasEmVigor'
  BY DEF IInv, FalharTroca, TypeOK, PedidosCoerentes, RedefinicoesCoerentes, DepoisDoSucesso,
         Terminadas, TrocasEmVigor, Trocar, pedidoVars
<1>7. RecusaJustificada'
  BY DEF IInv, FalharTroca, TypeOK, PedidosCoerentes, RedefinicoesCoerentes, UsadosTrocaram,
         RecusaJustificada, SenhaAssumption, Trocar, pedidoVars
<1>8. QED BY <1>1, <1>2, <1>3, <1>4, <1>5, <1>6, <1>7 DEF IInv

LEMMA MarcarUsadoIInv ==
  ASSUME SenhaAssumption, IInv, NEW r \in Redefinicoes, MarcarUsado(r)
  PROVE  IInv'
<1>1. TypeOK'
  BY DEF IInv, MarcarUsado, TypeOK, PedidosCoerentes, RedefinicoesCoerentes, SenhaAssumption,
         pedidoVars
<1>2. PedidosCoerentes'
  BY DEF IInv, MarcarUsado, PedidosCoerentes, pedidoVars
<1>3. RedefinicoesCoerentes'
  BY DEF IInv, MarcarUsado, TypeOK, PedidosCoerentes, RedefinicoesCoerentes, SenhaAssumption,
         pedidoVars
<1>4. UsadosTrocaram'
  BY DEF IInv, MarcarUsado, TypeOK, RedefinicoesCoerentes, UsadosTrocaram, pedidoVars
<1>5. DepoisDoSucesso'
  BY DEF IInv, MarcarUsado, TypeOK, RedefinicoesCoerentes, DepoisDoSucesso, Terminadas,
         pedidoVars
<1>6. TrocasEmVigor'
  BY DEF IInv, MarcarUsado, TypeOK, TrocasEmVigor, pedidoVars
<1>7. RecusaJustificada'
  BY DEF IInv, MarcarUsado, TypeOK, PedidosCoerentes, RedefinicoesCoerentes, UsadosTrocaram,
         RecusaJustificada, SenhaAssumption, pedidoVars
<1>8. QED BY <1>1, <1>2, <1>3, <1>4, <1>5, <1>6, <1>7 DEF IInv

LEMMA FalharMarcaIInv ==
  ASSUME SenhaAssumption, IInv, NEW r \in Redefinicoes, FalharMarca(r)
  PROVE  IInv'
<1>1. TypeOK'
  BY DEF IInv, FalharMarca, TypeOK, PedidosCoerentes, RedefinicoesCoerentes, SenhaAssumption,
         Falhar, pedidoVars
<1>2. PedidosCoerentes'
  BY DEF IInv, FalharMarca, PedidosCoerentes, pedidoVars
<1>3. RedefinicoesCoerentes'
  BY DEF IInv, FalharMarca, TypeOK, PedidosCoerentes, RedefinicoesCoerentes, SenhaAssumption,
         pedidoVars
<1>4. UsadosTrocaram'
  BY DEF IInv, FalharMarca, TypeOK, RedefinicoesCoerentes, UsadosTrocaram, pedidoVars
<1>5. DepoisDoSucesso'
  BY DEF IInv, FalharMarca, TypeOK, RedefinicoesCoerentes, DepoisDoSucesso, Terminadas,
         pedidoVars
<1>6. TrocasEmVigor'
  BY DEF IInv, FalharMarca, TypeOK, TrocasEmVigor, pedidoVars
<1>7. RecusaJustificada'
  BY DEF IInv, FalharMarca, TypeOK, PedidosCoerentes, RedefinicoesCoerentes, UsadosTrocaram,
         RecusaJustificada, SenhaAssumption, pedidoVars
<1>8. QED BY <1>1, <1>2, <1>3, <1>4, <1>5, <1>6, <1>7 DEF IInv

LEMMA QuedaIInv ==
  ASSUME SenhaAssumption, IInv, Queda
  PROVE  IInv'
<1>1. TypeOK'
  BY DEF IInv, Queda, TypeOK, PedidosCoerentes, RedefinicoesCoerentes, SenhaAssumption, Falhar
<1>2. PedidosCoerentes'
  BY DEF IInv, Queda, TypeOK, PedidosCoerentes
<1>3. RedefinicoesCoerentes'
  BY DEF IInv, Queda, TypeOK, PedidosCoerentes, RedefinicoesCoerentes, SenhaAssumption
<1>4. UsadosTrocaram'
  BY DEF IInv, Queda, TypeOK, RedefinicoesCoerentes, UsadosTrocaram
<1>5. DepoisDoSucesso'
  BY DEF IInv, Queda, TypeOK, RedefinicoesCoerentes, DepoisDoSucesso, Terminadas
<1>6. TrocasEmVigor'
  BY DEF IInv, Queda, TypeOK, TrocasEmVigor
<1>7. RecusaJustificada'
  BY DEF IInv, Queda, TypeOK, PedidosCoerentes, RedefinicoesCoerentes, UsadosTrocaram,
         RecusaJustificada, SenhaAssumption
<1>8. QED BY <1>1, <1>2, <1>3, <1>4, <1>5, <1>6, <1>7 DEF IInv

LEMMA NextIInv == ASSUME SenhaAssumption, IInv, [Next]_vars PROVE IInv'
<1>1. ASSUME NEW p \in Pedidos, Pedido(p) PROVE IInv'
  BY <1>1, BuscarUsuarioIInv, DesconhecidoIInv, SalvarTokenIInv, FalharTokenIInv, EnviarIInv DEF Pedido
<1>2. ASSUME NEW r \in Redefinicoes, Redefinicao(r) PROVE IInv'
  BY <1>2, BuscarTokenIInv, TrocarSenhaIInv, FalharTrocaIInv, MarcarUsadoIInv, FalharMarcaIInv DEF Redefinicao
<1>3. ASSUME UNCHANGED vars PROVE IInv'
  BY <1>3 DEF IInv, TypeOK, PedidosCoerentes, RedefinicoesCoerentes, UsadosTrocaram, DepoisDoSucesso,
              Terminadas, TrocasEmVigor, RecusaJustificada, vars, pedidoVars, redefVars
<1>4. QED BY <1>1, <1>2, <1>3, VencerIInv, QuedaIInv DEF Next

LEMMA Invariante == Spec => []IInv
  BY SenhaAssumption, InitIInv, NextIInv, PTL DEF Spec

-----------------------------------------------------------------------------
\* The tables and the calls have their types whatever fails.
THEOREM TypeCorrect == Spec => []TypeOK
<1>1. IInv => TypeOK BY DEF IInv
<1>2. QED BY <1>1, Invariante, PTL

\* A second use of a token overlapped the first, or the first was interrupted.
THEOREM UsoExplicado == Spec => []UsoRepetidoExplicado
<1>1. ASSUME IInv PROVE UsoRepetidoExplicado
  BY <1>1 DEF IInv, TypeOK, RedefinicoesCoerentes, DepoisDoSucesso, Terminadas, UsoRepetidoExplicado
<1>2. QED BY <1>1, Invariante, PTL

\* A link that arrived fails only for expiry or for a use that took effect.
THEOREM RecusaHonesta == Spec => []RecusaJustificada
<1>1. IInv => RecusaJustificada BY DEF IInv
<1>2. QED BY <1>1, Invariante, PTL

\* The password of an answered call is not undone by an older call.
THEOREM SenhaRespondida == Spec => []SenhaEmVigor
<1>1. ASSUME IInv PROVE SenhaEmVigor
  BY <1>1 DEF IInv, RedefinicoesCoerentes, TrocasEmVigor, SenhaEmVigor
<1>2. QED BY <1>1, Invariante, PTL
=============================================================================
