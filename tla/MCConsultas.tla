---------------------------- MODULE MCConsultas ----------------------------
(* An instance of Consultas: one unit, two months, and three payments, two  *)
(* of them for one boleto and with one reference.  The list and the report  *)
(* share only the tables, and of the clocks one ages the cache and the      *)
(* other moves the report: a behaviour has callers of one kind.             *)
EXTENDS Consultas, TLC

CONSTANTS u1, g1, g2, c1, c2, c3, d1, d2, l1, l2

MCMesDe == g1 :> 0 @@ g2 :> 1 @@ d1 :> 0 @@ d2 :> 1
MCBoletoDe == c1 :> <<u1, g1>> @@ c2 :> <<u1, g1>> @@ c3 :> <<u1, g2>>
MCReferenciaDe == c1 :> 1 @@ c2 :> 1 @@ c3 :> 2
MCUnidadeDe == l1 :> u1 @@ l2 :> u1
Quebrado(i) == [inteiro |-> i, fracao |-> TRUE]
MCMeses == {Inteiro(0), Inteiro(2), Inteiro(7), Quebrado(2), NaN}

VARIABLE tipo
MCInit == Init /\ tipo \in {"lista", "relatorio"} /\ (mesBanco > 0 \/ leste => tipo = "relatorio")
MCNext ==
    /\ tipo' = tipo
    /\ \/ Mudar
       \/ tipo = "lista" /\ (Passar \/ \E l \in Leitores : Ler(l))
       \/ tipo = "relatorio" /\ (VirarMes \/ \E r \in Relatorios : Relatar(r))
MCSpec ==
    /\ MCInit /\ [][MCNext]_<<vars, tipo>>
    /\ WF_vars(tipo = "lista" /\ Passar)
    /\ \A l \in Leitores : WF_vars(tipo = "lista" /\ (Achar(l) \/ Guardar(l) \/ FalharLista(l)))
=============================================================================
