-------------------------------- MODULE Urna --------------------------------
(***************************************************************************)
(* The ballot box of RN-03: for each pauta, each unit may cast one vote,    *)
(* and a vote, once cast, is never changed or removed.                      *)
(***************************************************************************)
CONSTANTS Pautas, Unidades, Opcoes, EmBranco

VARIABLE cedulas

Init == cedulas = [p \in Pautas |-> [u \in Unidades |-> EmBranco]]

Votar(p, u, o) ==
    /\ cedulas[p][u] = EmBranco
    /\ cedulas' = [cedulas EXCEPT ![p] = [cedulas[p] EXCEPT ![u] = o]]

Next == \E p \in Pautas, u \in Unidades, o \in Opcoes : Votar(p, u, o)

Spec == Init /\ [][Next]_cedulas
=============================================================================
