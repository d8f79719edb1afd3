--------------------------- MODULE MCComunicacao ---------------------------
(* Comunicacao for TLC: a user with two units, one in each block, and two
   users who share a third. *)
EXTENDS Comunicacao

CONSTANTS caio, ana, bia, un1, un2, un3, b1, b2

MCVinculos == {<<ana, un1>>, <<ana, un2>>, <<bia, un3>>, <<caio, un3>>}
MCBlocoDe == [un \in Unidades |-> IF un = un1 THEN b1 ELSE b2]
=============================================================================
