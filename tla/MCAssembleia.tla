---------------------------- MODULE MCAssembleia ----------------------------
(* Assembleia for TLC: requests and units are interchangeable. *)
EXTENDS Assembleia, TLC

Simetria == Permutations(Pedidos) \cup Permutations(Unidades)
=============================================================================
