------------------------------ MODULE MCSenha ------------------------------
(* Senha for TLC: users, requests and redefinitions are interchangeable. *)
EXTENDS Senha, TLC

Simetria == Permutations(Usuarios) \cup Permutations(Pedidos) \cup Permutations(Redefinicoes)
=============================================================================
