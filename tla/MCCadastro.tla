----------------------------- MODULE MCCadastro -----------------------------
(* Cadastro for TLC: registrations, creations, cnpjs, e-mails and
   sessions are interchangeable. *)
EXTENDS Cadastro, TLC

Simetria ==
    Permutations(Registros) \cup Permutations(Cnpjs) \cup Permutations(Emails)
    \cup Permutations(Sessoes) \cup Permutations(Criacoes)
=============================================================================
