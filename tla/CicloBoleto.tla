----------------------------- MODULE CicloBoleto -----------------------------
(***************************************************************************)
(* The life of a boleto as its readers may rely on it: it comes to exist    *)
(* open, may be paid, and stays paid.                                       *)
(***************************************************************************)
CONSTANT Boletos

VARIABLE status

Init == status = [b \in Boletos |-> "inexistente"]

Gerar(b) == status[b] = "inexistente" /\ status' = [status EXCEPT ![b] = "ABERTO"]

Pagar(b) == status[b] = "ABERTO" /\ status' = [status EXCEPT ![b] = "PAGO"]

Next == \E b \in Boletos : Gerar(b) \/ Pagar(b)

Spec == Init /\ [][Next]_status
=============================================================================
