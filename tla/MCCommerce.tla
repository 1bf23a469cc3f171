------------------------------ MODULE MCCommerce ------------------------------
(* One purchase, its payment and its refund. *)
EXTENDS Commerce

CONSTANTS n1, p1, u1

OneBuyer == [p \in Purchase |-> u1]
=============================================================================
