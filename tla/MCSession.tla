------------------------------ MODULE MCSession ------------------------------
(* TLC instances of Session: two earlier configurations. *)
EXTENDS Session, TLC

CONSTANTS cli, http

Off == [policy |-> FALSE, server |-> FALSE, sharing |-> FALSE, model |-> cli]
On  == [policy |-> TRUE, server |-> TRUE, sharing |-> TRUE, model |-> http]
OffOrOn == {Off, On}
Symmetry == Permutations(Callers)
=============================================================================
