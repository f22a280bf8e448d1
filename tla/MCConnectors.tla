---------------------------- MODULE MCConnectors ----------------------------
(* TLC instances of Connectors: three documents, the last of which is blank. *)
EXTENDS Connectors

CONSTANTS d1, d2, d3

MCInitially == {(d1 :> 0 @@ d2 :> 0 @@ d3 :> 0), (d1 :> 2 @@ d2 :> 1 @@ d3 :> 0)}
MCOrder == <<d1, d2, d3>>
=============================================================================
