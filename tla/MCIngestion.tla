----------------------------- MODULE MCIngestion -----------------------------
(* TLC instances of Ingestion: two calls on one source. *)
EXTENDS Ingestion

CONSTANTS r1, r2, notion

OneSource == <<notion>>
=============================================================================
