--------------------------- MODULE MCIdempotency ---------------------------
(* An operation of two transactions for the runs of Idempotency.          *)
EXTENDS Idempotency, TLC

CONSTANTS return, b1, b2, r1, r2, r3

MCParts == (return :> 2)
============================================================================
