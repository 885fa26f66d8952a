--------------------------- MODULE MCIdempotency ---------------------------
(***************************************************************************)
(* Small instances of Idempotency for TLC: one key, one request and its    *)
(* retries, one request that reuses the key with another payload.          *)
(***************************************************************************)
EXTENDS Idempotency, TLC

CONSTANTS k1, r1, r2, r4

OneKey == [r \in Requests |-> k1]
TwoPayloads == [r \in Requests |-> IF r = r4 THEN "other" ELSE "payload"]

Retries == Permutations({r1, r2})
=============================================================================
