----------------------------- MODULE MCRateLimit -----------------------------
(* Instances of RateLimit, and of the Cache under it, for TLC. *)
EXTENDS RateLimit, TLC

CONSTANTS c1, c2, k1, k2

Transports == c1 :> "http" @@ c2 :> "stream"
=============================================================================
