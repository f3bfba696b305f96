---------------------------- MODULE MCRedisLock ----------------------------
(* Instances of RedisLock for TLC. *)
EXTENDS RedisLock, TLC

CONSTANTS i1, i2, w1, w2

\* Every goroutine has an instance of its own.
Apart == w1 :> i1 @@ w2 :> i2

TwoTTLs == {1, 2}
=============================================================================
