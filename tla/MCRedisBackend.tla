--------------------------- MODULE MCRedisBackend ---------------------------
(* Instances of RedisBackend for TLC.                                      *)
EXTENDS RedisBackendProps

CONSTANTS t1, t2

\* One tag each, one of the two expiring.
OneTagEach == {[ttl |-> None, tags |-> {t1}], [ttl |-> 1, tags |-> {t2}]}

\* Calls are interchangeable.
Symmetry == Permutations(Calls)
=============================================================================
