---------------------------- MODULE MCCacheClient ----------------------------
(* Instances of CacheClient for TLC.                                       *)
EXTENDS CacheClientProps, TLC

CONSTANTS t1, t2

\* A tag in common, one dropped by re-tagging, and an entry that expires.
TwoOptions ==
  {[ttl |-> None, tags |-> {t1, t2}], [ttl |-> 1, tags |-> {t2}]}

OneOption == {[ttl |-> 1, tags |-> {t1}]}

\* Keys are only ever compared.
KeySymmetry == Permutations(Keys)
=============================================================================
