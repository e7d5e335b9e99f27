---------------------------- MODULE TaggedCache ----------------------------
(***************************************************************************)
(* What a CacheBackend promises (cache-kit/src/types.ts), with no word of  *)
(* capacity, expiry or indexes.  A cache may always forget, but what it    *)
(* still holds is what was last written and has not been invalidated since,*)
(* and invalidating a tag touches the keys that carry it and no others.    *)
(***************************************************************************)
CONSTANTS Keys, Tags, Values, None

VARIABLES
  latest,  \* the last write of each key that nothing has invalidated since
  held     \* what the cache would answer for each key

vars == << latest, held >>

Written == [value : Values, tags : SUBSET Tags]

Init ==
  /\ latest = [k \in Keys |-> None]
  /\ held = [k \in Keys |-> None]

\* A write replaces value and tags, and may push other keys out.
Write(k, w) ==
  /\ latest' = [latest EXCEPT ![k] = w]
  /\ \E lost \in SUBSET (Keys \ {k}) :
       held' = [j \in Keys |-> IF j = k THEN w
                               ELSE IF j \in lost THEN None ELSE held[j]]

Delete(k) ==
  /\ latest' = [latest EXCEPT ![k] = None]
  /\ held' = [held EXCEPT ![k] = None]

Tagged(t) == {k \in Keys : latest[k] # None /\ t \in latest[k].tags}

InvalidateTag(t) ==
  /\ latest' = [k \in Keys |-> IF k \in Tagged(t) THEN None ELSE latest[k]]
  /\ held' = [k \in Keys |-> IF k \in Tagged(t) THEN None ELSE held[k]]

Forget(k) ==
  /\ held' = [held EXCEPT ![k] = None]
  /\ UNCHANGED latest

Next ==
  \/ \E k \in Keys : Delete(k) \/ Forget(k) \/ \E w \in Written : Write(k, w)
  \/ \E t \in Tags : InvalidateTag(t)

Spec == Init /\ [][Next]_vars
=============================================================================
