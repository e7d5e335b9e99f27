------------------------- MODULE MCServiceLifecycle -------------------------
(* Instances of ServiceLifecycle for TLC.                                  *)
EXTENDS ServiceLifecycleProps

\* The first of three is to be stopped before the others, as a server that
\* drains first would be; the others in reverse.
FirstStopsFirst == [r \in Resources |-> IF r = 1 THEN -1 ELSE 0]
=============================================================================
