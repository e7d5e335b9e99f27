----------------------------- MODULE Correlation -----------------------------
(***************************************************************************)
(* runWithCorrelationId where there is no AsyncLocalStorage                *)
(* (logger/src/internal/correlation-browser.ts): one identifier for the    *)
(* whole page, put back when the function returns, or when the promise it  *)
(* returned settles.  A run stands for its identifier.  A definition       *)
(* marked "Faulty" is a plausible mistake in the next one.                 *)
(***************************************************************************)
EXTENDS Sequences, SequencesExt

CONSTANTS
  Runs,   \* bound: the calls of runWithCorrelationId
  NoId    \* undefined

VARIABLES
  currentId,   \* current
  previousId,  \* previous, of each run
  stack,       \* the runs whose function is on the call stack
  promised,    \* the runs whose promise is pending
  begun,       \* history: the runs there have been
  nest,        \* history: those not ended, in the order they began, until two cross
  crossed      \* history: has a run ended before one that began after it?

correlationVars == << currentId, previousId, stack, promised, begun, nest, crossed >>

CorrelationInit ==
  /\ currentId = NoId
  /\ previousId = [r \in Runs |-> NoId]
  /\ stack = << >> /\ promised = {} /\ begun = {}
  /\ nest = << >> /\ crossed = FALSE

\* Called from the page, or from the function of the run on top.
BeginsRun(r) ==
  /\ r \notin begun
  /\ begun' = begun \cup {r}
  /\ previousId' = [previousId EXCEPT ![r] = currentId]
  /\ currentId' = r
  /\ stack' = Append(stack, r)
  /\ nest' = Append(nest, r)
  /\ UNCHANGED << promised, crossed >>

\* The function returns a promise, and what it awaits goes on later.
ReturnsPromise ==
  /\ stack # << >>
  /\ stack' = Front(stack)
  /\ promised' = promised \cup {Last(stack)}
  /\ UNCHANGED << currentId, previousId, begun, nest, crossed >>

\* Faulty: there is none to go back to.
ForgetsId(r) == NoId

PutsBack(r) == previousId[r]

RunEnds(r) ==
  /\ currentId' = PutsBack(r)
  /\ crossed' = (crossed \/ Last(nest) # r)
  /\ nest' = IF crossed' THEN nest ELSE Front(nest)
  /\ UNCHANGED << previousId, begun >>

\* The function returns anything else, or throws.
ReturnsValue ==
  /\ stack # << >>
  /\ stack' = Front(stack)
  /\ RunEnds(Last(stack))
  /\ UNCHANGED promised

\* A callback of its own: nothing is on the stack.
SettlesRun(r) ==
  /\ stack = << >>
  /\ r \in promised
  /\ promised' = promised \ {r}
  /\ RunEnds(r)
  /\ UNCHANGED stack

CorrelationNext ==
  \/ ReturnsPromise \/ ReturnsValue
  \/ \E r \in Runs : BeginsRun(r) \/ SettlesRun(r)

CorrelationSpec == CorrelationInit /\ [][CorrelationNext]_correlationVars

(* correlation-browser.ts:6: as long as runs end inside out, however deep   *)
(* they are nested and whether they return or settle, the identifier is the *)
(* innermost run's, and none when there is none.  Runs that cross may leave *)
(* any identifier behind, for good.                                         *)
CurrentIsInnermost ==
  ~crossed => currentId = IF nest = << >> THEN NoId ELSE Last(nest)
=============================================================================
