---------------------------- MODULE CacheClient ----------------------------
(***************************************************************************)
(* createCache (cache-kit/src/client.ts): wrap, with the fetch that is     *)
(* shared by every caller of a key, over the in-memory backend.  get, set, *)
(* invalidate and invalidateTag go straight to the backend.                *)
(*                                                                         *)
(* wrap is written for any CacheBackend, so here an operation of the       *)
(* backend takes effect at some moment between being called and being      *)
(* answered, and may fail with a CacheBackendError, having done nothing.   *)
(* pc names the await a wrap call is suspended at, stage how far the fetch *)
(* it started (if it started one) has come.                                *)
(***************************************************************************)
EXTENDS MemoryBackend

CONSTANTS
  Calls,         \* the wrap calls; a call is also the value its fetch yields
  SyncThrows,    \* may a fetcher throw before it returns a promise?
  MaxFaults,     \* bound: backend operations that fail
  MaxDirect      \* bound: direct operations on the backend

ASSUME CallsAssumption == Calls \subseteq Values
ASSUME SyncThrowsAssumption == SyncThrows \in BOOLEAN
ASSUME ClientBoundsAssumption == MaxFaults \in Nat /\ MaxDirect \in Nat

VARIABLES
  inFlight,  \* key -> the call whose fetch is registered for it
  pc,        \* where each wrap call is suspended
  ask,       \* its arguments
  found,     \* what backend.get answered it
  flight,    \* the call whose fetch it waits for
  stage,     \* how far the fetch started by a call has come
  result,    \* how wrap's promise settled
  faults,    \* history: failed backend operations so far
  direct     \* history: direct operations so far

clientVars == << inFlight, pc, ask, found, flight, stage, result >>
vars == << backendVars, clientVars, faults, direct >>

Ask == [key : Keys \cup {None}, options : Options \cup {None}]

NothingAsked == [key |-> None, options |-> None]

Init ==
  /\ BackendInit
  /\ inFlight = [k \in Keys |-> None]
  /\ pc = [c \in Calls |-> "idle"]
  /\ ask = [c \in Calls |-> NothingAsked]
  /\ found = [c \in Calls |-> None]
  /\ flight = [c \in Calls |-> None]
  /\ stage = [c \in Calls |-> "none"]
  /\ result = [c \in Calls |-> "none"]
  /\ faults = 0
  /\ direct = 0

Key(c) == ask[c].key

-----------------------------------------------------------------------------
(* The four operations that only pass through.                             *)

Direct(operation) ==
  /\ direct < MaxDirect
  /\ direct' = direct + 1
  /\ operation
  /\ UNCHANGED << clientVars, faults >>

Get(k) == Direct(\E answer \in Values \cup {None} : BackendGet(k, answer))

Set(k) ==
  Direct(\E v \in Values \ Calls, o \in Options : BackendSet(k, v, o))

Invalidate(k) == Direct(BackendDelete(k))

InvalidateTag(t) == Direct(BackendInvalidateTag(t))

-----------------------------------------------------------------------------
(* wrap, up to the point where it waits for a fetch.                       *)

CallWrap(c) ==
  /\ pc[c] = "idle"
  /\ \E k \in Keys, o \in Options :
       ask' = [ask EXCEPT ![c] = [key |-> k, options |-> o]]
  /\ pc' = [pc EXCEPT ![c] = "reading"]
  /\ UNCHANGED << backendVars, inFlight, found, flight, stage, result, faults, direct >>

ReadEffect(c) ==
  /\ pc[c] = "reading"
  /\ \E answer \in Values \cup {None} :
       BackendGet(Key(c), answer) /\ found' = [found EXCEPT ![c] = answer]
  /\ pc' = [pc EXCEPT ![c] = "answered"]
  /\ UNCHANGED << inFlight, ask, flight, stage, result, faults, direct >>

\* swallowBackendError: a failed read counts as a miss.
ReadFails(c) ==
  /\ pc[c] = "reading"
  /\ faults < MaxFaults
  /\ faults' = faults + 1
  /\ pc' = [pc EXCEPT ![c] = "answered"]
  /\ UNCHANGED << backendVars, inFlight, ask, found, flight, stage, result, direct >>

Hit(c) ==
  /\ pc[c] = "answered"
  /\ found[c] # None
  /\ pc' = [pc EXCEPT ![c] = "done"]
  /\ result' = [result EXCEPT ![c] = found[c]]
  /\ UNCHANGED << backendVars, inFlight, ask, found, flight, stage, faults, direct >>

\* A miss, while a fetch for the key is registered: wait for that one.
Join(c) ==
  /\ pc[c] = "answered"
  /\ found[c] = None
  /\ inFlight[Key(c)] # None
  /\ pc' = [pc EXCEPT ![c] = "waiting"]
  /\ flight' = [flight EXCEPT ![c] = inFlight[Key(c)]]
  /\ UNCHANGED << backendVars, inFlight, ask, found, stage, result, faults, direct >>

\* Where runFetcherOnce's promise is when it returns: the fetcher has been
\* called, and has returned a promise or thrown.
FirstStage == {"running"} \cup (IF SyncThrows THEN {"rejected"} ELSE {})

\* Faulty: the fetch is started whoever else is fetching.
StartsAnyway(c) == found[c] = None

Starts(c) == found[c] = None /\ inFlight[Key(c)] = None

\* A miss with nothing registered: start the fetch and register it, without
\* an await between the check and the registration.
StartFetch(c) ==
  /\ pc[c] = "answered"
  /\ Starts(c)
  /\ \E first \in FirstStage : stage' = [stage EXCEPT ![c] = first]
  /\ inFlight' = [inFlight EXCEPT ![Key(c)] = c]
  /\ pc' = [pc EXCEPT ![c] = "waiting"]
  /\ flight' = [flight EXCEPT ![c] = c]
  /\ UNCHANGED << backendVars, ask, found, result, faults, direct >>

-----------------------------------------------------------------------------
(* runFetcherOnce, after the fetcher returned its promise.                 *)

\* Faulty: only a fetch that succeeds is released.
ReleaseStored(c) ==
  inFlight' = IF stage[c] = "running" THEN inFlight
              ELSE [inFlight EXCEPT ![Key(c)] = None]

\* The finally: inFlight.delete(key).
Release(c) == inFlight' = [inFlight EXCEPT ![Key(c)] = None]

FetchResolves(c) ==
  /\ stage[c] = "running"
  /\ stage' = [stage EXCEPT ![c] = "storing"]
  /\ UNCHANGED << backendVars, inFlight, pc, ask, found, flight, result, faults, direct >>

FetchRejects(c) ==
  /\ stage[c] = "running"
  /\ stage' = [stage EXCEPT ![c] = "rejected"]
  /\ Release(c)
  /\ UNCHANGED << backendVars, pc, ask, found, flight, result, faults, direct >>

StoreEffect(c) ==
  /\ stage[c] = "storing"
  /\ BackendSet(Key(c), c, ask[c].options)
  /\ stage' = [stage EXCEPT ![c] = "stored"]
  /\ UNCHANGED << inFlight, pc, ask, found, flight, result, faults, direct >>

\* swallowBackendError: a failed write is none of the caller's business.
StoreFails(c) ==
  /\ stage[c] = "storing"
  /\ faults < MaxFaults
  /\ faults' = faults + 1
  /\ stage' = [stage EXCEPT ![c] = "stored"]
  /\ UNCHANGED << backendVars, inFlight, pc, ask, found, flight, result, direct >>

FetchEnds(c) ==
  /\ stage[c] = "stored"
  /\ stage' = [stage EXCEPT ![c] = "resolved"]
  /\ Release(c)
  /\ UNCHANGED << backendVars, pc, ask, found, flight, result, faults, direct >>

\* Faulty: whoever joined a fetch hears of it only when it succeeds.
SettleStored(c) ==
  /\ pc[c] = "waiting"
  /\ stage[flight[c]] = "resolved"
  /\ pc' = [pc EXCEPT ![c] = "done"]
  /\ result' = [result EXCEPT ![c] = flight[c]]
  /\ UNCHANGED << backendVars, inFlight, ask, found, flight, stage, faults, direct >>

\* The shared promise has settled, and so does wrap's, the same way.
Settle(c) ==
  /\ pc[c] = "waiting"
  /\ stage[flight[c]] \in {"resolved", "rejected"}
  /\ pc' = [pc EXCEPT ![c] = "done"]
  /\ result' = [result EXCEPT ![c] =
                 IF stage[flight[c]] = "resolved" THEN flight[c] ELSE "rejected"]
  /\ UNCHANGED << backendVars, inFlight, ask, found, flight, stage, faults, direct >>

-----------------------------------------------------------------------------
Pass ==
  \/ \E k \in Keys : Get(k) \/ Set(k) \/ Invalidate(k)
  \/ \E t \in Tags : InvalidateTag(t)

\* Steps of wrap and of the fetch it started.
Wrap(c) == ReadEffect(c) \/ Hit(c) \/ Join(c) \/ StartFetch(c) \/ Settle(c)

Fetch(c) ==
  FetchResolves(c) \/ FetchRejects(c) \/ StoreEffect(c) \/ FetchEnds(c)

Fault(c) == ReadFails(c) \/ StoreFails(c)

Passing == Tick /\ UNCHANGED << clientVars, faults, direct >>

AllSettled ==
  /\ \A c \in Calls : pc[c] = "done"
  /\ UNCHANGED vars

Next ==
  \/ Pass
  \/ \E c \in Calls : CallWrap(c) \/ Wrap(c) \/ Fetch(c) \/ Fault(c)
  \/ Passing
  \/ AllSettled

Spec == Init /\ [][Next]_vars

\* The event loop resumes what can go on; a backend answers, and a fetcher's
\* promise settles.  The last is the caller's obligation, not the cache's.
Fairness == \A c \in Calls : WF_vars(Wrap(c)) /\ WF_vars(Fetch(c))

FairSpec == Spec /\ Fairness
=============================================================================
