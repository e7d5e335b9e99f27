-------------------------- MODULE HttpClientProofs --------------------------
(***************************************************************************)
(* Theorems about HttpClient, for any calls, any timeout, any backoff, any *)
(* retry limits, and hooks that throw or do not.                           *)
(***************************************************************************)
EXTENDS HttpClientProps, TLAPS

\* A timeout is a number, and so is not None.
LEMMA TimesAreNumbers == Timeout \in Nat /\ Timeout > 0 /\ None \notin Nat
BY TimesAssumption, NoneIsNoTime

LEMMA InitInv == Init => IInv
<1> SUFFICES ASSUME Init PROVE IInv
  OBVIOUS
<1>1. TypeOK
  BY SignalledAssumption DEF Init, TypeOK
<1>2. NothingLeftBehind /\ TimerCounts /\ CallerHeard /\ Counted
  BY SignalledAssumption
     DEF Init, NothingLeftBehind, TimerCounts, CallerHeard, Counted, InAttempt
<1> QED BY <1>1, <1>2 DEF IInv

\* An attempt begins with its whole timeout ahead of it, or on a signal that is
\* aborted, and in either case knows of its caller.
LEMMA BeginInv ==
  ASSUME IInv, NEW c \in Calls, Begin(c),
         limit' \in [Calls -> Nat], \A d \in Calls \ {c} : limit'[d] = limit[d],
         pc[c] = "idle" \/ (pc[c] = "delay" /\ limit' = limit)
  PROVE  IInv'
<1>1. TypeOK'
  <2>1. /\ listening' \subseteq Signalled
        /\ timer' \in [Calls -> Nat \cup {None}]
        /\ aborted' \in [Calls -> {"no", "timeout", "caller"}]
        /\ \A d \in Calls \ {c} : timer'[d] = timer[d]
    BY TimesAreNumbers DEF IInv, TypeOK, Begin, CreateSignal
  <2>2. /\ pc' \in [Calls -> {"idle", "onRequest", "fetch", "onResponse", "body",
                             "delay", "done"}]
        /\ tried' \in [Calls -> Nat]
        /\ \A d \in Calls : pc'[d] = "delay" => d # c /\ pc[d] = "delay"
    BY DEF IInv, TypeOK, Begin
  <2> QED BY <2>1, <2>2 DEF IInv, TypeOK, Begin
<1>2. NothingLeftBehind'
  BY DEF IInv, TypeOK, NothingLeftBehind, Begin, CreateSignal
<1>3. TimerCounts'
  <2>1. elapsed[c] = 0
    BY DEF IInv, TimerCounts, InAttempt
  <2> QED BY <2>1, TimesAreNumbers
          DEF IInv, TypeOK, TimerCounts, InAttempt, Begin, CreateSignal
<1>4. CallerHeard'
  BY SignalledAssumption DEF IInv, TypeOK, CallerHeard, InAttempt, Begin, CreateSignal
<1>5. Counted'
  <2>1. /\ sent[c] <= tried[c] /\ tried'[c] = tried[c] + 1 /\ sent' = sent
        /\ pc'[c] = "onRequest" /\ tried[c] \in Nat /\ sent[c] \in Nat /\ result' = result
    BY DEF IInv, TypeOK, Counted, Begin
  <2>2. result[c] \in RetryOn \cup {"none"} /\ (tried'[c] > 1 => tried'[c] <= limit'[c])
    BY <2>1 DEF IInv, TypeOK, Counted
  <2>3. \A d \in Calls \ {c} :
          pc'[d] = pc[d] /\ tried'[d] = tried[d] /\ limit'[d] = limit[d]
    BY DEF IInv, TypeOK, Begin
  <2> QED BY <2>1, <2>2, <2>3 DEF IInv, Counted, InAttempt
<1> QED BY <1>1, <1>2, <1>3, <1>4, <1>5 DEF IInv

\* However an attempt ends, cleanup leaves nothing behind.
LEMMA ConcludeInv ==
  ASSUME IInv, NEW c \in Calls, InAttempt(c), pc[c] # "onRequest",
         NEW r \in Results, Conclude(c, r)
  PROVE  IInv'
<1>1. TypeOK'
  BY DEF IInv, TypeOK, Conclude, Cleanup, NotListening, Delays
<1>2. NothingLeftBehind'
  BY DEF IInv, TypeOK, NothingLeftBehind, InAttempt, Conclude, Cleanup, NotListening
<1>3. TimerCounts' /\ CallerHeard'
  BY SignalledAssumption
     DEF IInv, TypeOK, TimerCounts, CallerHeard, InAttempt, Conclude, Cleanup, NotListening
<1>4. Counted'
  BY DEF IInv, TypeOK, Counted, InAttempt, Conclude, Retries
<1> QED BY <1>1, <1>2, <1>3, <1>4 DEF IInv

LEMMA RejectInv ==
  ASSUME IInv, NEW c \in Calls, InAttempt(c), Reject(c)
  PROVE  IInv'
<1>1. TypeOK'
  BY DEF IInv, TypeOK, Reject, Cleanup, NotListening
<1>2. NothingLeftBehind'
  BY DEF IInv, TypeOK, NothingLeftBehind, InAttempt, Reject, Cleanup, NotListening
<1>3. TimerCounts' /\ CallerHeard'
  BY SignalledAssumption
     DEF IInv, TypeOK, TimerCounts, CallerHeard, InAttempt, Reject, Cleanup, NotListening
<1>4. Counted'
  BY DEF IInv, TypeOK, Counted, InAttempt, Reject
<1> QED BY <1>1, <1>2, <1>3, <1>4 DEF IInv

LEMMA NetworkInv ==
  ASSUME IInv, NEW c \in Calls, Network(c)
  PROVE  IInv'
<1>1. CASE Respond(c)
  <2>1. TypeOK' /\ NothingLeftBehind' /\ TimerCounts' /\ CallerHeard'
    BY <1>1, SignalledAssumption
       DEF IInv, TypeOK, NothingLeftBehind, TimerCounts, CallerHeard, InAttempt,
           Respond, signalVars
  <2>2. Counted'
    BY <1>1 DEF IInv, TypeOK, Counted, InAttempt, Respond
  <2> QED BY <2>1, <2>2 DEF IInv
<1>2. CASE FetchRejects(c)
  BY <1>2, ConcludeInv DEF FetchRejects, InAttempt, Results
<1>3. CASE BodyArrives(c)
  <2>1. BodyOf(status[c]) \subseteq Results
    BY <1>3 DEF BodyArrives, BodyOf, Results, IInv, TypeOK, Statuses
  <2>2. PICK r \in BodyOf(status[c]) : Conclude(c, r)
    BY <1>3 DEF BodyArrives
  <2>3. r \in Results /\ InAttempt(c) /\ pc[c] # "onRequest"
    BY <1>3, <2>1, <2>2 DEF BodyArrives, InAttempt
  <2> QED BY <2>2, <2>3, ConcludeInv
<1>4. CASE BodyFails(c)
  BY <1>4, RejectInv DEF BodyFails, InAttempt
<1> QED BY <1>1, <1>2, <1>3, <1>4 DEF Network

LEMMA HooksInv ==
  ASSUME IInv, NEW c \in Calls, Hooks(c)
  PROVE  IInv'
<1>1. CASE Fetch(c)
  <2>1. TypeOK' /\ NothingLeftBehind' /\ TimerCounts' /\ CallerHeard'
    BY <1>1, SignalledAssumption
       DEF IInv, TypeOK, NothingLeftBehind, TimerCounts, CallerHeard, InAttempt,
           Fetch, signalVars
  <2>2. Counted'
    BY <1>1 DEF IInv, TypeOK, Counted, InAttempt, Fetch
  <2> QED BY <2>1, <2>2 DEF IInv
<1>2. CASE ReadBody(c)
  <2>1. TypeOK' /\ NothingLeftBehind' /\ TimerCounts' /\ CallerHeard'
    BY <1>2, SignalledAssumption
       DEF IInv, TypeOK, NothingLeftBehind, TimerCounts, CallerHeard, InAttempt,
           ReadBody, signalVars
  <2>2. Counted'
    BY <1>2 DEF IInv, TypeOK, Counted, InAttempt, ReadBody
  <2> QED BY <2>1, <2>2 DEF IInv
<1>3. CASE HookThrows(c)
  BY <1>3, RejectInv DEF HookThrows, InAttempt
<1> QED BY <1>1, <1>2, <1>3 DEF Hooks

LEMMA TimersInv ==
  ASSUME IInv, NEW c \in Calls, Timers(c)
  PROVE  IInv'
<1>1. CASE TimeoutFires(c)
  <2>1. TypeOK' /\ NothingLeftBehind'
    BY <1>1 DEF IInv, TypeOK, NothingLeftBehind, TimeoutFires, callVars
  <2>2. TimerCounts' /\ CallerHeard'
    BY <1>1, SignalledAssumption
       DEF IInv, TypeOK, TimerCounts, CallerHeard, InAttempt, TimeoutFires, callVars
  <2>3. Counted'
    BY <1>1 DEF IInv, Counted, InAttempt, TimeoutFires, callVars
  <2> QED BY <2>1, <2>2, <2>3 DEF IInv
<1>2. CASE DelayEnds(c)
  BY <1>2, BeginInv DEF DelayEnds, IInv, TypeOK
<1> QED BY <1>1, <1>2 DEF Timers

LEMMA AbortInv == IInv /\ CallerAborts => IInv'
<1> SUFFICES ASSUME IInv, CallerAborts PROVE IInv'
  OBVIOUS
<1>1. TypeOK' /\ NothingLeftBehind'
  BY DEF IInv, TypeOK, NothingLeftBehind, CallerAborts, callVars
<1>2. TimerCounts' /\ CallerHeard'
  BY SignalledAssumption
     DEF IInv, TypeOK, TimerCounts, CallerHeard, InAttempt, CallerAborts, callVars
<1>3. Counted'
  BY DEF IInv, Counted, InAttempt, CallerAborts, callVars
<1> QED BY <1>1, <1>2, <1>3 DEF IInv

\* Time passes for timer and attempt alike.
LEMMA TickInv == IInv /\ Tick => IInv'
<1> SUFFICES ASSUME IInv, Tick PROVE IInv'
  OBVIOUS
<1>1. \A c \in Calls : timer[c] \in Nat => timer[c] - 1 \in Nat
  BY DEF Tick, Urgent
<1>2. TypeOK' /\ NothingLeftBehind'
  BY <1>1, TimesAreNumbers DEF IInv, TypeOK, NothingLeftBehind, Tick, callVars
<1>3. TimerCounts'
  BY <1>1, TimesAreNumbers DEF IInv, TypeOK, TimerCounts, InAttempt, Tick, callVars
<1>4. CallerHeard' /\ Counted'
  BY SignalledAssumption DEF IInv, CallerHeard, Counted, InAttempt, Tick, callVars
<1> QED BY <1>2, <1>3, <1>4 DEF IInv

LEMMA StepInv == IInv /\ [Next]_vars => IInv'
<1> SUFFICES ASSUME IInv, [Next]_vars PROVE IInv'
  OBVIOUS
<1>1. CASE UNCHANGED vars
  BY <1>1 DEF vars, callVars, signalVars, IInv, TypeOK, NothingLeftBehind,
              TimerCounts, CallerHeard, Counted, InAttempt
<1>2. ASSUME NEW c \in Calls, Call(c) PROVE IInv'
  BY <1>2, BeginInv, AttemptsAssumption DEF Call, IInv, TypeOK, Counted
<1>3. ASSUME NEW c \in Calls, Network(c) \/ Hooks(c) \/ Timers(c) PROVE IInv'
  BY <1>3, NetworkInv, HooksInv, TimersInv
<1> QED BY <1>1, <1>2, <1>3, AbortInv, TickInv DEF Next

-----------------------------------------------------------------------------
\* The invariant holds in every reachable state.
THEOREM Inductive == Spec => []IInv
BY InitInv, StepInv, PTL DEF Spec

\* Every variable keeps its shape.
THEOREM TypeCorrect == Spec => []TypeOK
<1>1. IInv => TypeOK
  BY DEF IInv
<1> QED BY <1>1, Inductive, PTL

\* However many attempts end, and however they end, no timer and no listener
\* of theirs is left (createCombinedSignal's cleanup, run in a finally).
THEOREM NothingIsLeft == Spec => []NothingLeftBehind
<1>1. IInv => NothingLeftBehind
  BY DEF IInv
<1> QED BY <1>1, Inductive, PTL

\* No attempt waits longer than its timeout for fetch, or for the body of the
\* response that fetch returned, whatever its caller's signal does
\* (createCombinedSignal).  A body of onResponse's own is not among them.
THEOREM TimeoutHolds == Spec => TimeoutBinds
<1>1. IInv /\ [Next]_vars =>
        [\A c \in Calls :
           elapsed'[c] > elapsed[c] /\ Bound(c) => elapsed[c] < Timeout]_vars
  <2> SUFFICES ASSUME IInv, Next, NEW c \in Calls,
                      elapsed'[c] > elapsed[c], Bound(c)
               PROVE  elapsed[c] < Timeout
    OBVIOUS
  <2>1. Tick
    BY DEF Next, IInv, TypeOK, Call, Begin, Network, Hooks, Timers, Respond, FetchRejects,
           BodyArrives, BodyFails, Fetch, ReadBody, HookThrows, Conclude, Reject, Cleanup,
           TimeoutFires, DelayEnds, CallerAborts, signalVars
  <2>2. timer[c] \in Nat /\ timer[c] # 0 /\ timer[c] + elapsed[c] = Timeout
    BY <2>1 DEF Tick, Urgent, Bound, IInv, TimerCounts, InAttempt
  <2> QED BY <2>2, TimesAreNumbers DEF IInv, TypeOK
<1> QED BY <1>1, Inductive, PTL DEF Spec, TimeoutBinds

\* A request that is sent, is sent by Fetch.
LEMMA OnlyFetchSends ==
  ASSUME IInv, Next, NEW c \in Calls, sent'[c] > sent[c]
  PROVE  Fetch(c) /\ aborted[c] = "no" /\ sent'[c] = sent[c] + 1
BY DEF Next, IInv, TypeOK, Call, Begin, Network, Hooks, Timers, Respond, FetchRejects,
       BodyArrives, BodyFails, Fetch, ReadBody, HookThrows, Conclude, Reject, Cleanup,
       TimeoutFires, DelayEnds, CallerAborts, Tick, signalVars, callVars

\* Nothing goes out once the caller has aborted.
THEOREM AbortHolds == Spec => AbortSilences
<1>1. IInv /\ [Next]_vars =>
        [\A c \in Calls :
           sent'[c] > sent[c] => ~(callerAborted /\ c \in Signalled)]_vars
  BY OnlyFetchSends DEF IInv, CallerHeard, InAttempt, Fetch
<1> QED BY <1>1, Inductive, PTL DEF Spec, AbortSilences

\* A request is repeated only after a failure that may pass, and only within
\* the limit (executeWithRetry, defaultRetryOn).
THEOREM RetriesHold == Spec => RetriesAreMeant
<1>1. IInv /\ [Next]_vars =>
        [\A c \in Calls :
           sent'[c] > sent[c] =>
             /\ result[c] \in {"none", "network", "serverError"}
             /\ sent[c] = 0 \/ sent'[c] <= limit[c]]_vars
  <2> SUFFICES ASSUME IInv, Next, NEW c \in Calls, sent'[c] > sent[c]
               PROVE  /\ result[c] \in {"none", "network", "serverError"}
                      /\ sent[c] = 0 \/ sent'[c] <= limit[c]
    OBVIOUS
  <2>1. pc[c] = "onRequest" /\ sent'[c] = sent[c] + 1
    BY OnlyFetchSends DEF Fetch
  <2>2. result[c] \in RetryOn \cup {"none"} /\ sent[c] < tried[c]
    BY <2>1 DEF IInv, Counted, InAttempt
  <2>3. sent[c] = 0 \/ tried[c] <= limit[c]
    BY <2>2 DEF IInv, TypeOK, Counted
  <2> QED BY <2>1, <2>2, <2>3 DEF RetryOn, IInv, TypeOK
<1> QED BY <1>1, Inductive, PTL DEF Spec, RetriesAreMeant
=============================================================================
