------------------------------- MODULE Logins -------------------------------
(***************************************************************************)
(* Logins of one account from one address: createLoginRateLimiter          *)
(* (auth-utils/src/rate-limit.ts) over an attempt store like               *)
(* createMemoryAttemptStore (stores.ts), around a password check, the way  *)
(* the package's README and example put them together:                     *)
(*   check; verifyPassword, or verifyPasswordDecoy for no such user;       *)
(*   recordFailure, or recordSuccess and a rehash at the target cost.      *)
(* Every await is a step of its own, so logins overlap.  The store may     *)
(* throw before or after it has done its work, and a derivation may fail.  *)
(* A definition marked "Faulty" is a plausible mistake in the next one.    *)
(***************************************************************************)
EXTENDS Passwords, FiniteSets

CONSTANTS
  Callers,      \* bound: the logins
  Rows,         \* the password hashes the account may have; None for no such user
  Bodies,       \* the passwords that are sent
  Params,       \* the target cost, as far as it differs from the default
  Limits,       \* bound: what maxAttempts may be
  Window,       \* windowMs
  MaxTime,      \* bound
  MaxFaults     \* bound

ASSUME LimiterAssumption ==
  /\ Limits \subseteq Nat \ {0}
  /\ Window \in Nat \ {0}
ASSUME CallersAreFinite == IsFiniteSet(Callers)
ASSUME BoundsAssumption == MaxTime \in Nat /\ MaxFaults \in Nat
ASSUME NoneIsNoCounter == None \notin [count : Nat \ {0}, resetAt : Nat]

VARIABLES
  maxAttempts,
  onStoreError,  \* "deny" or "allow"
  now,
  counter,       \* counters.get(key), or None
  row,           \* the stored hash
  faults,        \* what has failed so far
  pc,            \* the promise a login waits for
  body,          \* its password
  stored,        \* the row it has read
  work,          \* the cost of its derivation, or None
  outcome,
  recorded,      \* history: when the failures since the last reset were counted
  peak           \* history: the most logins that were under way at once

options == << maxAttempts, onStoreError >>
storeVars == << options, now, counter, row, faults, recorded >>
loginVars == << pc, body, stored, work, outcome >>
loginsState == << storeVars, loginVars, peak >>

-----------------------------------------------------------------------------
(* The limiter and its store.                                              *)

\* Faulty: a counter lives on in its last millisecond.
LiveTooLong == IF counter # None /\ now > counter.resetAt THEN None ELSE counter

\* What live(key) leaves in the map.
Live == IF counter # None /\ now >= counter.resetAt THEN None ELSE counter

\* Faulty: every failure opens the window again.
IncrementAndSlide ==
  IF Live = None THEN [count |-> 1, resetAt |-> now + Window]
  ELSE [count |-> Live.count + 1, resetAt |-> now + Window]

\* Faulty: takes windowSeconds for milliseconds, so that no time is left.
IncrementInSeconds ==
  IF Live = None THEN [count |-> 1, resetAt |-> now] ELSE [Live EXCEPT !.count = @ + 1]

Increment ==
  IF Live = None THEN [count |-> 1, resetAt |-> now + Window]
  ELSE [Live EXCEPT !.count = @ + 1]

\* Faulty: one attempt too many.
AllowedOnceMore(c) == c = None \/ c.count <= maxAttempts

Allowed(c) == c = None \/ c.count < maxAttempts

-----------------------------------------------------------------------------
(* A login, step by step.                                                  *)

\* Logins that were let in and of which no failure was counted, nor will not be.
UnderWay == {l \in Callers : pc[l] \in {"admitted", "verifying", "failed"}}

Ends(l, how) ==
  /\ pc' = [pc EXCEPT ![l] = "done"]
  /\ outcome' = [outcome EXCEPT ![l] = how]

Goes(l, to) ==
  /\ pc' = [pc EXCEPT ![l] = to]
  /\ UNCHANGED outcome

\* A store call that throws, before or after it changed the counter.
StoreFails(changed) ==
  /\ faults < MaxFaults
  /\ faults' = faults + 1
  /\ \/ UNCHANGED << counter, recorded >>
     \/ changed

Sends(l) == \E password \in Bodies : body' = [body EXCEPT ![l] = password]

PeakIsKept ==
  peak' = IF Cardinality(UnderWay') > peak THEN Cardinality(UnderWay') ELSE peak

\* check(key): the store answers, and the login is let in or refused.
Check(l) ==
  /\ pc[l] = "idle"
  /\ Sends(l)
  /\ counter' = Live
  /\ IF Allowed(counter') THEN Goes(l, "admitted") ELSE Ends(l, "refused")
  /\ UNCHANGED << options, now, row, faults, recorded, stored, work >>

\* check(key), when store.get throws.
CheckFails(l) ==
  /\ pc[l] = "idle"
  /\ Sends(l)
  /\ StoreFails(counter' = Live /\ UNCHANGED recorded)
  /\ IF onStoreError = "deny" THEN Ends(l, "store error") ELSE Goes(l, "admitted")
  /\ UNCHANGED << options, now, row, stored, work >>

\* The account is looked up, and the derivation begins.
Lookup(l) ==
  /\ pc[l] = "admitted"
  /\ stored' = [stored EXCEPT ![l] = row]
  /\ Goes(l, "verifying")
  /\ UNCHANGED << storeVars, body, work >>

\* What the password check answers for the row that was read.
Answer(l, derives) ==
  IF stored[l] = None THEN VerifyPasswordDecoy(body[l], Params, derives)
  ELSE VerifyPassword(stored[l], body[l], Params, derives)

\* A derivation that cannot run is a fault.
Derives(derives) ==
  IF derives THEN UNCHANGED faults ELSE faults < MaxFaults /\ faults' = faults + 1

CheckPassword(l) ==
  /\ pc[l] = "verifying"
  /\ \E derives \in BOOLEAN :
       /\ Derives(derives)
       /\ LET answer == Answer(l, derives) IN
            /\ work' = [work EXCEPT ![l] = answer.work]
            /\ \/ answer.ok /\ answer.value /\ Goes(l, "passed")
               \/ answer.ok /\ ~answer.value /\ Goes(l, "failed")
               \/ ~answer.ok /\ Ends(l, "error")
  /\ UNCHANGED << options, now, counter, row, recorded, body, stored >>

CountsOneMore == counter' = Increment /\ recorded' = Append(recorded, now)

RecordFailure(l) ==
  /\ pc[l] = "failed"
  /\ CountsOneMore
  /\ Ends(l, "denied")
  /\ UNCHANGED << options, now, row, faults, body, stored, work >>

\* recordFailure(key), when store.increment throws.
RecordFailureFails(l) ==
  /\ pc[l] = "failed"
  /\ StoreFails(CountsOneMore)
  /\ Ends(l, IF onStoreError = "deny" THEN "store error" ELSE "denied")
  /\ UNCHANGED << options, now, row, body, stored, work >>

CountsNothing == counter' = None /\ recorded' = << >>

GoesIn(l) ==
  IF PasswordNeedsRehash(stored[l], Params) THEN Goes(l, "upgrading") ELSE Ends(l, "granted")

RecordSuccess(l) ==
  /\ pc[l] = "passed"
  /\ CountsNothing
  /\ GoesIn(l)
  /\ UNCHANGED << options, now, row, faults, body, stored, work >>

\* recordSuccess(key), when store.reset throws.
RecordSuccessFails(l) ==
  /\ pc[l] = "passed"
  /\ StoreFails(CountsNothing)
  /\ IF onStoreError = "deny" THEN Ends(l, "store error") ELSE GoesIn(l)
  /\ UNCHANGED << options, now, row, body, stored, work >>

\* The password is hashed again, and the row replaced.
Upgrade(l) ==
  /\ pc[l] = "upgrading"
  /\ \E derives \in BOOLEAN :
       /\ Derives(derives)
       /\ LET answer == HashPassword(body[l], Params, derives) IN
            \/ answer.ok /\ row' = answer.value /\ Ends(l, "granted")
            \/ ~answer.ok /\ UNCHANGED row /\ Ends(l, "error")
  /\ UNCHANGED << options, now, counter, recorded, body, stored, work >>

Step(l) ==
  /\ \/ Check(l) \/ CheckFails(l) \/ Lookup(l) \/ CheckPassword(l)
     \/ RecordFailure(l) \/ RecordFailureFails(l)
     \/ RecordSuccess(l) \/ RecordSuccessFails(l) \/ Upgrade(l)
  /\ PeakIsKept

TimePasses ==
  /\ now < MaxTime
  /\ now' = now + 1
  /\ UNCHANGED << options, counter, row, faults, recorded, loginVars, peak >>

LoginsInit ==
  /\ maxAttempts \in Limits
  /\ onStoreError \in {"deny", "allow"}
  /\ now = 0
  /\ counter = None
  /\ row \in Rows
  /\ faults = 0
  /\ pc = [l \in Callers |-> "idle"]
  /\ body = [l \in Callers |-> None]
  /\ stored = [l \in Callers |-> None]
  /\ work = [l \in Callers |-> None]
  /\ outcome = [l \in Callers |-> None]
  /\ recorded = << >>
  /\ peak = 0

LoginsNext == TimePasses \/ \E l \in Callers : Step(l)

LoginsSpec == LoginsInit /\ [][LoginsNext]_loginsState
=============================================================================
