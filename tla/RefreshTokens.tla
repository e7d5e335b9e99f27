--------------------------- MODULE RefreshTokens ---------------------------
(***************************************************************************)
(* createRefreshTokenService (auth-utils/src/refresh.ts) over the          *)
(* in-process store of stores.ts, with any number of calls in progress at  *)
(* once.  A call is one invocation of issue, rotate, revoke or             *)
(* revokeFamily; it gives up the event loop at every await, so its pc      *)
(* names the await it is suspended at:                                     *)
(*                                                                         *)
(*   idle    not called yet              decide  store.read has answered   *)
(*   create  store.create is under way   cas     compareAndSet is under way*)
(*   read    store.read is under way     done    the promise has settled   *)
(*   revokeRead, revokeCas               the same two awaits in revokeById *)
(*                                                                         *)
(* Every store operation takes effect in one step, which is the contract   *)
(* RefreshTokenStore states, and any step of another call, or of the clock,*)
(* may come between two steps of a call.                                   *)
(***************************************************************************)
EXTENDS TokenFamily

CONSTANTS
  Calls,        \* every call ever made of the service
  Families,     \* family identifiers
  Forged,       \* the digest of a secret nobody minted
  AbsoluteTtl,  \* absoluteTtlMs: how long a family lives whatever happens
  MaxRetries,   \* maxRetries: compare-and-sets attempted before giving up
  MaxTime,      \* bound: the clock stops here
  MaxFaults     \* bound: store operations that fail

ASSUME ForgedAssumption == Forged \notin Tokens /\ Forged # None
ASSUME NoneIsNoFamily == None \notin Families
ASSUME AbsoluteTtlAssumption == AbsoluteTtl \in Nat /\ AbsoluteTtl >= Ttl
ASSUME MaxRetriesAssumption == MaxRetries \in Nat \ {0}
ASSUME BoundsAssumption == MaxTime \in Nat /\ MaxFaults \in Nat

VARIABLES
  now,       \* clock()
  store,     \* families, the Map of createMemoryRefreshTokenStore
  pc,        \* where each call is suspended
  req,       \* what each call was asked
  attempt,   \* the loop counter of rotate or revokeById
  sawReuse,  \* rotate's flag: a replay was seen in some attempt
  snap,      \* the stored family and revision the call last read
  next,      \* the family the call is writing, or has written
  result,    \* how the call's promise settled
  issued,    \* history: each family's tokens, with the token each replaced
  faults     \* history: store operations that failed so far

callVars == << pc, req, attempt, sawReuse, snap, next, result >>
vars == << now, store, callVars, issued, faults >>

NoRecord ==
  [ createdAt |-> 0, absoluteExpiresAt |-> 0, current |-> None,
    expiresAt |-> 0, usedHashes |-> << >>, revokedReason |-> "none" ]

\* A Map entry; create writes revision 1, so 0 stands for a missing entry.
Entry == [family : Family, revision : Nat]

Absent == [family |-> NoRecord, revision |-> 0]

Present(f) == store[f].revision # 0

\* live: an entry past its absolute deadline is deleted when it is read.
Live(f) == Present(f) /\ now < store[f].family.absoluteExpiresAt

Request ==
  [ kind   : {"none", "issue", "rotate", "revoke", "revokeFamily"},
    family : Families \cup {None},
    token  : Tokens \cup {Forged, None} ]

NoRequest == [kind |-> "none", family |-> None, token |-> None]

IssuedTokens(f) == {issued[f][i].token : i \in DOMAIN issued[f]}

\* mintToken draws 256 random bits: never a token already in use, and never
\* one that a concurrent call has drawn and not yet stored.
Unminted ==
  Tokens \ ( (UNION {IssuedTokens(f) : f \in Families})
             \cup {next[c].current : c \in Calls} )

\* What callers can present: tokens a call has returned, or a guess.
Delivered == {next[c].current : c \in {d \in Calls : result[d] = "ok"}}

Presentable == Delivered \cup {Forged}

Init ==
  /\ now = 0
  /\ store = [f \in Families |-> Absent]
  /\ pc = [c \in Calls |-> "idle"]
  /\ req = [c \in Calls |-> NoRequest]
  /\ attempt = [c \in Calls |-> 0]
  /\ sawReuse = [c \in Calls |-> FALSE]
  /\ snap = [c \in Calls |-> Absent]
  /\ next = [c \in Calls |-> NoRecord]
  /\ result = [c \in Calls |-> "none"]
  /\ issued = [f \in Families |-> << >>]
  /\ faults = 0

-----------------------------------------------------------------------------
(* Parts of steps.                                                         *)

\* The promise settles.  Only a successful call keeps what it wrote, whose
\* current token it returned.
Return(c, outcome) ==
  /\ pc' = [pc EXCEPT ![c] = "done"]
  /\ result' = [result EXCEPT ![c] = outcome]
  /\ snap' = [snap EXCEPT ![c] = Absent]
  /\ next' = [next EXCEPT ![c] = IF outcome = "ok" THEN @ ELSE NoRecord]
  /\ UNCHANGED << req, attempt, sawReuse >>

\* The call suspends at its next store operation, writing family w.
WriteAt(c, where, w) ==
  /\ pc' = [pc EXCEPT ![c] = where]
  /\ next' = [next EXCEPT ![c] = w]
  /\ UNCHANGED << req, attempt, result >>

\* The read half of a store operation: families.get after live's eviction.
Evict(f) == store' = [store EXCEPT ![f] = IF Live(f) THEN @ ELSE Absent]

\* Faulty: the write only asks that the family still exists.
MatchesPresence(c) == Present(req[c].family)

Matches(c) == store[req[c].family].revision = snap[c].revision

\* families.set of what the call computed, with the next revision.  The
\* history gains a link when the write brings a new current token.
Put(c) ==
  LET f == req[c].family IN
  /\ store' = [store EXCEPT ![f] =
                [family |-> next[c], revision |-> snap[c].revision + 1]]
  /\ issued' = [issued EXCEPT ![f] =
                 IF next[c].current = None THEN @
                 ELSE Append(@, [token |-> next[c].current,
                                 from  |-> req[c].token])]

\* revokeById is awaited inside a try by rotate, which reports the reuse
\* whatever happens; revoke and revokeFamily let the error through.
RevokeFailure(c) == IF req[c].kind = "rotate" THEN "reused" ELSE "store_error"

RevokeSuccess(c) == IF req[c].kind = "rotate" THEN "reused" ELSE "void"

RevokeReason(c) ==
  IF req[c].kind = "rotate" THEN "reuse_detected" ELSE "revoked"

-----------------------------------------------------------------------------
(* Calls arrive.                                                           *)

Call(c, kind, f, t, where) ==
  /\ pc[c] = "idle"
  /\ req' = [req EXCEPT ![c] = [kind |-> kind, family |-> f, token |-> t]]
  /\ pc' = [pc EXCEPT ![c] = where]
  /\ UNCHANGED << now, store, attempt, sawReuse, snap, result, issued, faults >>

\* issue up to its await: newFamilyId draws 128 random bits, so an id no
\* other call has.
CallIssue(c) ==
  \E f \in Families, t \in Unminted :
    /\ \A d \in Calls : req[d].kind = "issue" => req[d].family # f
    /\ Call(c, "issue", f, None, "create")
    /\ next' = [next EXCEPT ![c] = NewFamily(t, now, AbsoluteTtl)]

\* rotate and revoke, given a token that parses as family f and digest t.
CallRotate(c) ==
  \E f \in Families, t \in Presentable :
    Call(c, "rotate", f, t, "read") /\ UNCHANGED next

CallRevoke(c) ==
  \E f \in Families, t \in Presentable :
    Call(c, "revoke", f, t, "revokeRead") /\ UNCHANGED next

CallRevokeFamily(c) ==
  \E f \in Families :
    Call(c, "revokeFamily", f, None, "revokeRead") /\ UNCHANGED next

\* A token that parseToken cannot split: refused, or quietly ignored.
CallMalformed(c) ==
  \E kind \in {"rotate", "revoke"} :
    /\ pc[c] = "idle"
    /\ req' = [req EXCEPT ![c] = [NoRequest EXCEPT !.kind = kind]]
    /\ pc' = [pc EXCEPT ![c] = "done"]
    /\ result' = [result EXCEPT ![c] =
                   IF kind = "rotate" THEN "malformed" ELSE "void"]
    /\ UNCHANGED << now, store, attempt, sawReuse, snap, next, issued, faults >>

-----------------------------------------------------------------------------
(* issue, after its await.                                                 *)

\* create inserts only over nothing; an id already live is refused.
Create(c) ==
  /\ pc[c] = "create"
  /\ ~ Live(req[c].family)
  /\ Put(c)
  /\ Return(c, "ok")
  /\ UNCHANGED << now, faults >>

-----------------------------------------------------------------------------
(* rotate.                                                                 *)

ReadMissing(c) ==
  /\ pc[c] = "read"
  /\ ~ Live(req[c].family)
  /\ Evict(req[c].family)
  /\ Return(c, "unknown_family")
  /\ UNCHANGED << now, issued, faults >>

ReadFound(c) ==
  /\ pc[c] = "read"
  /\ Live(req[c].family)
  /\ snap' = [snap EXCEPT ![c] = store[req[c].family]]
  /\ pc' = [pc EXCEPT ![c] = "decide"]
  /\ UNCHANGED << now, store, req, attempt, sawReuse, next, result, issued, faults >>

VerdictOf(c) == Verdict(snap[c].family, req[c].token, now)

DecideReject(c) ==
  /\ pc[c] = "decide"
  /\ VerdictOf(c) \notin {"reuse", "rotated"}
  /\ Return(c, VerdictOf(c))
  /\ UNCHANGED << now, store, issued, faults >>

DecideReuse(c) ==
  /\ pc[c] = "decide"
  /\ VerdictOf(c) = "reuse"
  /\ sawReuse' = [sawReuse EXCEPT ![c] = TRUE]
  /\ WriteAt(c, "cas", Revoke(snap[c].family, "reuse_detected"))
  /\ UNCHANGED << now, store, snap, issued, faults >>

DecideRotate(c) ==
  /\ pc[c] = "decide"
  /\ VerdictOf(c) = "rotated"
  /\ \E t \in Unminted : WriteAt(c, "cas", Rotate(snap[c].family, t, now))
  /\ UNCHANGED << now, store, sawReuse, snap, issued, faults >>

CasWins(c) ==
  /\ pc[c] = "cas"
  /\ Matches(c)
  /\ Put(c)
  /\ Return(c, IF Revoked(next[c]) THEN "reused" ELSE "ok")
  /\ UNCHANGED << now, faults >>

\* The lost write is forgotten and the loop goes round again.
Retry(c, where, tries) ==
  /\ pc' = [pc EXCEPT ![c] = where]
  /\ attempt' = [attempt EXCEPT ![c] = tries]
  /\ snap' = [snap EXCEPT ![c] = Absent]
  /\ next' = [next EXCEPT ![c] = NoRecord]
  /\ UNCHANGED << req, sawReuse, result >>

\* Faulty: one lost write ends the call.
CasLosesForGood(c) ==
  /\ pc[c] = "cas"
  /\ ~ Matches(c)
  /\ Return(c, "store_error")
  /\ UNCHANGED << now, store, issued, faults >>

\* Faulty: the write is tried again, uncounted, with the revision it had.
CasLosesUnread(c) ==
  /\ pc[c] = "cas"
  /\ ~ Matches(c)
  /\ UNCHANGED vars

CasLoses(c) ==
  /\ pc[c] = "cas"
  /\ ~ Matches(c)
  /\ \/ attempt[c] + 1 < MaxRetries /\ Retry(c, "read", attempt[c] + 1)
     \/ attempt[c] + 1 = MaxRetries /\ sawReuse[c] /\ Retry(c, "revokeRead", 0)
     \/ attempt[c] + 1 = MaxRetries /\ ~ sawReuse[c] /\ Return(c, "store_error")
  /\ UNCHANGED << now, store, issued, faults >>

-----------------------------------------------------------------------------
(* revokeById, for revoke, revokeFamily and an exhausted rotate.           *)

\* Faulty: the family id is proof enough to log out.
NeedsNoRevokeById(c) ==
  LET f == req[c].family IN ~ Live(f) \/ Revoked(store[f].family)

\* Nothing to revoke: absent, already revoked, or asked for with a token
\* the family never issued.
NeedsNoRevoke(c) ==
  LET f == req[c].family IN
  \/ ~ Live(f)
  \/ Revoked(store[f].family)
  \/ req[c].kind = "revoke" /\ ~ FamilyIssued(store[f].family, req[c].token)

RevokeReadSettles(c) ==
  /\ pc[c] = "revokeRead"
  /\ NeedsNoRevoke(c)
  /\ Evict(req[c].family)
  /\ Return(c, RevokeSuccess(c))
  /\ UNCHANGED << now, issued, faults >>

RevokeReadFound(c) ==
  /\ pc[c] = "revokeRead"
  /\ ~ NeedsNoRevoke(c)
  /\ snap' = [snap EXCEPT ![c] = store[req[c].family]]
  /\ WriteAt(c, "revokeCas", Revoke(store[req[c].family].family, RevokeReason(c)))
  /\ UNCHANGED << now, store, sawReuse, issued, faults >>

RevokeCasWins(c) ==
  /\ pc[c] = "revokeCas"
  /\ Matches(c)
  /\ Put(c)
  /\ Return(c, RevokeSuccess(c))
  /\ UNCHANGED << now, faults >>

RevokeCasLoses(c) ==
  /\ pc[c] = "revokeCas"
  /\ ~ Matches(c)
  /\ \/ attempt[c] + 1 < MaxRetries /\ Retry(c, "revokeRead", attempt[c] + 1)
     \/ attempt[c] + 1 = MaxRetries /\ Return(c, RevokeFailure(c))
  /\ UNCHANGED << now, store, issued, faults >>

-----------------------------------------------------------------------------
(* The environment: the clock, and a store that fails.                     *)

Tick ==
  /\ now < MaxTime
  /\ now' = now + 1
  /\ UNCHANGED << store, callVars, issued, faults >>

ErrorAt(c) ==
  IF pc[c] \in {"revokeRead", "revokeCas"} THEN RevokeFailure(c)
  ELSE "store_error"

\* The operation throws having done nothing.
StoreFails(c) ==
  /\ faults < MaxFaults
  /\ faults' = faults + 1
  /\ pc[c] \in {"create", "read", "cas", "revokeRead", "revokeCas"}
  /\ Return(c, ErrorAt(c))
  /\ UNCHANGED << now, store, issued >>

\* The write lands and its answer is lost: the call sees an error.
AnswerLost(c) ==
  /\ faults < MaxFaults
  /\ faults' = faults + 1
  /\ \/ pc[c] = "create" /\ ~ Live(req[c].family)
     \/ pc[c] \in {"cas", "revokeCas"} /\ Matches(c)
  /\ Put(c)
  /\ Return(c, ErrorAt(c))
  /\ UNCHANGED now

-----------------------------------------------------------------------------
Arrive(c) ==
  \/ CallIssue(c) \/ CallRotate(c) \/ CallRevoke(c)
  \/ CallRevokeFamily(c) \/ CallMalformed(c)

Proceed(c) ==
  \/ Create(c)
  \/ ReadMissing(c) \/ ReadFound(c)
  \/ DecideReject(c) \/ DecideReuse(c) \/ DecideRotate(c)
  \/ CasWins(c) \/ CasLoses(c)
  \/ RevokeReadSettles(c) \/ RevokeReadFound(c)
  \/ RevokeCasWins(c) \/ RevokeCasLoses(c)

\* Every call has settled: nothing more has to happen.
AllSettled == (\A c \in Calls : pc[c] = "done") /\ UNCHANGED vars

Next ==
  \/ \E c \in Calls : Arrive(c) \/ Proceed(c) \/ StoreFails(c) \/ AnswerLost(c)
  \/ Tick
  \/ AllSettled

Spec == Init /\ [][Next]_vars

\* The event loop resumes every continuation whose promise has settled, and
\* a store operation settles its promise one way or the other.
Fairness == \A c \in Calls : WF_vars(Proceed(c))

FairSpec == Spec /\ Fairness
=============================================================================
