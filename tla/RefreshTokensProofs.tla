------------------------ MODULE RefreshTokensProofs ------------------------
(***************************************************************************)
(* Theorems about RefreshTokens, for any sets of calls, families and       *)
(* tokens, any lifetimes and any retry budget.                             *)
(***************************************************************************)
EXTENDS RefreshTokensInv, FiniteSetTheorems, TLAPS

USE DEF PC, Outcome, Request, Entry

-----------------------------------------------------------------------------
(* The family functions stay within the type.                              *)

\* newest keeps a sequence of tokens a sequence of tokens.
LEMMA NewestType ==
  ASSUME NEW s \in Seq(Tokens)
  PROVE  Newest(s) \in Seq(Tokens)
<1>1. CASE Len(s) > MaxChainLength
  <2>1. /\ Len(s) - MaxChainLength + 1 \in 1 .. Len(s)
        /\ Len(s) \in Nat
    BY <1>1, MaxChainAssumption
  <2>2. SubSeq(s, Len(s) - MaxChainLength + 1, Len(s)) \in Seq(Tokens)
    BY <2>1
  <2> QED BY <1>1, <2>2 DEF Newest
<1>2. CASE ~ (Len(s) > MaxChainLength)
  BY <1>2 DEF Newest
<1> QED BY <1>1, <1>2

\* A first record is a family.
LEMMA NewFamilyType ==
  ASSUME NEW t \in Tokens, NEW n \in Nat
  PROVE  NewFamily(t, n, AbsoluteTtl) \in Family
BY TtlAssumption, AbsoluteTtlAssumption DEF NewFamily, Family, Earlier

\* A revoked family is a family again.
LEMMA RevokeType ==
  ASSUME NEW family \in Family, NEW reason \in RevocationReason
  PROVE  Revoke(family, reason) \in Family
<1>1. CASE Revoked(family)
  BY <1>1 DEF Revoke
<1>2. CASE ~ Revoked(family)
  <2> DEFINE used == IF family.current = None THEN family.usedHashes
                     ELSE Append(family.usedHashes, family.current)
  <2>1. used \in Seq(Tokens)
    BY DEF Family
  <2>2. Revoke(family, reason) =
          [family EXCEPT !.current = None, !.usedHashes = used,
                         !.revokedReason = reason]
    BY <1>2 DEF Revoke, Family
  <2> HIDE DEF used
  <2> QED BY <2>1, <2>2 DEF Family
<1> QED BY <1>1, <1>2

\* So is a rotated one.
LEMMA RotateType ==
  ASSUME NEW family \in Family, family.current \in Tokens,
         NEW t \in Tokens, NEW n \in Nat
  PROVE  Rotate(family, t, n) \in Family
<1>1. Newest(Append(family.usedHashes, family.current)) \in Seq(Tokens)
  <2>1. Append(family.usedHashes, family.current) \in Seq(Tokens)
    BY DEF Family
  <2> QED BY <2>1, NewestType
<1>2. Earlier(n + Ttl, family.absoluteExpiresAt) \in Nat
  BY TtlAssumption DEF Earlier, Family
<1> QED BY <1>1, <1>2 DEF Rotate, Family

\* The placeholders have the types of what they stand for.
LEMMA Placeholders == NoRecord \in Family /\ Absent \in Entry /\ NoRequest \in Request
BY DEF NoRecord, Family, Absent, NoRequest

-----------------------------------------------------------------------------
(* Parts of steps.                                                         *)

\* A call that settles keeps the types.
LEMMA ReturnType ==
  ASSUME TypeOK, NEW c \in Calls, NEW r \in Outcome, Return(c, r)
  PROVE  /\ pc' \in [Calls -> PC] /\ req' \in [Calls -> Request]
         /\ attempt' \in [Calls -> 0 .. MaxRetries - 1]
         /\ sawReuse' \in [Calls -> BOOLEAN] /\ snap' \in [Calls -> Entry]
         /\ next' \in [Calls -> Family] /\ result' \in [Calls -> Outcome]
BY Placeholders DEF TypeOK, Return

\* So does a write that lands.
LEMMA PutType ==
  ASSUME TypeOK, NEW c \in Calls, req[c].family \in Families, Put(c)
  PROVE  store' \in [Families -> Entry] /\ issued' \in [Families -> Seq(Link)]
<1> DEFINE f == req[c].family
           link == [token |-> next[c].current, from |-> req[c].token]
<1>1. next[c] \in Family /\ snap[c].revision + 1 \in Nat
  BY DEF TypeOK
<1>2. store' \in [Families -> Entry]
  BY <1>1 DEF TypeOK, Put
<1>3. next[c].current # None => link \in Link
  BY <1>1 DEF TypeOK, Link, Family
<1>4. next[c].current # None => Append(issued[f], link) \in Seq(Link)
  BY <1>3 DEF TypeOK
<1>5. issued' \in [Families -> Seq(Link)]
  BY <1>4 DEF TypeOK, Put
<1> QED BY <1>2, <1>5

-----------------------------------------------------------------------------
(* The steps, by what they do.  The handlers of RefreshTokens end in one   *)
(* of three ways, and the invariants only depend on which.                 *)

\* Who may answer that a token was reused.
Reports(c, r) ==
  r = "reused" =>
    \/ pc[c] = "cas" /\ Revoked(next[c])
    \/ pc[c] \in {"revokeRead", "revokeCas"} /\ req[c].kind = "rotate"

\* The promise settles without a write of the call's own.
SettleStep(c) ==
  /\ pc[c] \in Suspended
  /\ \E r \in Outcome \ {"ok"} : Return(c, r) /\ Reports(c, r)
  /\ UNCHANGED store \/ Evict(req[c].family)
  /\ faults' \in Nat
  /\ UNCHANGED << now, issued >>

\* The write lands and the promise settles.
WriteStep(c) ==
  /\ \/ pc[c] = "create" /\ ~ Live(req[c].family)
     \/ pc[c] \in {"cas", "revokeCas"} /\ Matches(c)
  /\ Put(c)
  /\ \E r \in Outcome :
       Return(c, r) /\ (r = "ok" => next[c].current \in Tokens) /\ Reports(c, r)
  /\ faults' \in Nat
  /\ UNCHANGED now

\* The write is lost to another and the loop goes round.
RetryStep(c) ==
  /\ \E where \in {"read", "revokeRead"}, tries \in 0 .. MaxRetries - 1 :
       /\ Retry(c, where, tries)
       /\ where = "read" => pc[c] = "cas"
       /\ where = "revokeRead" /\ pc[c] = "cas" => sawReuse[c]
       /\ tries \in {0, attempt[c] + 1}
  /\ pc[c] \in {"cas", "revokeCas"} /\ ~ Matches(c)
  /\ UNCHANGED << now, store, issued, faults >>

\* A call of rotate, revoke or revokeFamily arrives.
CallStep(c) == CallRotate(c) \/ CallRevoke(c) \/ CallRevokeFamily(c)

StepOf(c) ==
  \/ CallIssue(c) \/ CallStep(c) \/ CallMalformed(c)
  \/ SettleStep(c) \/ WriteStep(c) \/ RetryStep(c)
  \/ ReadFound(c) \/ DecideReuse(c) \/ DecideRotate(c) \/ RevokeReadFound(c)

\* Every handler's step is one of these.
LEMMA ActionShapes ==
  ASSUME TypeOK, CallShape, WriteFollowsRead, Next
  PROVE  (\E c \in Calls : StepOf(c)) \/ Tick \/ UNCHANGED vars
<1> SUFFICES ASSUME NEW c \in Calls,
                    Arrive(c) \/ Proceed(c) \/ StoreFails(c) \/ AnswerLost(c)
             PROVE  StepOf(c)
  BY DEF Next, AllSettled
<1> USE DEF StepOf
<1>1. faults \in Nat /\ faults + 1 \in Nat /\ attempt[c] \in 0 .. MaxRetries - 1
  BY DEF TypeOK
<1>2. CASE Arrive(c)
  BY <1>2 DEF Arrive, CallStep
<1>3. CASE Create(c)
  <2>1. next[c].current \in Tokens
    BY <1>3 DEF Create, CallShape, FitsAwait
  <2> QED BY <1>1, <1>3, <2>1 DEF Create, WriteStep, Reports
<1>4. CASE ReadMissing(c)
  BY <1>1, <1>4 DEF ReadMissing, SettleStep, Suspended, Reports
<1>5. CASE ReadFound(c) \/ DecideReuse(c) \/ DecideRotate(c) \/ RevokeReadFound(c)
  BY <1>5
<1>6. CASE DecideReject(c)
  <2>1. VerdictOf(c) \in Outcome \ {"ok", "reused"}
    BY <1>6 DEF DecideReject, VerdictOf, Verdict
  <2> QED BY <1>1, <1>6, <2>1 DEF DecideReject, SettleStep, Suspended, Reports
<1>7. CASE CasWins(c)
  <2>1. ~ Revoked(next[c]) => next[c].current \in Tokens
    BY <1>7 DEF CasWins, WriteFollowsRead, FollowsRead
  <2>2. PICK r \in {"reused", "ok"} :
          Return(c, r) /\ (r = "ok" => next[c].current \in Tokens) /\ Reports(c, r)
    BY <1>7, <2>1 DEF CasWins, Reports
  <2> QED BY <1>1, <1>7, <2>2 DEF CasWins, WriteStep
<1>8. CASE CasLoses(c)
  <2>1. ASSUME Return(c, "store_error") PROVE SettleStep(c)
    BY <1>1, <1>8, <2>1 DEF CasLoses, SettleStep, Suspended, Reports
  <2>2. ASSUME NEW tries \in {0, attempt[c] + 1}, tries < MaxRetries,
               \/ Retry(c, "read", tries)
               \/ Retry(c, "revokeRead", tries) /\ sawReuse[c]
        PROVE  RetryStep(c)
    <3>1. tries \in 0 .. MaxRetries - 1
      BY <1>1, <2>2, MaxRetriesAssumption
    <3> QED BY <1>8, <2>2, <3>1 DEF CasLoses, RetryStep
  <2> QED BY <1>8, <2>1, <2>2, MaxRetriesAssumption DEF CasLoses
<1>9. CASE RevokeReadSettles(c)
  <2>1. RevokeSuccess(c) \in Outcome \ {"ok"} /\ Reports(c, RevokeSuccess(c))
    BY <1>9 DEF RevokeSuccess, RevokeReadSettles, Reports
  <2> QED BY <1>1, <1>9, <2>1 DEF RevokeReadSettles, SettleStep, Suspended
<1>10. CASE RevokeCasWins(c)
  <2>1. RevokeSuccess(c) \in Outcome \ {"ok"} /\ Reports(c, RevokeSuccess(c))
    BY <1>10 DEF RevokeSuccess, RevokeCasWins, Reports
  <2> QED BY <1>1, <1>10, <2>1 DEF RevokeCasWins, WriteStep
<1>11. CASE RevokeCasLoses(c)
  <2>1. RevokeFailure(c) \in Outcome \ {"ok"} /\ Reports(c, RevokeFailure(c))
    BY <1>11 DEF RevokeFailure, RevokeCasLoses, Reports
  <2>2. ASSUME Return(c, RevokeFailure(c)) PROVE SettleStep(c)
    BY <1>1, <1>11, <2>1, <2>2 DEF RevokeCasLoses, SettleStep, Suspended
  <2>3. ASSUME attempt[c] + 1 < MaxRetries, Retry(c, "revokeRead", attempt[c] + 1)
        PROVE  RetryStep(c)
    <3>1. attempt[c] + 1 \in 0 .. MaxRetries - 1
      BY <1>1, <2>3, MaxRetriesAssumption
    <3> QED BY <1>11, <2>3, <3>1 DEF RevokeCasLoses, RetryStep
  <2> QED BY <1>11, <2>2, <2>3 DEF RevokeCasLoses
<1>12. CASE StoreFails(c)
  <2>1. ErrorAt(c) \in Outcome \ {"ok"} /\ Reports(c, ErrorAt(c))
    BY DEF ErrorAt, RevokeFailure, Reports
  <2> QED BY <1>1, <1>12, <2>1 DEF StoreFails, SettleStep, Suspended
<1>13. CASE AnswerLost(c)
  <2>1. ErrorAt(c) \in Outcome \ {"ok"} /\ Reports(c, ErrorAt(c))
    BY DEF ErrorAt, RevokeFailure, Reports
  <2> QED BY <1>1, <1>13, <2>1 DEF AnswerLost, WriteStep
<1> QED
  BY <1>2, <1>3, <1>4, <1>5, <1>6, <1>7, <1>8, <1>9, <1>10, <1>11, <1>12, <1>13
     DEF Proceed

-----------------------------------------------------------------------------
(* Type correctness.                                                       *)

\* Every step keeps the types: what a call computes is a family again.
LEMMA TypeStep ==
  ASSUME TypeOK, CallShape, WriteFollowsRead, Next
  PROVE  TypeOK'
<1>1. ASSUME NEW c \in Calls, CallIssue(c) PROVE TypeOK'
  <2>1. PICK f \in Families, t \in Unminted :
          /\ Call(c, "issue", f, None, "create")
          /\ next' = [next EXCEPT ![c] = NewFamily(t, now, AbsoluteTtl)]
    BY <1>1 DEF CallIssue
  <2>2. NewFamily(t, now, AbsoluteTtl) \in Family
    BY NewFamilyType DEF Unminted, TypeOK
  <2> QED BY <2>1, <2>2 DEF Call, TypeOK
<1>2. ASSUME NEW c \in Calls, CallStep(c) PROVE TypeOK'
  <2>1. Presentable \subseteq Tokens \cup {Forged, None}
    <3>1. \A d \in Calls : next[d].current \in Tokens \cup {None}
      BY DEF TypeOK, Family
    <3> QED BY <3>1 DEF Presentable, Delivered
  <2>2. PICK kind \in {"rotate", "revoke", "revokeFamily"}, f \in Families,
             t \in Tokens \cup {Forged, None}, where \in {"read", "revokeRead"} :
          Call(c, kind, f, t, where) /\ UNCHANGED next
    BY <1>2, <2>1 DEF CallStep, CallRotate, CallRevoke, CallRevokeFamily
  <2> QED BY <2>2 DEF Call, TypeOK
<1>3. ASSUME NEW c \in Calls, CallMalformed(c) PROVE TypeOK'
  BY <1>3, Placeholders DEF CallMalformed, TypeOK, NoRequest
<1>4. ASSUME NEW c \in Calls, SettleStep(c) PROVE TypeOK'
  <2>1. store' \in [Families -> Entry]
    <3>1. req[c].family \in Families
      BY <1>4 DEF SettleStep, CallShape, FitsAwait
    <3>2. store[req[c].family] \in Entry /\ Absent \in Entry
      BY <3>1, Placeholders DEF TypeOK
    <3>3. store \in [Families -> Entry]
      BY DEF TypeOK
    <3> HIDE DEF Entry
    <3> QED BY <1>4, <3>1, <3>2, <3>3 DEF SettleStep, Evict
  <2>2. PICK r \in Outcome : Return(c, r)
    BY <1>4 DEF SettleStep
  <2>3. now' \in Nat /\ issued' \in [Families -> Seq(Link)] /\ faults' \in Nat
    BY <1>4 DEF SettleStep, TypeOK
  <2> QED BY <2>1, <2>2, <2>3, ReturnType DEF TypeOK
<1>5. ASSUME NEW c \in Calls, WriteStep(c) PROVE TypeOK'
  <2>1. req[c].family \in Families
    BY <1>5 DEF WriteStep, CallShape, FitsAwait, Suspended
  <2>2. PICK r \in Outcome : Return(c, r)
    BY <1>5 DEF WriteStep
  <2>3. now' \in Nat /\ faults' \in Nat /\ Put(c)
    BY <1>5 DEF WriteStep, TypeOK
  <2> QED BY <2>1, <2>2, <2>3, ReturnType, PutType DEF TypeOK
<1>6. ASSUME NEW c \in Calls, RetryStep(c) PROVE TypeOK'
  BY <1>6, Placeholders DEF RetryStep, Retry, TypeOK
<1>7. ASSUME NEW c \in Calls, ReadFound(c) PROVE TypeOK'
  BY <1>7 DEF ReadFound, TypeOK, CallShape, FitsAwait, Suspended
<1>8. ASSUME NEW c \in Calls, DecideReuse(c) PROVE TypeOK'
  <2>1. Revoke(snap[c].family, "reuse_detected") \in Family
    BY RevokeType DEF TypeOK, RevocationReason
  <2> QED BY <1>8, <2>1 DEF DecideReuse, WriteAt, TypeOK
<1>9. ASSUME NEW c \in Calls, DecideRotate(c) PROVE TypeOK'
  <2>1. PICK t \in Unminted : WriteAt(c, "cas", Rotate(snap[c].family, t, now))
    BY <1>9 DEF DecideRotate
  <2>2. snap[c].family.current \in Tokens
    <3>1. req[c].token = snap[c].family.current
      BY <1>9 DEF DecideRotate, VerdictOf, Verdict
    <3>2. req[c].token \in Tokens \cup {Forged}
      BY <1>9 DEF DecideRotate, CallShape, FitsAwait
    <3>3. snap[c].family.current \in Tokens \cup {None}
      BY DEF TypeOK, Family
    <3> QED BY <3>1, <3>2, <3>3, ForgedAssumption
  <2>3. Rotate(snap[c].family, t, now) \in Family
    BY <2>2, RotateType DEF Unminted, TypeOK
  <2> QED BY <1>9, <2>1, <2>3 DEF DecideRotate, WriteAt, TypeOK
<1>10. ASSUME NEW c \in Calls, RevokeReadFound(c) PROVE TypeOK'
  <2>1. req[c].family \in Families
    BY <1>10 DEF RevokeReadFound, CallShape, FitsAwait, Suspended
  <2>2. Revoke(store[req[c].family].family, RevokeReason(c)) \in Family
    BY <2>1, RevokeType DEF TypeOK, RevokeReason, RevocationReason
  <2> QED BY <1>10, <2>1, <2>2 DEF RevokeReadFound, WriteAt, TypeOK
<1>11. ASSUME Tick PROVE TypeOK'
  BY <1>11 DEF Tick, callVars, TypeOK
<1>12. ASSUME UNCHANGED vars PROVE TypeOK'
  BY <1>12 DEF vars, callVars, TypeOK
<1> QED
  BY ActionShapes, <1>1, <1>2, <1>3, <1>4, <1>5, <1>6, <1>7, <1>8, <1>9, <1>10,
     <1>11, <1>12 DEF StepOf

-----------------------------------------------------------------------------
(* What suspended calls hold.                                              *)

\* A step of one call leaves what every other call holds alone.
LEMMA OthersKeep ==
  ASSUME TypeOK, NEW c \in Calls, StepOf(c), NEW d \in Calls, d # c
  PROVE  /\ pc'[d] = pc[d] /\ req'[d] = req[d] /\ snap'[d] = snap[d]
         /\ next'[d] = next[d] /\ result'[d] = result[d] /\ attempt'[d] = attempt[d]
<1> USE DEF TypeOK
<1>1. CASE CallIssue(c)
  BY <1>1 DEF CallIssue, Call
<1>2. CASE CallStep(c)
  BY <1>2 DEF CallStep, CallRotate, CallRevoke, CallRevokeFamily, Call
<1>3. CASE CallMalformed(c)
  BY <1>3 DEF CallMalformed
<1>4. CASE SettleStep(c)
  BY <1>4 DEF SettleStep, Return
<1>5. CASE WriteStep(c)
  BY <1>5 DEF WriteStep, Return
<1>6. CASE RetryStep(c)
  BY <1>6 DEF RetryStep, Retry
<1>7. CASE ReadFound(c)
  BY <1>7 DEF ReadFound
<1>8. CASE DecideReuse(c) \/ DecideRotate(c)
  BY <1>8 DEF DecideReuse, DecideRotate, WriteAt
<1>9. CASE RevokeReadFound(c)
  BY <1>9 DEF RevokeReadFound, WriteAt
<1> QED
  BY <1>1, <1>2, <1>3, <1>4, <1>5, <1>6, <1>7, <1>8, <1>9 DEF StepOf

\* What the calls hold stays fit for where they are.
LEMMA ShapeStep ==
  ASSUME TypeOK, CallShape, WriteFollowsRead, Next
  PROVE  CallShape'
<1>1. ASSUME UNCHANGED << pc, req, snap, next, result >> PROVE CallShape'
  BY <1>1 DEF CallShape, FitsAwait, Revoked
<1>2. ASSUME Tick \/ UNCHANGED vars PROVE CallShape'
  BY <1>1, <1>2 DEF Tick, vars, callVars
<1>3. ASSUME NEW c \in Calls, StepOf(c) PROVE CallShape'
  <2> SUFFICES FitsAwait(c)'
    <3>1. ASSUME NEW d \in Calls, d # c PROVE FitsAwait(d)'
      BY <1>3, <3>1, OthersKeep DEF CallShape, FitsAwait, Revoked
    <3> QED BY <3>1 DEF CallShape
  <2>0. FitsAwait(c)
    BY DEF CallShape
  <2>00. NoRecord.current = None /\ Absent \in Entry
    BY Placeholders DEF NoRecord
  <2>1. CASE CallIssue(c)
    <3>1. PICK f \in Families, t \in Unminted :
            /\ Call(c, "issue", f, None, "create")
            /\ next' = [next EXCEPT ![c] = NewFamily(t, now, AbsoluteTtl)]
      BY <2>1 DEF CallIssue
    <3>2. next'[c].current \in Tokens /\ ~ Revoked(next'[c])
      BY <3>1 DEF TypeOK, NewFamily, Revoked, Unminted
    <3>3. pc'[c] = "create" /\ snap'[c] = Absent /\ result'[c] # "ok"
      BY <2>0, <3>1 DEF Call, TypeOK, FitsAwait
    <3>4. req'[c] = [kind |-> "issue", family |-> f, token |-> None]
      BY <3>1 DEF Call, TypeOK
    <3> QED BY <3>2, <3>3, <3>4 DEF FitsAwait, Revoked
  <2>2. CASE CallStep(c)
    <3>1. Presentable \subseteq Tokens \cup {Forged}
      BY DEF Presentable, Delivered, CallShape, FitsAwait
    <3>2. PICK kind \in {"rotate", "revoke", "revokeFamily"}, f \in Families,
               t \in Tokens \cup {Forged, None}, where \in {"read", "revokeRead"} :
            /\ Call(c, kind, f, t, where) /\ UNCHANGED next
            /\ where = "read" => kind = "rotate" /\ t \in Tokens \cup {Forged}
      BY <2>2, <3>1 DEF CallStep, CallRotate, CallRevoke, CallRevokeFamily
    <3>3. /\ pc[c] = "idle" /\ pc'[c] = where /\ snap'[c] = snap[c]
          /\ next'[c] = next[c] /\ result'[c] = result[c]
          /\ req'[c] = [kind |-> kind, family |-> f, token |-> t]
      BY <3>2 DEF Call, TypeOK
    <3> QED BY <2>0, <3>2, <3>3 DEF FitsAwait, Revoked
  <2>3. CASE CallMalformed(c)
    <3>1. /\ pc[c] = "idle" /\ pc'[c] = "done" /\ snap'[c] = snap[c]
          /\ next'[c] = next[c] /\ result'[c] # "ok"
      BY <2>3 DEF CallMalformed, TypeOK
    <3> QED BY <2>0, <3>1 DEF FitsAwait, Suspended
  <2>4. CASE SettleStep(c)
    <3>1. PICK r \in Outcome \ {"ok"} : Return(c, r)
      BY <2>4 DEF SettleStep
    <3>2. pc'[c] = "done" /\ result'[c] = r /\ next'[c] = NoRecord
      BY <3>1 DEF Return, TypeOK
    <3> QED BY <2>00, <3>2 DEF FitsAwait, Suspended
  <2>5. CASE WriteStep(c)
    <3>1. PICK r \in Outcome : Return(c, r) /\ (r = "ok" => next[c].current \in Tokens)
      BY <2>5 DEF WriteStep
    <3>2. /\ pc'[c] = "done" /\ result'[c] = r
          /\ next'[c] = IF r = "ok" THEN next[c] ELSE NoRecord
      BY <3>1 DEF Return, TypeOK
    <3> QED BY <2>00, <3>1, <3>2 DEF FitsAwait, Suspended
  <2>6. CASE RetryStep(c)
    <3>1. PICK where \in {"read", "revokeRead"}, tries \in 0 .. MaxRetries - 1 :
            Retry(c, where, tries) /\ (where = "read" => pc[c] = "cas")
      BY <2>6 DEF RetryStep
    <3>2. /\ pc'[c] = where /\ next'[c] = NoRecord /\ snap'[c] = Absent
          /\ req'[c] = req[c] /\ result'[c] = result[c]
      BY <3>1 DEF Retry, TypeOK
    <3>3. pc[c] \in {"cas", "revokeCas"}
      BY <2>6 DEF RetryStep
    <3> QED BY <2>0, <2>00, <3>1, <3>2, <3>3 DEF FitsAwait, Suspended
  <2>7. CASE ReadFound(c)
    <3>1. /\ pc[c] = "read" /\ pc'[c] = "decide" /\ next'[c] = next[c]
          /\ req'[c] = req[c] /\ result'[c] = result[c]
      BY <2>7 DEF ReadFound, TypeOK
    <3> QED BY <2>0, <3>1 DEF FitsAwait, Suspended
  <2>8. CASE DecideReuse(c) \/ DecideRotate(c)
    <3>1. /\ pc[c] = "decide" /\ pc'[c] = "cas"
          /\ req'[c] = req[c] /\ result'[c] = result[c]
      BY <2>8 DEF DecideReuse, DecideRotate, WriteAt, TypeOK
    <3> QED BY <2>0, <3>1 DEF FitsAwait, Suspended
  <2>9. CASE RevokeReadFound(c)
    <3>1. /\ pc[c] = "revokeRead" /\ pc'[c] = "revokeCas"
          /\ req'[c] = req[c] /\ result'[c] = result[c]
      BY <2>9 DEF RevokeReadFound, WriteAt, TypeOK
    <3> QED BY <2>0, <3>1 DEF FitsAwait, Suspended
  <2> QED
    BY <1>3, <2>1, <2>2, <2>3, <2>4, <2>5, <2>6, <2>7, <2>8, <2>9 DEF StepOf
<1> QED BY <1>2, <1>3, ActionShapes

-----------------------------------------------------------------------------
(* What a call is about to write.                                          *)


\* A call only ever writes what follows from the family it read.
LEMMA FollowsStep ==
  ASSUME TypeOK, CallShape, WriteFollowsRead, Next
  PROVE  WriteFollowsRead'
<1>1. ASSUME UNCHANGED << pc, req, snap, next >> PROVE WriteFollowsRead'
  BY <1>1 DEF WriteFollowsRead, FollowsRead, Revoked
<1>2. ASSUME Tick \/ UNCHANGED vars PROVE WriteFollowsRead'
  BY <1>1, <1>2 DEF Tick, vars, callVars
<1>3. ASSUME NEW c \in Calls, StepOf(c) PROVE WriteFollowsRead'
  <2> SUFFICES FollowsRead(c)'
    <3>1. ASSUME NEW d \in Calls, d # c PROVE FollowsRead(d)'
      BY <1>3, <3>1, OthersKeep DEF WriteFollowsRead, FollowsRead, Revoked
    <3> QED BY <3>1 DEF WriteFollowsRead
  <2>1. ASSUME pc'[c] \notin {"cas", "revokeCas"} PROVE FollowsRead(c)'
    BY <2>1 DEF FollowsRead
  <2>2. CASE CallIssue(c) \/ CallStep(c) \/ CallMalformed(c)
    BY <2>1, <2>2
       DEF CallIssue, CallStep, CallRotate, CallRevoke, CallRevokeFamily,
           CallMalformed, Call, TypeOK
  <2>3. CASE SettleStep(c) \/ WriteStep(c)
    BY <2>1, <2>3 DEF SettleStep, WriteStep, Return, TypeOK
  <2>4. CASE RetryStep(c)
    BY <2>1, <2>4 DEF RetryStep, Retry, TypeOK
  <2>5. CASE ReadFound(c)
    BY <2>1, <2>5 DEF ReadFound, TypeOK
  <2>6. CASE DecideReuse(c)
    <3>1. /\ pc'[c] = "cas" /\ snap'[c] = snap[c]
          /\ next'[c] = Revoke(snap[c].family, "reuse_detected")
      BY <2>6 DEF DecideReuse, WriteAt, TypeOK
    <3>2. ~ Revoked(snap[c].family) /\ snap[c].family \in Family
      BY <2>6 DEF DecideReuse, VerdictOf, Verdict, TypeOK
    <3>3. Revoked(next'[c]) /\ next'[c].current = None
      BY <3>1, <3>2 DEF Family, Revoke, Revoked
    <3> QED BY <3>1, <3>2, <3>3 DEF FollowsRead, Revoked
  <2>7. CASE DecideRotate(c)
    <3>1. PICK t \in Unminted : WriteAt(c, "cas", Rotate(snap[c].family, t, now))
      BY <2>7 DEF DecideRotate
    <3>2. /\ pc'[c] = "cas" /\ snap'[c] = snap[c] /\ req'[c] = req[c]
          /\ next'[c] = Rotate(snap[c].family, t, now)
      BY <2>7, <3>1 DEF DecideRotate, WriteAt, TypeOK
    <3>3. /\ ~ Revoked(snap[c].family) /\ snap[c].family \in Family
          /\ req[c].token = snap[c].family.current
      BY <2>7 DEF DecideRotate, VerdictOf, Verdict, TypeOK
    <3>4. t \in Tokens /\ now \in Nat
      BY DEF Unminted, TypeOK
    <3>5. ~ Revoked(next'[c]) /\ next'[c].current = t
      BY <3>2, <3>3, <3>4 DEF Family, Rotate, Revoked
    <3> QED BY <3>2, <3>3, <3>4, <3>5 DEF FollowsRead, Revoked
  <2>8. CASE RevokeReadFound(c)
    <3> DEFINE f == req[c].family
    <3>1. f \in Families /\ ~ Revoked(store[f].family)
      BY <2>8 DEF RevokeReadFound, NeedsNoRevoke, CallShape, FitsAwait, Suspended
    <3>2. /\ pc'[c] = "revokeCas" /\ snap'[c] = store[f]
          /\ next'[c] = Revoke(store[f].family, RevokeReason(c))
      BY <2>8 DEF RevokeReadFound, WriteAt, TypeOK
    <3>3. store[f].family \in Family /\ RevokeReason(c) \in RevocationReason
      BY <3>1 DEF TypeOK, RevokeReason, RevocationReason
    <3> HIDE DEF f
    <3>4. Revoked(next'[c]) /\ next'[c].current = None
      BY <3>1, <3>2, <3>3 DEF Family, Revoke, Revoked, RevocationReason
    <3> QED BY <3>1, <3>2, <3>4 DEF FollowsRead, Revoked
  <2> QED BY <1>3, <2>2, <2>3, <2>4, <2>5, <2>6, <2>7, <2>8 DEF StepOf
<1> QED BY <1>2, <1>3, ActionShapes

-----------------------------------------------------------------------------
(* What a write that lands does to a family: it opens it, exchanges its    *)
(* current token, or ends it, and each only as SessionChain allows.        *)

\* The record and the history after a write of call c.
Stored(c) ==
  LET f == req[c].family IN
  /\ f \in Families
  /\ store' = [store EXCEPT ![f] =
                [family |-> next[c], revision |-> snap[c].revision + 1]]
  /\ snap[c].revision + 1 \in Nat \ {0}

Linking(c) ==
  issued' = [issued EXCEPT ![req[c].family] =
              Append(@, [token |-> next[c].current, from |-> req[c].token])]

Opens(c) ==
  /\ pc[c] = "create" /\ ~ Present(req[c].family)
  /\ issued[req[c].family] = << >> /\ req[c].token = None
  /\ next[c].current \in Tokens /\ ~ Revoked(next[c])
  /\ Stored(c) /\ Linking(c)

\* The family in the store is the one the call decided on.
Current(c) ==
  LET f == req[c].family IN
  /\ pc[c] \in {"cas", "revokeCas"}
  /\ Present(f) /\ ~ Revoked(store[f].family) /\ issued[f] # << >>
  /\ store[f] = snap[c]

Exchanges(c) ==
  /\ pc[c] = "cas" /\ Current(c)
  /\ req[c].token = store[req[c].family].family.current
  /\ next[c].current \in Tokens /\ ~ Revoked(next[c])
  /\ Stored(c) /\ Linking(c)

Ends(c) ==
  /\ Current(c)
  /\ next[c].current = None /\ Revoked(next[c])
  /\ Stored(c) /\ UNCHANGED issued

LEMMA WriteCases ==
  ASSUME IInv, NEW c \in Calls, WriteStep(c)
  PROVE  Opens(c) \/ Exchanges(c) \/ Ends(c)
<1> DEFINE f == req[c].family
<1>0. /\ TypeOK /\ FitsAwait(c) /\ ReadTruly(c) /\ FollowsRead(c) /\ OneIssue
  BY DEF IInv, CallShape, SnapshotTruth, WriteFollowsRead
<1>1. f \in Families /\ Put(c)
  BY <1>0 DEF WriteStep, FitsAwait, Suspended
<1>2. snap[c] \in Entry /\ store[f] \in Entry /\ issued[f] \in Seq(Link)
  BY <1>0, <1>1 DEF TypeOK
<1>3. Stored(c)
  BY <1>1, <1>2 DEF Put, Stored
<1>4. next[c].current # None => Linking(c)
  BY <1>1 DEF Put, Linking
<1>5. next[c].current = None => UNCHANGED issued
  BY <1>0, <1>1 DEF Put, TypeOK
<1>6. CASE pc[c] = "create"
  <2>1. issued[f] = << >> /\ ~ Present(f)
    BY <1>0, <1>1, <1>6 DEF OneIssue
  <2>2. /\ req[c].token = None /\ next[c].current \in Tokens /\ ~ Revoked(next[c])
    BY <1>0, <1>6 DEF FitsAwait
  <2> QED BY <1>3, <1>4, <1>6, <2>1, <2>2, NoneAssumption DEF Opens
<1>7. CASE pc[c] \in {"cas", "revokeCas"}
  <2>1. Matches(c)
    BY <1>7 DEF WriteStep
  <2>2. store[f] = snap[c] /\ Present(f) /\ issued[f] # << >>
    BY <1>0, <1>2, <1>7, <2>1 DEF Matches, ReadTruly, Present
  <2>3. Current(c)
    BY <1>0, <1>7, <2>2 DEF FollowsRead, Current
  <2>4. CASE next[c].current = None
    BY <1>0, <1>3, <1>5, <1>7, <2>3, <2>4, NoneAssumption DEF FollowsRead, Ends
  <2>5. CASE next[c].current # None
    BY <1>0, <1>3, <1>4, <1>7, <2>2, <2>3, <2>5 DEF FollowsRead, Exchanges
  <2> QED BY <2>4, <2>5
<1> QED BY <1>6, <1>7 DEF WriteStep

\* No other step writes: the history stays, and a record stays or is evicted
\* because its absolute deadline has passed.
LEMMA NoWrite ==
  ASSUME NEW c \in Calls, StepOf(c), ~ WriteStep(c)
  PROVE  issued' = issued /\ (store' = store \/ Evict(req[c].family))
BY DEF StepOf, CallIssue, CallStep, CallRotate, CallRevoke, CallRevokeFamily, Call,
       CallMalformed, SettleStep, RetryStep, ReadFound, DecideReuse, DecideRotate,
       RevokeReadFound

-----------------------------------------------------------------------------
(* One call opens each family.                                             *)

\* Present and a family's revocation are read off the new store.
LEMMA StoreAfter ==
  ASSUME TypeOK, NEW c \in Calls, NEW g \in Families
  PROVE  /\ Stored(c) =>
              store'[g] = IF g = req[c].family
                            THEN [family   |-> next[c],
                                  revision |-> snap[c].revision + 1]
                            ELSE store[g]
         /\ Linking(c) =>
              issued'[g] = IF g = req[c].family
                             THEN Append(issued[g], [token |-> next[c].current,
                                                     from  |-> req[c].token])
                             ELSE issued[g]
         /\ Evict(req[c].family) => store'[g] = store[g] \/ store'[g] = Absent
<1>0. g \in DOMAIN store /\ g \in DOMAIN issued
  BY DEF TypeOK
<1>1. Stored(c) =>
        store'[g] = IF g = req[c].family
                      THEN [family   |-> next[c],
                            revision |-> snap[c].revision + 1]
                      ELSE store[g]
  BY <1>0 DEF Stored
<1>2. Linking(c) =>
        issued'[g] = IF g = req[c].family
                       THEN Append(issued[g], [token |-> next[c].current,
                                               from  |-> req[c].token])
                       ELSE issued[g]
  BY <1>0 DEF Linking
<1>3. Evict(req[c].family) => store'[g] = store[g] \/ store'[g] = Absent
  BY <1>0 DEF Evict
<1> QED BY <1>1, <1>2, <1>3

LEMMA OneIssueStep ==
  ASSUME IInv, Next
  PROVE  OneIssue'
<1>0. TypeOK /\ CallShape /\ OneIssue /\ WriteFollowsRead
  BY DEF IInv
<1>1. ASSUME UNCHANGED << pc, req, store, issued >> PROVE OneIssue'
  BY <1>0, <1>1 DEF OneIssue, Present
<1>2. ASSUME Tick \/ UNCHANGED vars PROVE OneIssue'
  BY <1>1, <1>2 DEF Tick, vars, callVars
<1>3. ASSUME NEW c \in Calls, CallIssue(c) PROVE OneIssue'
  <2>1. PICK f \in Families :
          /\ \A d \in Calls : req[d].kind = "issue" => req[d].family # f
          /\ req' = [req EXCEPT ![c] = [kind |-> "issue", family |-> f, token |-> None]]
          /\ pc' = [pc EXCEPT ![c] = "create"]
          /\ pc[c] = "idle" /\ UNCHANGED << store, issued >>
    BY <1>3 DEF CallIssue, Call
  <2>2. issued[f] = << >>
    BY <1>0, <2>1 DEF OneIssue
  <2>3. req[c].kind = "none"
    BY <1>0, <2>1 DEF CallShape, FitsAwait, NoRequest
  <2>4. /\ \A d \in Calls : d # c => req'[d] = req[d] /\ pc'[d] = pc[d]
        /\ req'[c] = [kind |-> "issue", family |-> f, token |-> None]
    BY <1>0, <2>1 DEF TypeOK
  <2> QED BY <1>0, <2>1, <2>2, <2>3, <2>4 DEF OneIssue, Present
<1>4. ASSUME NEW c \in Calls, CallStep(c) \/ CallMalformed(c) PROVE OneIssue'
  <2>1. /\ pc[c] = "idle" /\ pc'[c] # "create" /\ req'[c].kind # "issue"
        /\ UNCHANGED << store, issued >>
    BY <1>0, <1>4 DEF CallStep, CallRotate, CallRevoke, CallRevokeFamily, Call,
                      CallMalformed, NoRequest, TypeOK
  <2>2. req[c].kind = "none"
    BY <1>0, <2>1 DEF CallShape, FitsAwait, NoRequest
  <2>3. \A d \in Calls : d # c => req'[d] = req[d] /\ pc'[d] = pc[d]
    BY <1>0, <1>4, OthersKeep DEF StepOf
  <2> QED BY <1>0, <2>1, <2>2, <2>3 DEF OneIssue, Present
<1>5. ASSUME NEW c \in Calls, WriteStep(c) PROVE OneIssue'
  <2>1. req' = req /\ pc'[c] # "create"
    BY <1>0, <1>5 DEF WriteStep, Return, TypeOK
  <2>2. \A d \in Calls : d # c => pc'[d] = pc[d]
    BY <1>0, <1>5, OthersKeep DEF StepOf
  <2>3. ASSUME NEW g \in Families, g # req[c].family
        PROVE  issued'[g] = issued[g] /\ store'[g] = store[g]
    BY <1>0, <1>5, <2>3, WriteCases, StoreAfter DEF Opens, Exchanges, Ends
  <2>4. /\ req[c].family \in Families
        /\ issued'[req[c].family] # << >>
        /\ pc[c] = "create" => req[c].kind = "issue"
        /\ pc[c] # "create" => issued[req[c].family] # << >>
    <3>1. CASE Opens(c) \/ Exchanges(c)
      <4>1. Stored(c) /\ Linking(c) /\ req[c].family \in Families
        BY <3>1 DEF Opens, Exchanges, Stored
      <4>2. issued'[req[c].family] =
              Append(issued[req[c].family],
                     [token |-> next[c].current, from |-> req[c].token])
        BY <1>0, <4>1, StoreAfter
      <4>3. issued[req[c].family] \in Seq(Link)
        BY <1>0, <4>1 DEF TypeOK
      <4>4. issued'[req[c].family] # << >>
        BY <4>2, <4>3
      <4> QED BY <1>0, <3>1, <4>1, <4>4
              DEF Opens, Exchanges, Current, CallShape, FitsAwait
    <3>2. CASE Ends(c)
      BY <3>2 DEF Ends, Stored, Current
    <3> QED BY <1>5, <3>1, <3>2, WriteCases
  <2>5. \A d \in Calls : pc'[d] = "create" => pc[d] = "create" /\ d # c
    BY <2>1, <2>2
  <2>6. \A d \in Calls : pc'[d] = "create" => req[d].family # req[c].family
    BY <1>0, <2>4, <2>5 DEF OneIssue, CallShape, FitsAwait
  <2>7. \A d \in Calls : pc'[d] = "create" => req[d].family \in Families
    BY <1>0, <2>5 DEF CallShape, FitsAwait, Suspended
  <2>8. \A d \in Calls : pc'[d] = "create" => issued'[req'[d].family] = << >>
    BY <1>0, <2>1, <2>3, <2>5, <2>6, <2>7 DEF OneIssue
  <2>9. \A g \in Families :
          /\ Present(g)' => issued'[g] # << >>
          /\ issued'[g] # << >> =>
               \E d \in Calls : req'[d].kind = "issue" /\ req'[d].family = g
    BY <1>0, <2>1, <2>3, <2>4 DEF OneIssue, Present
  <2> QED BY <1>0, <2>1, <2>8, <2>9 DEF OneIssue
<1>6. ASSUME NEW c \in Calls, StepOf(c), ~ WriteStep(c), ~ CallIssue(c),
             ~ CallStep(c), ~ CallMalformed(c)
      PROVE  OneIssue'
  <2>1. req' = req /\ pc'[c] # "create"
    BY <1>0, <1>6 DEF StepOf, SettleStep, RetryStep, ReadFound, DecideReuse,
         DecideRotate, RevokeReadFound, Return, Retry, WriteAt, TypeOK
  <2>2. \A d \in Calls : d # c => pc'[d] = pc[d]
    BY <1>0, <1>6, OthersKeep
  <2>3. issued' = issued
    BY <1>6, NoWrite
  <2>4. ASSUME NEW g \in Families PROVE Present(g)' => Present(g)
    <3>1. store'[g] = store[g] \/ store'[g] = Absent
      BY <1>0, <1>6, NoWrite, StoreAfter
    <3> QED BY <3>1 DEF Present, Absent
  <2> QED BY <1>0, <2>1, <2>2, <2>3, <2>4 DEF OneIssue
<1>7. ASSUME NEW c \in Calls, StepOf(c) PROVE OneIssue'
  BY <1>3, <1>4, <1>5, <1>6, <1>7
<1> QED BY <1>0, <1>2, <1>7, ActionShapes

-----------------------------------------------------------------------------
(* Revisions tell the truth.                                               *)

LEMMA TruthStep ==
  ASSUME IInv, Next
  PROVE  SnapshotTruth'
<1>0. /\ TypeOK /\ CallShape /\ OneIssue /\ SnapshotTruth /\ WriteFollowsRead
  BY DEF IInv
<1>1. ASSUME Tick \/ UNCHANGED vars PROVE SnapshotTruth'
  BY <1>0, <1>1 DEF Tick, vars, callVars, SnapshotTruth, ReadTruly, Present
<1>2. ASSUME NEW c \in Calls, StepOf(c) PROVE SnapshotTruth'
  <2>1. ASSUME NEW d \in Calls, d # c PROVE ReadTruly(d)'
    <3> DEFINE f == req[d].family
    <3> SUFFICES ASSUME pc[d] \in {"decide", "cas", "revokeCas"}
                 PROVE  ReadTruly(d)'
      BY <1>0, <1>2, <2>1, OthersKeep DEF ReadTruly
    <3>1. /\ f \in Families /\ f = req'[d].family /\ snap'[d] = snap[d]
          /\ pc'[d] = pc[d]
      BY <1>0, <1>2, <2>1, OthersKeep DEF CallShape, FitsAwait, Suspended
    <3>2. /\ snap[d].revision # 0 /\ issued[f] # << >>
          /\ Present(f) => snap[d].revision <= store[f].revision
          /\ store[f].revision = snap[d].revision => store[f].family = snap[d].family
      BY <1>0 DEF SnapshotTruth, ReadTruly
    <3>3. snap[d].revision \in Nat /\ store[f].revision \in Nat /\ issued[f] \in Seq(Link)
      BY <1>0, <3>1 DEF TypeOK
    <3> HIDE DEF f
    <3>4. CASE store'[f] = store[f] /\ issued'[f] = issued[f]
      BY <3>1, <3>2, <3>4 DEF ReadTruly, Present
    <3>5. CASE store'[f] = Absent /\ issued'[f] = issued[f]
      BY <3>1, <3>2, <3>5 DEF ReadTruly, Present, Absent
    <3>6. CASE WriteStep(c)
      <4>1. CASE f # req[c].family
        BY <1>0, <3>1, <3>4, <3>6, <4>1, WriteCases, StoreAfter
           DEF Opens, Exchanges, Ends
      <4>2. CASE f = req[c].family
        <5>1. ~ Opens(c)
          BY <3>2, <4>2 DEF Opens
        <5>2. Current(c) /\ Stored(c)
          BY <3>6, <5>1, WriteCases DEF Exchanges, Ends
        <5>3. store'[f].revision = store[f].revision + 1
          <6>1. store'[f] = [family |-> next[c], revision |-> snap[c].revision + 1]
            BY <1>0, <3>1, <4>2, <5>2, StoreAfter
          <6> QED BY <4>2, <5>2, <6>1 DEF Current
        <5>4. snap[d].revision <= store[f].revision
          BY <3>2, <4>2, <5>2 DEF Current
        <5>5. issued'[f] # << >>
          <6>1. CASE Exchanges(c)
            <7>1. issued'[f] = Append(issued[f], [token |-> next[c].current,
                                                  from  |-> req[c].token])
              BY <1>0, <3>1, <4>2, <6>1, StoreAfter DEF Exchanges
            <7> QED BY <3>3, <7>1
          <6>2. CASE Ends(c)
            BY <3>2, <6>2 DEF Ends
          <6> QED BY <3>6, <5>1, <6>1, <6>2, WriteCases
        <5> QED BY <3>1, <3>2, <3>3, <5>3, <5>4, <5>5 DEF ReadTruly, Present
      <4> QED BY <4>1, <4>2
    <3>7. CASE ~ WriteStep(c)
      BY <1>0, <1>2, <3>1, <3>4, <3>5, <3>7, NoWrite, StoreAfter
    <3> QED BY <3>6, <3>7
  <2>2. ReadTruly(c)'
    <3> DEFINE f == req[c].family
    <3>1. ASSUME pc'[c] \notin {"decide", "cas", "revokeCas"} PROVE ReadTruly(c)'
      BY <3>1 DEF ReadTruly
    <3>2. CASE CallIssue(c) \/ CallStep(c) \/ CallMalformed(c)
      BY <1>0, <3>1, <3>2
         DEF CallIssue, CallStep, CallRotate, CallRevoke, CallRevokeFamily,
             CallMalformed, Call, TypeOK
    <3>3. CASE SettleStep(c) \/ WriteStep(c)
      BY <1>0, <3>1, <3>3 DEF SettleStep, WriteStep, Return, TypeOK
    <3>4. CASE RetryStep(c)
      BY <1>0, <3>1, <3>4 DEF RetryStep, Retry, TypeOK
    <3>5. CASE ReadFound(c) \/ RevokeReadFound(c)
      <4>1. /\ f \in Families /\ Present(f)
            /\ snap'[c] = store[f] /\ req'[c] = req[c]
            /\ UNCHANGED << store, issued >>
        BY <1>0, <3>5 DEF ReadFound, RevokeReadFound, NeedsNoRevoke, Live, WriteAt,
                          CallShape, FitsAwait, Suspended, TypeOK
      <4>2. store[f].revision \in Nat /\ issued[f] # << >>
        BY <1>0, <4>1 DEF TypeOK, OneIssue
      <4> QED BY <4>1, <4>2 DEF ReadTruly, Present
    <3>6. CASE DecideReuse(c) \/ DecideRotate(c)
      <4>1. /\ pc[c] = "decide" /\ snap'[c] = snap[c] /\ req'[c] = req[c]
            /\ UNCHANGED << store, issued >>
        BY <1>0, <3>6 DEF DecideReuse, DecideRotate, WriteAt, TypeOK
      <4> QED BY <1>0, <4>1 DEF SnapshotTruth, ReadTruly, Present
    <3> QED BY <1>2, <3>2, <3>3, <3>4, <3>5, <3>6 DEF StepOf
  <2> QED BY <2>1, <2>2 DEF SnapshotTruth
<1> QED BY <1>0, <1>1, <1>2, ActionShapes

-----------------------------------------------------------------------------
(* Histories are chains.                                                   *)

\* What a step does to one family, whichever call took it.
Untouched(g) == issued'[g] = issued[g] /\ store'[g] \in {store[g], Absent}

Opened(g) ==
  /\ ~ Present(g) /\ issued[g] = << >> /\ Present(g)' /\ ~ Revoked(store'[g].family)
  /\ \E t \in Tokens :
       /\ store'[g].family.current = t
       /\ issued'[g] = << [token |-> t, from |-> None] >>

Exchanged(g) ==
  /\ Present(g) /\ ~ Revoked(store[g].family) /\ issued[g] # << >>
  /\ Present(g)' /\ ~ Revoked(store'[g].family)
  /\ \E t \in Tokens :
       /\ store'[g].family.current = t
       /\ issued'[g] = Append(issued[g], [token |-> t,
                                          from  |-> store[g].family.current])

Ended(g) ==
  /\ Present(g) /\ ~ Revoked(store[g].family) /\ issued[g] # << >>
  /\ Present(g)' /\ Revoked(store'[g].family)
  /\ issued'[g] = issued[g]

LEMMA FamilySteps ==
  ASSUME IInv, Next, NEW g \in Families
  PROVE  Untouched(g) \/ Opened(g) \/ Exchanged(g) \/ Ended(g)
<1>0. TypeOK /\ CallShape /\ WriteFollowsRead
  BY DEF IInv
<1>1. CASE Tick \/ UNCHANGED vars
  BY <1>1 DEF Tick, vars, callVars, Untouched
<1>2. ASSUME NEW c \in Calls, StepOf(c), ~ WriteStep(c) PROVE Untouched(g)
  BY <1>0, <1>2, NoWrite, StoreAfter DEF Untouched
<1>3. ASSUME NEW c \in Calls, WriteStep(c), g # req[c].family PROVE Untouched(g)
  BY <1>0, <1>3, WriteCases, StoreAfter DEF Opens, Exchanges, Ends, Untouched
<1>4. ASSUME NEW c \in Calls, WriteStep(c), g = req[c].family
      PROVE  Opened(g) \/ Exchanged(g) \/ Ended(g)
  <2> DEFINE link == [token |-> next[c].current, from |-> req[c].token]
  <2>1. Stored(c)
    BY <1>4, WriteCases DEF Opens, Exchanges, Ends
  <2>2. store'[g] = [family |-> next[c], revision |-> snap[c].revision + 1]
    BY <1>0, <1>4, <2>1, StoreAfter
  <2>3. Present(g)' /\ store'[g].family = next[c]
    BY <2>1, <2>2 DEF Present, Stored
  <2>4. ASSUME Linking(c) PROVE issued'[g] = Append(issued[g], link)
    BY <1>0, <1>4, <2>4, StoreAfter
  <2>5. CASE Opens(c)
    <3>1. issued[g] = << >> /\ issued'[g] = Append(issued[g], link)
      BY <1>4, <2>4, <2>5 DEF Opens
    <3>2. issued'[g] = << link >>
      BY <3>1
    <3> QED BY <1>4, <2>3, <2>5, <3>2 DEF Opens, Opened
  <2>6. CASE Exchanges(c)
    <3>1. issued'[g] = Append(issued[g], link)
      BY <2>4, <2>6 DEF Exchanges
    <3> QED BY <1>4, <2>3, <2>6, <3>1 DEF Exchanges, Current, Exchanged
  <2>7. CASE Ends(c)
    BY <1>4, <2>3, <2>7 DEF Ends, Current, Ended
  <2> QED BY <1>4, <2>5, <2>6, <2>7, WriteCases
<1> QED BY <1>0, <1>1, <1>2, <1>3, <1>4, ActionShapes

LEMMA LinkedStep ==
  ASSUME IInv, Next
  PROVE  ChainLinked'
<1> SUFFICES ASSUME NEW g \in Families PROVE Linked(g)'
  BY DEF ChainLinked
<1>0. /\ Linked(g) /\ issued[g] \in Seq(Link) /\ OneIssue
      /\ Len(issued[g]) \in Nat
  BY DEF IInv, ChainLinked, TypeOK
<1>1. CASE Untouched(g)
  BY <1>0, <1>1 DEF Untouched, Linked, Present, Absent
<1>2. CASE Opened(g)
  <2>1. PICK t \in Tokens :
          /\ store'[g].family.current = t
          /\ issued'[g] = << [token |-> t, from |-> None] >>
    BY <1>2 DEF Opened
  <2>2. Len(issued'[g]) = 1 /\ issued'[g][1] = [token |-> t, from |-> None]
    BY <2>1
  <2> QED BY <2>1, <2>2 DEF Linked
<1>3. CASE Exchanged(g)
  <2> DEFINE last == Len(issued[g])
  <2>1. PICK t \in Tokens :
          /\ store'[g].family.current = t
          /\ issued'[g] = Append(issued[g], [token |-> t,
                                             from  |-> store[g].family.current])
    BY <1>3 DEF Exchanged
  <2>2. last \in Nat \ {0}
    BY <1>0, <1>3 DEF Exchanged
  <2>3. store[g].family.current = issued[g][last].token
    BY <1>0, <1>3 DEF Exchanged, Linked
  <2>4. /\ Len(issued'[g]) = last + 1
        /\ \A i \in 1 .. last : issued'[g][i] = issued[g][i]
        /\ issued'[g][last + 1] = [token |-> t, from |-> store[g].family.current]
    BY <1>0, <2>1, <2>2
  <2>5. issued[g][1].from = None
    BY <1>0, <1>3 DEF Exchanged, Linked
  <2> HIDE DEF last
  <2>6. issued'[g][1].from = None
    BY <2>2, <2>4, <2>5
  <2>7. ASSUME NEW i \in 1 .. Len(issued'[g]) - 1
        PROVE  issued'[g][i + 1].from = issued'[g][i].token
    <3>1. CASE i = last
      BY <2>2, <2>3, <2>4, <3>1
    <3>2. CASE i # last
      <4>1. i \in 1 .. last - 1 /\ i \in 1 .. last /\ i + 1 \in 1 .. last
        BY <2>2, <2>4, <3>2
      <4>2. issued[g][i + 1].from = issued[g][i].token
        BY <1>0, <4>1 DEF Linked, last
      <4> QED BY <2>4, <4>1, <4>2
    <3> QED BY <3>1, <3>2
  <2>8. store'[g].family.current = issued'[g][Len(issued'[g])].token
    BY <2>1, <2>4
  <2> QED BY <2>6, <2>7, <2>8 DEF Linked
<1>4. CASE Ended(g)
  BY <1>0, <1>4 DEF Ended, Linked
<1> QED BY <1>1, <1>2, <1>3, <1>4, FamilySteps

-----------------------------------------------------------------------------
(* No token is drawn twice.                                                *)

\* The history of a family gains the token being written, or nothing.
LEMMA IssuedAfter ==
  ASSUME TypeOK, NEW c \in Calls, NEW g \in Families, Linking(c)
  PROVE  /\ g # req[c].family => issued'[g] = issued[g]
         /\ g = req[c].family =>
              /\ Len(issued'[g]) = Len(issued[g]) + 1
              /\ \A i \in 1 .. Len(issued[g]) : issued'[g][i] = issued[g][i]
              /\ issued'[g][Len(issued[g]) + 1].token = next[c].current
         /\ DOMAIN issued[g] = 1 .. Len(issued[g]) /\ Len(issued[g]) \in Nat
         /\ DOMAIN issued'[g] = 1 .. Len(issued'[g])
<1>0. issued[g] \in Seq(Link)
  BY DEF TypeOK
<1>1. issued'[g] = IF g = req[c].family
                     THEN Append(issued[g], [token |-> next[c].current,
                                             from  |-> req[c].token])
                     ELSE issued[g]
  BY StoreAfter
<1>2. CASE g = req[c].family
  BY <1>0, <1>1, <1>2
<1>3. CASE g # req[c].family
  BY <1>0, <1>1, <1>3
<1> QED BY <1>2, <1>3

LEMMA StoredOnceStep ==
  ASSUME IInv, Next
  PROVE  StoredOnce'
<1>0. TypeOK /\ CallShape /\ WriteFollowsRead /\ StoredOnce
  BY DEF IInv, TokensDistinct
<1>1. ASSUME issued' = issued PROVE StoredOnce'
  BY <1>0, <1>1 DEF StoredOnce
<1>2. ASSUME NEW c \in Calls, Linking(c), pc[c] \in {"create", "cas"}
      PROVE  StoredOnce'
  <2> DEFINE x == next[c].current
             h == req[c].family
  <2>1. \A f \in Families : \A i \in DOMAIN issued[f] : issued[f][i].token # x
    BY <1>2 DEF IInv, TokensDistinct, HeldOnce, IssuedTokens
  <2> SUFFICES ASSUME NEW f \in Families, NEW g \in Families,
                      NEW i \in DOMAIN issued'[f], NEW j \in DOMAIN issued'[g],
                      issued'[f][i].token = issued'[g][j].token
               PROVE  f = g /\ i = j
    BY DEF StoredOnce
  <2>2. ASSUME NEW e \in Families, NEW k \in DOMAIN issued'[e]
        PROVE  \/ k \in DOMAIN issued[e] /\ issued'[e][k] = issued[e][k]
               \/ e = h /\ k = Len(issued[h]) + 1 /\ issued'[e][k].token = x
    <3>1. /\ e # h => issued'[e] = issued[e]
          /\ e = h => /\ Len(issued'[e]) = Len(issued[e]) + 1
                      /\ \A n \in 1 .. Len(issued[e]) : issued'[e][n] = issued[e][n]
                      /\ issued'[e][Len(issued[e]) + 1].token = x
          /\ DOMAIN issued[e] = 1 .. Len(issued[e]) /\ Len(issued[e]) \in Nat
          /\ DOMAIN issued'[e] = 1 .. Len(issued'[e])
      BY <1>0, <1>2, <2>2, IssuedAfter
    <3> HIDE DEF x, h
    <3>2. CASE e # h
      BY <2>2, <3>1, <3>2
    <3>3. CASE e = h
      BY <2>2, <3>1, <3>3
    <3> QED BY <3>2, <3>3
  <2> HIDE DEF x, h
  <2>3. CASE i \in DOMAIN issued[f] /\ issued'[f][i] = issued[f][i]
    <3>1. ~ (g = h /\ j = Len(issued[h]) + 1 /\ issued'[g][j].token = x)
      BY <2>1, <2>3
    <3>2. j \in DOMAIN issued[g] /\ issued'[g][j] = issued[g][j]
      BY <2>2, <3>1
    <3> QED BY <1>0, <2>3, <3>2 DEF StoredOnce
  <2>4. CASE f = h /\ i = Len(issued[h]) + 1 /\ issued'[f][i].token = x
    <3>1. ~ (j \in DOMAIN issued[g] /\ issued'[g][j] = issued[g][j])
      BY <2>1, <2>4
    <3>2. g = h /\ j = Len(issued[h]) + 1
      BY <2>2, <3>1
    <3> QED BY <2>4, <3>2
  <2> QED BY <2>2, <2>3, <2>4
<1>3. CASE Tick \/ UNCHANGED vars
  BY <1>1, <1>3 DEF Tick, vars
<1>4. ASSUME NEW c \in Calls, StepOf(c) PROVE StoredOnce'
  BY <1>1, <1>2, <1>4, NoWrite, WriteCases DEF Opens, Exchanges, Ends
<1> QED BY <1>0, <1>3, <1>4, ActionShapes

\* What a step leaves a call holding: nothing, what it held, or a token
\* nobody else has.
LEMMA NextAfter ==
  ASSUME TypeOK, CallShape, NEW c \in Calls, StepOf(c)
  PROVE  \/ next'[c].current \in {None, next[c].current}
         \/ next'[c].current \in Unminted
<1>0. NoRecord.current = None
  BY DEF NoRecord
<1>1. CASE CallIssue(c)
  <2>1. PICK f \in Families, t \in Unminted :
          next' = [next EXCEPT ![c] = NewFamily(t, now, AbsoluteTtl)]
    BY <1>1 DEF CallIssue
  <2>2. next'[c].current = t
    BY <2>1 DEF TypeOK, NewFamily
  <2> QED BY <2>2
<1>2. CASE CallStep(c) \/ CallMalformed(c) \/ ReadFound(c)
  BY <1>2 DEF CallStep, CallRotate, CallRevoke, CallRevokeFamily, CallMalformed,
              ReadFound
<1>3. CASE SettleStep(c) \/ WriteStep(c)
  BY <1>0, <1>3 DEF SettleStep, WriteStep, Return, TypeOK
<1>4. CASE RetryStep(c)
  BY <1>0, <1>4 DEF RetryStep, Retry, TypeOK
<1>5. CASE DecideReuse(c)
  <2>1. next'[c] = Revoke(snap[c].family, "reuse_detected")
    BY <1>5 DEF DecideReuse, WriteAt, TypeOK
  <2>2. ~ Revoked(snap[c].family) /\ snap[c].family \in Family
    BY <1>5 DEF DecideReuse, VerdictOf, Verdict, TypeOK
  <2>3. next'[c].current = None
    BY <2>1, <2>2 DEF Family, Revoke
  <2> QED BY <2>3
<1>6. CASE DecideRotate(c)
  <2>1. PICK t \in Unminted : next' = [next EXCEPT ![c] = Rotate(snap[c].family, t, now)]
    BY <1>6 DEF DecideRotate, WriteAt
  <2>2. next'[c].current = t
    BY <2>1 DEF TypeOK, Family, Rotate
  <2> QED BY <2>2
<1>7. CASE RevokeReadFound(c)
  <2> DEFINE f == req[c].family
  <2>1. next'[c] = Revoke(store[f].family, RevokeReason(c))
    BY <1>7 DEF RevokeReadFound, WriteAt, TypeOK
  <2>2. ~ Revoked(store[f].family) /\ store[f].family \in Family
    BY <1>7 DEF RevokeReadFound, NeedsNoRevoke, CallShape, FitsAwait, Suspended,
                TypeOK
  <2>3. next'[c].current = None
    BY <2>1, <2>2 DEF Family, Revoke
  <2> QED BY <2>3
<1> QED BY <1>1, <1>2, <1>3, <1>4, <1>5, <1>6, <1>7 DEF StepOf

\* A token a call is about to store stays its own.
LEMMA HeldOnceStep ==
  ASSUME IInv, Next
  PROVE  \A d \in Calls : HeldOnce(d)'
<1>0. /\ TypeOK /\ CallShape /\ WriteFollowsRead
      /\ \A d \in Calls : HeldOnce(d)
  BY DEF IInv, TokensDistinct
<1>1. ASSUME Tick \/ UNCHANGED vars PROVE \A d \in Calls : HeldOnce(d)'
  BY <1>0, <1>1 DEF Tick, vars, callVars, HeldOnce, IssuedTokens
<1>2. \A f \in Families : None \notin IssuedTokens(f)
  <2> SUFFICES ASSUME NEW f \in Families, NEW i \in DOMAIN issued[f]
               PROVE  issued[f][i].token # None
    BY DEF IssuedTokens
  <2>1. issued[f][i] \in Link
    BY <1>0 DEF TypeOK
  <2> QED BY <2>1, NoneAssumption DEF Link
<1>3. ASSUME NEW c \in Calls, StepOf(c), NEW d \in Calls, pc'[d] \in {"create", "cas"}
      PROVE  HeldOnce(d)'
  <2>1. \A e \in Calls : e # c => next'[e] = next[e] /\ pc'[e] = pc[e]
    BY <1>0, <1>3, OthersKeep
  <2>2. \/ next'[c].current \in {None, next[c].current}
        \/ next'[c].current \in Unminted
    BY <1>0, <1>3, NextAfter
  <2>3. \A t \in Unminted : /\ \A e \in Calls : next[e].current # t
                            /\ \A f \in Families : t \notin IssuedTokens(f)
    <3> TAKE t \in Unminted
    <3>1. /\ t \notin UNION {IssuedTokens(f) : f \in Families}
          /\ t \notin {next[e].current : e \in Calls}
      BY DEF Unminted
    <3>2. \A e \in Calls : next[e].current # t
      BY <3>1
    <3>3. \A f \in Families : t \notin IssuedTokens(f)
      BY <3>1
    <3> QED BY <3>2, <3>3
  <2>4. CASE d # c
    <3>1. HeldOnce(d) /\ pc[d] \in {"create", "cas"} /\ next'[d] = next[d]
      BY <1>0, <1>3, <2>1, <2>4
    <3>2. ASSUME NEW e \in Calls, next'[e].current = next'[d].current,
                 next'[d].current # None
          PROVE  d = e
      <4>1. CASE e # c
        BY <2>1, <3>1, <3>2, <4>1 DEF HeldOnce
      <4>2. CASE e = c
        BY <2>2, <2>3, <3>1, <3>2, <4>2 DEF HeldOnce
      <4> QED BY <4>1, <4>2
    <3>3. ASSUME NEW f \in Families PROVE next'[d].current \notin IssuedTokens(f)'
      <4>1. CASE issued' = issued
        BY <3>1, <4>1 DEF HeldOnce, IssuedTokens
      <4>2. CASE Linking(c) /\ next[c].current \in Tokens
        <5>1. next[d].current # next[c].current
          BY <2>4, <3>1, <4>2, NoneAssumption DEF HeldOnce
        <5>2. ASSUME NEW i \in DOMAIN issued'[f]
              PROVE  issued'[f][i].token # next[d].current
          <6>1. \/ i \in DOMAIN issued[f] /\ issued'[f][i] = issued[f][i]
                \/ issued'[f][i].token = next[c].current
            BY <1>0, <4>2, <5>2, IssuedAfter
          <6> QED BY <3>1, <5>1, <6>1 DEF HeldOnce, IssuedTokens
        <5> QED BY <3>1, <5>2 DEF IssuedTokens
      <4> QED BY <1>3, <4>1, <4>2, NoWrite, WriteCases DEF Opens, Exchanges, Ends
    <3> QED BY <3>2, <3>3 DEF HeldOnce
  <2>5. CASE d = c
    <3>1. CallIssue(c) \/ DecideReuse(c) \/ DecideRotate(c)
      BY <1>0, <1>3, <2>5
         DEF StepOf, CallStep, CallRotate, CallRevoke, CallRevokeFamily, Call,
             CallMalformed, SettleStep, WriteStep, RetryStep, Return, Retry,
             ReadFound, RevokeReadFound, WriteAt, TypeOK
    <3>2. issued' = issued
      BY <3>1 DEF CallIssue, Call, DecideReuse, DecideRotate
    <3>3. next'[c].current = None \/ next'[c].current \in Unminted
      <4>1. next[c].current = None
        BY <1>0, <3>1 DEF CallIssue, Call, DecideReuse, DecideRotate, CallShape, FitsAwait
      <4> QED BY <2>2, <4>1
    <3>4. \A f \in Families : next'[c].current \notin IssuedTokens(f)
      BY <1>2, <2>3, <3>3
    <3> QED BY <2>1, <2>3, <2>5, <3>2, <3>3, <3>4 DEF HeldOnce, IssuedTokens
  <2> QED BY <2>4, <2>5
<1>4. ASSUME NEW c \in Calls, StepOf(c) PROVE \A d \in Calls : HeldOnce(d)'
  BY <1>3, <1>4 DEF HeldOnce
<1> QED BY <1>0, <1>1, <1>4, ActionShapes

-----------------------------------------------------------------------------
(* The invariant, and the theorems.                                        *)

LEMMA InitInv == Init => IInv
<1> SUFFICES ASSUME Init PROVE IInv
  OBVIOUS
<1>1. TypeOK
  BY Placeholders, MaxRetriesAssumption DEF Init, TypeOK
<1>2. CallShape
  BY DEF Init, CallShape, FitsAwait, Suspended, NoRecord
<1>3. OneIssue
  BY DEF Init, OneIssue, Present, Absent, NoRequest
<1>4. SnapshotTruth /\ WriteFollowsRead
  BY DEF Init, SnapshotTruth, ReadTruly, WriteFollowsRead, FollowsRead
<1>5. ChainLinked
  BY DEF Init, ChainLinked, Linked, Present, Absent
<1>6. TokensDistinct
  BY DEF Init, TokensDistinct, StoredOnce, HeldOnce
<1> QED BY <1>1, <1>2, <1>3, <1>4, <1>5, <1>6 DEF IInv

LEMMA StepInv == IInv /\ [Next]_vars => IInv'
<1> SUFFICES ASSUME IInv, Next \/ UNCHANGED vars PROVE IInv'
  OBVIOUS
<1>0. Next \/ UNCHANGED vars
  OBVIOUS
<1>1. CASE Next
  BY <1>1, TypeStep, ShapeStep, FollowsStep, OneIssueStep, TruthStep, LinkedStep,
     StoredOnceStep, HeldOnceStep DEF IInv, TokensDistinct
<1>2. CASE UNCHANGED vars
  BY <1>2 DEF vars, callVars, IInv, TypeOK, CallShape, FitsAwait, OneIssue,
     SnapshotTruth, ReadTruly, WriteFollowsRead, FollowsRead, ChainLinked, Linked,
     TokensDistinct, StoredOnce, HeldOnce, IssuedTokens, Present, Revoked
<1> QED BY <1>0, <1>1, <1>2

\* The invariant holds of every behaviour: every step of every call keeps it,
\* whichever other calls it is interleaved with.
THEOREM Inductive == Spec => []IInv
BY InitInv, StepInv, PTL DEF Spec

\* The code's variables always have the shapes it declares.
THEOREM TypeCorrect == Spec => []TypeOK
<1>1. IInv => TypeOK
  BY DEF IInv
<1> QED BY <1>1, Inductive, PTL

\* However many calls present one token at once, the store never holds two
\* successors of it: the compare-and-set that wins moved the family on from
\* the token it was given, and no later one finds that token current again.
THEOREM SessionNeverForks == Spec => []NoFork
<1>1. IInv => NoFork
  <2> SUFFICES ASSUME IInv, NEW f \in Families,
                      NEW i \in DOMAIN issued[f], NEW j \in DOMAIN issued[f],
                      issued[f][i].from = issued[f][j].from
               PROVE  i = j
    BY DEF NoFork
  <2>1. issued[f] \in Seq(Link) /\ Linked(f) /\ StoredOnce
    BY DEF IInv, TypeOK, ChainLinked, TokensDistinct
  <2>2. /\ DOMAIN issued[f] = 1 .. Len(issued[f]) /\ Len(issued[f]) \in Nat
        /\ issued[f] # << >> => issued[f][1].from = None
        /\ \A k \in DOMAIN issued[f] : issued[f][k].token \in Tokens
    <3>1. \A k \in DOMAIN issued[f] : issued[f][k] \in Link
      BY <2>1
    <3> QED BY <2>1, <3>1 DEF Linked, Link
  <2>3. \A k \in DOMAIN issued[f] : k # 1 =>
          k - 1 \in DOMAIN issued[f] /\ issued[f][k].from = issued[f][k - 1].token
    BY <2>1, <2>2 DEF Linked
  <2>4. CASE i = 1 \/ j = 1
    <3>1. issued[f] # << >>
      BY <2>1
    <3> QED BY <2>2, <2>3, <2>4, <3>1, NoneAssumption
  <2>5. CASE i # 1 /\ j # 1
    <3>1. issued[f][i - 1].token = issued[f][j - 1].token
      BY <2>3, <2>5
    <3>2. i - 1 = j - 1
      BY <2>1, <2>3, <2>5, <3>1 DEF StoredOnce
    <3> QED BY <2>2, <3>2
  <2> QED BY <2>4, <2>5
<1> QED BY <1>1, Inductive, PTL

\* A session that ended stays ended: whatever writes are in flight when a
\* family is revoked or evicted, none of them brings it back, because a write
\* that lands was computed from the very record it replaces.
THEOREM RevocationHolds == Spec => RevocationIsFinal
<1> DEFINE Final(f) ==
      /\ Present(f) /\ Revoked(store[f].family) =>
           \/ ~ Present(f)'
           \/ store'[f].family.revokedReason = store[f].family.revokedReason
      /\ issued[f] # << >> /\ ~ Present(f) => ~ Present(f)'
<1>1. ASSUME IInv, Next, NEW f \in Families PROVE Final(f)
  <2>1. CASE Untouched(f)
    BY <2>1 DEF Untouched, Present, Absent
  <2>2. CASE Opened(f)
    BY <2>2 DEF Opened
  <2>3. CASE Exchanged(f) \/ Ended(f)
    BY <2>3 DEF Exchanged, Ended
  <2> QED BY <1>1, <2>1, <2>2, <2>3, FamilySteps
<1>2. IInv /\ [Next]_vars => [\A f \in Families : Final(f)]_vars
  BY <1>1
<1> QED BY <1>2, Inductive, PTL DEF Spec, RevocationIsFinal

-----------------------------------------------------------------------------
(* Refinement.                                                             *)

\* Families that a step is not about keep their chain and their status.
LEMMA OneFamilyMoves ==
  ASSUME IInv, Next
  PROVE  \E f : \A g \in Families :
           g # f => issued'[g] = issued[g] /\ store'[g] = store[g]
<1>0. TypeOK /\ CallShape /\ WriteFollowsRead
  BY DEF IInv
<1>1. CASE Tick \/ UNCHANGED vars
  BY <1>1 DEF Tick, vars, callVars
<1>2. ASSUME NEW c \in Calls, StepOf(c), NEW g \in Families, g # req[c].family
      PROVE  issued'[g] = issued[g] /\ store'[g] = store[g]
  <2>1. CASE WriteStep(c)
    BY <1>0, <1>2, <2>1, WriteCases, StoreAfter DEF Opens, Exchanges, Ends
  <2>2. CASE ~ WriteStep(c)
    BY <1>0, <1>2, <2>2, NoWrite DEF Evict, TypeOK
  <2> QED BY <2>1, <2>2
<1> QED BY <1>0, <1>1, <1>2, ActionShapes

\* What one family's step looks like in the abstract session.
LEMMA AbstractStep ==
  ASSUME IInv, IInv', NEW f \in Families,
         \A g \in Families : g # f => issued'[g] = issued[g] /\ store'[g] = store[g],
         Untouched(f) \/ Opened(f) \/ Exchanged(f) \/ Ended(f)
  PROVE  Session!Next \/ UNCHANGED Session!vars
<1> DEFINE status == [g \in Families |-> SessionStatus(g)]
<1>0. /\ TypeOK /\ OneIssue /\ Linked(f) /\ StoredOnce' /\ TypeOK'
      /\ issued[f] \in Seq(Link) /\ Len(issued[f]) \in Nat
  <2>1. TypeOK /\ OneIssue /\ ChainLinked
    BY DEF IInv
  <2>2. TypeOK' /\ StoredOnce'
    BY DEF IInv, TokensDistinct
  <2>3. issued[f] \in Seq(Link)
    BY <2>1 DEF TypeOK
  <2> QED BY <2>1, <2>2, <2>3 DEF ChainLinked
<1>1. \A g \in Families : g # f => SessionStatus(g)' = SessionStatus(g)
  BY DEF SessionStatus, Present
<1>2. /\ status' = [g \in Families |-> SessionStatus(g)']
      /\ DOMAIN issued = Families /\ DOMAIN issued' = Families
      /\ issued' = [g \in Families |-> issued'[g]]
  BY <1>0 DEF TypeOK
<1>3. ASSUME issued'[f] = issued[f]
      PROVE  issued' = issued
  BY <1>2, <1>3, <1>0 DEF TypeOK
<1>4. ASSUME NEW s, SessionStatus(f)' = s
      PROVE  status' = [status EXCEPT ![f] = s]
  BY <1>1, <1>4
<1>5. ASSUME NEW chain, issued'[f] = chain
      PROVE  issued' = [issued EXCEPT ![f] = chain]
  BY <1>0, <1>5 DEF TypeOK
<1>6. ASSUME NEW t \in Tokens, NEW from,
             issued'[f] = Append(issued[f], [token |-> t, from |-> from])
      PROVE  t \in Session!Fresh
  <2>1. /\ Len(issued'[f]) = Len(issued[f]) + 1
        /\ issued'[f][Len(issued[f]) + 1].token = t
        /\ \A i \in DOMAIN issued[f] : /\ issued'[f][i] = issued[f][i]
                                       /\ i # Len(issued[f]) + 1
                                       /\ i \in DOMAIN issued'[f]
        /\ Len(issued[f]) + 1 \in DOMAIN issued'[f]
    BY <1>0, <1>6
  <2>2. ASSUME NEW g \in Families, NEW i \in DOMAIN issued[g]
        PROVE  issued[g][i].token # t
    <3>1. CASE g = f
      BY <1>0, <2>1, <2>2, <3>1 DEF StoredOnce
    <3>2. CASE g # f
      BY <1>0, <2>1, <2>2, <3>2 DEF StoredOnce
    <3> QED BY <3>1, <3>2
  <2> QED BY <2>2 DEF Session!Fresh, Session!ChainTokens
<1> USE DEF Session!Next, Session!vars
<1>7. CASE Untouched(f)
  <2>1. issued' = issued
    BY <1>3, <1>7 DEF Untouched
  <2>2. CASE SessionStatus(f)' = SessionStatus(f)
    <3>1. status' = status
      BY <1>1, <2>2
    <3> QED BY <2>1, <3>1
  <2>3. CASE SessionStatus(f)' # SessionStatus(f)
    <3>1. SessionStatus(f) \in {"live", "revoked"} /\ SessionStatus(f)' = "gone"
      BY <1>7, <2>1, <2>3 DEF Untouched, SessionStatus, Present, Absent, Revoked
    <3>2. status' = [status EXCEPT ![f] = "gone"]
      BY <1>4, <3>1
    <3> QED BY <2>1, <3>1, <3>2 DEF Session!Expire
  <2> QED BY <2>2, <2>3
<1>8. CASE Opened(f)
  <2>1. PICK t \in Tokens : issued'[f] = << [token |-> t, from |-> None] >>
    BY <1>8 DEF Opened
  <2>2. SessionStatus(f) = "none" /\ SessionStatus(f)' = "live"
    BY <1>8, <2>1 DEF Opened, SessionStatus
  <2>3. status' = [status EXCEPT ![f] = "live"]
    BY <1>4, <2>2
  <2>4. issued' = [issued EXCEPT ![f] = << [token |-> t, from |-> None] >>]
    BY <1>5, <2>1
  <2>5. t \in Session!Fresh
    BY <1>6, <1>8, <2>1 DEF Opened
  <2> QED BY <2>2, <2>3, <2>4, <2>5 DEF Session!Open
<1>9. CASE Exchanged(f)
  <2> DEFINE last == issued[f][Len(issued[f])].token
  <2>1. PICK t \in Tokens : issued'[f] = Append(issued[f], [token |-> t, from |-> last])
    BY <1>0, <1>9 DEF Exchanged, Linked
  <2>2. SessionStatus(f) = "live" /\ SessionStatus(f)' = "live"
    <3>1. issued'[f] # << >>
      BY <1>0, <2>1
    <3> QED BY <1>9, <3>1 DEF Exchanged, SessionStatus
  <2>3. status' = status
    BY <1>1, <2>2
  <2>4. issued' = [issued EXCEPT ![f] = Append(issued[f], [token |-> t, from |-> last])]
    BY <1>5, <2>1
  <2>5. t \in Session!Fresh
    BY <1>6, <2>1
  <2> QED BY <2>2, <2>3, <2>4, <2>5 DEF Session!Exchange
<1>10. CASE Ended(f)
  <2>1. SessionStatus(f) = "live" /\ SessionStatus(f)' = "revoked"
    BY <1>10 DEF Ended, SessionStatus
  <2>2. status' = [status EXCEPT ![f] = "revoked"]
    BY <1>4, <2>1
  <2>3. issued' = issued
    BY <1>3, <1>10 DEF Ended
  <2> QED BY <2>1, <2>2, <2>3 DEF Session!RevokeAll
<1> QED BY <1>7, <1>8, <1>9, <1>10

\* Interleaved calls that read, decide, lose races, retry and fail act on
\* every session as the atomic operations of SessionChain would.
THEOREM ServiceImplementsSession == Spec => ImplementsSession
<1>1. Init => Session!Init
  BY DEF Init, Session!Init, SessionStatus
<1>2. IInv /\ IInv' /\ [Next]_vars => [Session!Next]_(Session!vars)
  <2> SUFFICES ASSUME IInv, IInv', Next \/ UNCHANGED vars
               PROVE  Session!Next \/ UNCHANGED Session!vars
    OBVIOUS
  <2>1. CASE UNCHANGED vars
    BY <2>1 DEF vars, Session!vars, SessionStatus, Present, Revoked
  <2>2. CASE Next
    <3>1. PICK f : \A g \in Families :
                     g # f => issued'[g] = issued[g] /\ store'[g] = store[g]
      BY <2>2, OneFamilyMoves
    <3>2. CASE f \in Families
      BY <2>2, <3>1, <3>2, FamilySteps, AbstractStep
    <3>3. CASE f \notin Families
      <4>1. \A g \in Families : issued'[g] = issued[g] /\ store'[g] = store[g]
        BY <3>1, <3>3
      <4>2. issued' = issued /\ store' = store
        BY <4>1 DEF IInv, TypeOK
      <4> QED BY <4>2 DEF Session!vars, SessionStatus, Present, Revoked
    <3> QED BY <3>2, <3>3
  <2> QED BY <2>1, <2>2
<1> QED BY <1>1, <1>2, Inductive, PTL DEF Spec, ImplementsSession, Session!Spec

-----------------------------------------------------------------------------
(* What the records contain and who ended a session: alerts, logouts, the  *)
(* detection window and the ceiling.                                       *)

-----------------------------------------------------------------------------
(* The history.                                                            *)

\* A family's history only grows.
LEMMA HistoryGrows ==
  ASSUME IInv, Next, NEW f \in Families
  PROVE  /\ DOMAIN issued[f] = 1 .. Len(issued[f]) /\ Len(issued[f]) \in Nat
         /\ DOMAIN issued[f] \subseteq DOMAIN issued'[f]
         /\ \A i \in DOMAIN issued[f] : issued'[f][i] = issued[f][i]
<1>0. issued[f] \in Seq(Link)
  BY DEF IInv, TypeOK
<1>1. CASE issued'[f] = issued[f]
  BY <1>0, <1>1
<1>2. CASE Opened(f)
  BY <1>0, <1>2 DEF Opened
<1>3. CASE Exchanged(f)
  BY <1>0, <1>3 DEF Exchanged
<1> QED BY <1>1, <1>2, <1>3, FamilySteps DEF Untouched, Ended

\* So what was issued, or exchanged, remains so.
LEMMA PastStays ==
  ASSUME IInv, Next, NEW f \in Families, NEW t
  PROVE  /\ Superseded(f, t) => Superseded(f, t)'
         /\ t \in IssuedTokens(f) => t \in IssuedTokens(f)'
BY HistoryGrows DEF Superseded, IssuedTokens

\* A token that was exchanged had been issued.
LEMMA SupersededIsIssued ==
  ASSUME NEW f \in Families, NEW t, Superseded(f, t)
  PROVE  t \in IssuedTokens(f)
BY DEF Superseded, IssuedTokens

-----------------------------------------------------------------------------
(* What a step leaves the call that takes it.                              *)

LEMMA SuspicionOfOthers ==
  ASSUME TypeOK, NEW c \in Calls, StepOf(c), NEW d \in Calls
  PROVE  /\ d # c => sawReuse'[d] = sawReuse[d]
         /\ ~ DecideReuse(c) => sawReuse' = sawReuse
         /\ pc[c] # "idle" => req' = req
BY DEF TypeOK, StepOf, CallIssue, CallStep, CallRotate, CallRevoke, CallRevokeFamily,
       Call, CallMalformed, SettleStep, WriteStep, RetryStep, Return, Retry,
       ReadFound, DecideReuse, DecideRotate, RevokeReadFound, WriteAt, Suspended

\* A call that stays at an await of its own did not take the step.
LEMMA ComputedStep ==
  ASSUME IInv, NEW c \in Calls, StepOf(c), \A d \in Calls : Computed(d), NEW d \in Calls
  PROVE  Computed(d)'
<1>0. TypeOK /\ CallShape
  BY DEF IInv
<1>1. CASE d # c
  BY <1>0, <1>1, OthersKeep, SuspicionOfOthers DEF Computed, RevokeReason
<1>2. CASE d = c
  <2> SUFFICES Computed(c)'
    BY <1>2
  <2>1. ASSUME pc'[c] \notin {"create", "cas", "revokeCas"} PROVE Computed(c)'
    BY <2>1 DEF Computed
  <2>2. CASE CallIssue(c)
    <3>1. PICK f \in Families, t \in Unminted :
            /\ Call(c, "issue", f, None, "create")
            /\ next' = [next EXCEPT ![c] = NewFamily(t, now, AbsoluteTtl)]
      BY <2>2 DEF CallIssue
    <3>2. /\ pc'[c] = "create" /\ next'[c] = NewFamily(t, now, AbsoluteTtl)
          /\ t \in Tokens /\ now \in Nat
      BY <1>0, <3>1 DEF Call, TypeOK, Unminted
    <3> QED BY <3>2 DEF Computed
  <2>3. CASE CallStep(c) \/ CallMalformed(c) \/ SettleStep(c) \/ WriteStep(c) \/ RetryStep(c)
             \/ ReadFound(c)
    BY <1>0, <2>1, <2>3
       DEF TypeOK, CallStep, CallRotate, CallRevoke, CallRevokeFamily, Call, CallMalformed,
           SettleStep, WriteStep, RetryStep, Return, Retry, ReadFound
  <2>4. CASE DecideReuse(c)
    BY <1>0, <2>4 DEF DecideReuse, WriteAt, TypeOK, Computed
  <2>5. CASE DecideRotate(c)
    <3>1. PICK t \in Unminted : WriteAt(c, "cas", Rotate(snap[c].family, t, now))
      BY <2>5 DEF DecideRotate
    <3>2. /\ pc'[c] = "cas" /\ snap'[c] = snap[c]
          /\ next'[c] = Rotate(snap[c].family, t, now)
          /\ t \in Tokens /\ now \in Nat
      BY <1>0, <2>5, <3>1 DEF DecideRotate, WriteAt, TypeOK, Unminted
    <3> QED BY <3>2 DEF Computed
  <2>6. CASE RevokeReadFound(c)
    <3>1. /\ pc'[c] = "revokeCas" /\ snap'[c] = store[req[c].family] /\ req'[c] = req[c]
          /\ next'[c] = Revoke(store[req[c].family].family, RevokeReason(c))
      BY <1>0, <2>6 DEF RevokeReadFound, WriteAt, TypeOK
    <3> QED BY <3>1 DEF Computed, RevokeReason
  <2> QED BY <2>2, <2>3, <2>4, <2>5, <2>6 DEF StepOf
<1> QED BY <1>1, <1>2

-----------------------------------------------------------------------------
(* What a step does to a record.                                           *)

RecordOpened(g) ==
  Opened(g) /\ \E t \in Tokens, n \in Nat : store'[g].family = NewFamily(t, n, AbsoluteTtl)

RecordExchanged(g) ==
  Exchanged(g) /\ \E t \in Tokens, n \in Nat : store'[g].family = Rotate(store[g].family, t, n)

RecordEnded(g) ==
  /\ Ended(g)
  /\ \E c \in Calls :
       /\ req[c].family = g /\ WriteStep(c)
       /\ \/ pc[c] = "cas" /\ sawReuse[c]
          \/ pc[c] = "revokeCas"
  /\ \E reason \in RevocationReason : store'[g].family = Revoke(store[g].family, reason)

LEMMA RecordSteps ==
  ASSUME IInv, \A c \in Calls : Computed(c), Next, NEW g \in Families
  PROVE  Untouched(g) \/ RecordOpened(g) \/ RecordExchanged(g) \/ RecordEnded(g)
<1>0. TypeOK /\ CallShape /\ WriteFollowsRead
  BY DEF IInv
<1>1. CASE Tick \/ UNCHANGED vars
  BY <1>1 DEF Tick, vars, callVars, Untouched
<1>2. ASSUME NEW c \in Calls, StepOf(c), ~ WriteStep(c) PROVE Untouched(g)
  BY <1>0, <1>2, NoWrite, StoreAfter DEF Untouched
<1>3. ASSUME NEW c \in Calls, WriteStep(c), g # req[c].family PROVE Untouched(g)
  BY <1>0, <1>3, WriteCases, StoreAfter DEF Opens, Exchanges, Ends, Untouched
<1>4. ASSUME NEW c \in Calls, WriteStep(c), g = req[c].family
      PROVE  RecordOpened(g) \/ RecordExchanged(g) \/ RecordEnded(g)
  <2>1. Stored(c)
    BY <1>4, WriteCases DEF Opens, Exchanges, Ends
  <2>2. store'[g] = [family |-> next[c], revision |-> snap[c].revision + 1]
    BY <1>0, <1>4, <2>1, StoreAfter
  <2>3. /\ Present(g)' /\ store'[g].family = next[c]
        /\ FollowsRead(c) /\ FitsAwait(c) /\ Computed(c)
    BY <1>0, <2>1, <2>2 DEF Present, Stored, WriteFollowsRead, CallShape
  <2>4. CASE Opens(c)
    <3>1. Opened(g)
      BY <1>4, <2>3, <2>4, FamilySteps DEF Opens, Untouched, Exchanged, Ended, Present, Absent
    <3> QED BY <2>3, <2>4, <3>1 DEF Opens, RecordOpened, Computed
  <2>5. CASE Exchanges(c)
    <3>1. Present(g) /\ ~ Revoked(next[c]) /\ snap[c] = store[g] /\ pc[c] = "cas"
      BY <1>4, <2>5 DEF Exchanges, Current
    <3>2. store[g].family \in Family
      BY <1>0 DEF TypeOK
    <3>3. ~ Revoked(store[g].family)
      BY <1>4, <2>5 DEF Exchanges, Current
    <3>4. Revoked(Revoke(store[g].family, "reuse_detected"))
      BY <3>2, <3>3 DEF Revoke, Revoked, Family
    <3>5. \E t \in Tokens, n \in Nat : next[c] = Rotate(store[g].family, t, n)
      BY <2>3, <3>1, <3>4 DEF Computed
    <3>6. issued'[g] # issued[g]
      <4>1. issued'[g] = Append(issued[g], [token |-> next[c].current, from |-> req[c].token])
        BY <1>0, <1>4, <2>5, StoreAfter DEF Exchanges
      <4>2. issued[g] \in Seq(Link)
        BY <1>0 DEF TypeOK
      <4>3. Len(issued'[g]) = Len(issued[g]) + 1 /\ Len(issued[g]) \in Nat
        BY <4>1, <4>2
      <4> QED BY <4>3
    <3>7. Exchanged(g)
      BY <2>3, <3>1, <3>6, FamilySteps DEF Untouched, Opened, Ended
    <3> QED BY <2>3, <3>5, <3>7 DEF RecordExchanged
  <2>6. CASE Ends(c)
    <3>1. /\ Present(g) /\ ~ Revoked(store[g].family) /\ Revoked(next[c]) /\ snap[c] = store[g]
          /\ pc[c] \in {"cas", "revokeCas"} /\ issued'[g] = issued[g]
      BY <1>4, <2>6 DEF Ends, Current
    <3>2. Ended(g)
      BY <2>3, <3>1, FamilySteps DEF Untouched, Opened, Exchanged, Absent, Present
    <3>3. store[g].family \in Family
      BY <1>0 DEF TypeOK
    <3>4. ASSUME NEW t \in Tokens, NEW n \in Nat
          PROVE  ~ Revoked(Rotate(store[g].family, t, n))
      BY <3>1, <3>3 DEF Rotate, Revoked, Family
    <3>5. \/ pc[c] = "cas" /\ sawReuse[c] /\ next[c] = Revoke(store[g].family, "reuse_detected")
          \/ pc[c] = "revokeCas" /\ next[c] = Revoke(store[g].family, RevokeReason(c))
      BY <2>3, <3>1, <3>4 DEF Computed
    <3>6. "reuse_detected" \in RevocationReason /\ RevokeReason(c) \in RevocationReason
      BY DEF RevocationReason, RevokeReason
    <3>7. \E reason \in RevocationReason : store'[g].family = Revoke(store[g].family, reason)
      BY <2>3, <3>5, <3>6
    <3> QED BY <1>4, <3>2, <3>5, <3>7 DEF RecordEnded
  <2> QED BY <1>4, <2>4, <2>5, <2>6, WriteCases
<1> QED BY <1>0, <1>1, <1>2, <1>3, <1>4, ActionShapes
-----------------------------------------------------------------------------
(* The ceiling.                                                            *)

\* The functions on families keep the family's deadline, and its token's
\* below it.
Capped(family) ==
  /\ family.absoluteExpiresAt = family.createdAt + AbsoluteTtl
  /\ family.expiresAt <= family.absoluteExpiresAt

LEMMA NewIsCapped ==
  ASSUME NEW t, NEW n \in Nat
  PROVE  Capped(NewFamily(t, n, AbsoluteTtl))
BY TtlAssumption, AbsoluteTtlAssumption DEF NewFamily, Earlier, Capped

LEMMA RotatedIsCapped ==
  ASSUME NEW family \in Family, Capped(family), NEW t, NEW n \in Nat
  PROVE  Capped(Rotate(family, t, n))
<1> DEFINE new == Rotate(family, t, n)
<1>1. /\ new.absoluteExpiresAt = family.absoluteExpiresAt
      /\ new.createdAt = family.createdAt
      /\ new.expiresAt = Earlier(n + Ttl, family.absoluteExpiresAt)
  BY DEF Rotate, Family
<1> HIDE DEF new
<1>2. family.absoluteExpiresAt \in Nat /\ n + Ttl \in Nat
  BY TtlAssumption DEF Family
<1> QED BY <1>1, <1>2 DEF Earlier, Capped, new

LEMMA RevokedIsCapped ==
  ASSUME NEW family \in Family, Capped(family), NEW reason
  PROVE  Capped(Revoke(family, reason))
<1> DEFINE new == Revoke(family, reason)
<1>1. /\ new.absoluteExpiresAt = family.absoluteExpiresAt
      /\ new.createdAt = family.createdAt
      /\ new.expiresAt = family.expiresAt
  BY DEF Revoke, Family
<1> HIDE DEF new
<1> QED BY <1>1 DEF Capped, new

LEMMA CeilingStep ==
  ASSUME RecordInv, Next
  PROVE  SessionCeiling'
<1>0. IInv /\ TypeOK /\ SessionCeiling /\ \A c \in Calls : Computed(c)
  BY DEF RecordInv, IInv
<1> SUFFICES ASSUME NEW f \in Families, Present(f)'
             PROVE  Capped(store'[f].family)
  BY DEF SessionCeiling, Capped
<1>1. CASE Untouched(f)
  BY <1>0, <1>1 DEF Untouched, Present, Absent, SessionCeiling, Capped
<1>2. CASE RecordOpened(f)
  <2>1. PICK t \in Tokens, n \in Nat : store'[f].family = NewFamily(t, n, AbsoluteTtl)
    BY <1>2 DEF RecordOpened
  <2> QED BY <2>1, NewIsCapped
<1>3. CASE RecordExchanged(f) \/ RecordEnded(f)
  <2>1. Present(f) /\ store[f].family \in Family
    BY <1>0, <1>3 DEF RecordExchanged, RecordEnded, Exchanged, Ended, TypeOK
  <2>2. Capped(store[f].family)
    BY <1>0, <2>1 DEF SessionCeiling, Capped
  <2>3. CASE RecordExchanged(f)
    <3>1. PICK t \in Tokens, n \in Nat : store'[f].family = Rotate(store[f].family, t, n)
      BY <2>3 DEF RecordExchanged
    <3>2. Capped(Rotate(store[f].family, t, n))
      BY <2>1, <2>2, RotatedIsCapped
    <3> QED BY <3>1, <3>2
  <2>4. CASE RecordEnded(f)
    <3>1. PICK reason \in RevocationReason : store'[f].family = Revoke(store[f].family, reason)
      BY <2>4 DEF RecordEnded
    <3>2. Capped(Revoke(store[f].family, reason))
      BY <2>1, <2>2, RevokedIsCapped
    <3> QED BY <3>1, <3>2
  <2> QED BY <1>3, <2>3, <2>4
<1> QED BY <1>0, <1>1, <1>2, <1>3, RecordSteps

-----------------------------------------------------------------------------
(* What a record remembers.                                                *)

\* Exchanging the token in use drops the oldest of too many.
LEMMA NewestAfter ==
  ASSUME NEW s \in Seq(Tokens), NEW t \in Tokens, Len(s) <= MaxChainLength
  PROVE  LET new  == Newest(Append(s, t))
             kept == Earlier(Len(s) + 1, MaxChainLength)
         IN /\ Len(new) = kept
            /\ \A k \in 1 .. kept :
                 new[k] = Append(s, t)[Len(s) + 1 - kept + k]
<1> DEFINE a == Append(s, t)
           new == Newest(a)
           kept == Earlier(Len(s) + 1, MaxChainLength)
<1>1. a \in Seq(Tokens) /\ Len(a) = Len(s) + 1 /\ Len(s) \in Nat
  OBVIOUS
<1>2. CASE Len(a) > MaxChainLength
  <2>1. Len(s) = MaxChainLength /\ kept = MaxChainLength
    BY <1>1, <1>2, MaxChainAssumption DEF Earlier
  <2>2. new = SubSeq(a, 2, Len(a))
    BY <1>1, <1>2, <2>1, MaxChainAssumption DEF Newest
  <2> HIDE DEF a, new, kept
  <2>3. Len(new) = Len(s) /\ \A k \in 1 .. Len(s) : new[k] = a[k + 1]
    BY <1>1, <2>2
  <2>4. \A k \in 1 .. kept : Len(s) + 1 - kept + k = k + 1
    BY <1>1, <2>1, MaxChainAssumption
  <2> QED BY <2>1, <2>3, <2>4 DEF a, new, kept
<1>3. CASE ~ (Len(a) > MaxChainLength)
  <2>1. new = a /\ kept = Len(s) + 1
    BY <1>1, <1>3, MaxChainAssumption DEF Newest, Earlier
  <2>2. \A k \in 1 .. kept : Len(s) + 1 - kept + k = k
    BY <1>1, <2>1
  <2> QED BY <1>1, <2>1, <2>2
<1> QED BY <1>2, <1>3

LEMMA RemembersStep ==
  ASSUME RecordInv, Next, NEW f \in Families
  PROVE  Remembers(f)'
<1> DEFINE family == store[f].family
           used   == family.usedHashes
           n      == Len(issued[f])
<1>0. /\ IInv /\ TypeOK /\ Remembers(f) /\ Linked(f) /\ \A c \in Calls : Computed(c)
      /\ issued[f] \in Seq(Link) /\ n \in Nat /\ family \in Family
  BY DEF RecordInv, IInv, ChainLinked, TypeOK
<1>1. CASE Untouched(f)
  <2>1. CASE store'[f] = Absent
    BY <2>1 DEF Remembers, Present, Absent
  <2>2. CASE store'[f] = store[f]
    <3>1. issued'[f] = issued[f]
      BY <1>1 DEF Untouched
    <3>2. Kept(f, store[f].family)' = Kept(f, store[f].family)
      BY <2>2, <3>1 DEF Kept, Revoked
    <3> QED BY <1>0, <2>2, <3>1, <3>2 DEF Remembers, Present
  <2> QED BY <1>1, <2>1, <2>2 DEF Untouched
<1>2. CASE RecordOpened(f)
  <2>1. PICK t \in Tokens, m \in Nat : store'[f].family = NewFamily(t, m, AbsoluteTtl)
    BY <1>2 DEF RecordOpened
  <2>2. store'[f].family.usedHashes = << >> /\ ~ Revoked(store'[f].family)
    BY <2>1 DEF NewFamily, Revoked
  <2>3. Len(issued'[f]) = 1
    BY <1>2 DEF RecordOpened, Opened
  <2>4. Kept(f, store[f].family)' = 0
    BY <2>2, <2>3, MaxChainAssumption DEF Kept, Earlier
  <2> QED BY <2>2, <2>4 DEF Remembers
<1>3. ASSUME Present(f), ~ Revoked(family), issued[f] # << >>
      PROVE  LET kept == Earlier(n - 1, MaxChainLength) IN
             /\ n > 0 /\ used \in Seq(Tokens) /\ Len(used) = kept
             /\ Len(used) <= MaxChainLength /\ Len(used) <= n - 1
             /\ family.current = issued[f][n].token /\ family.current \in Tokens
             /\ \A k \in 1 .. kept : used[k] = issued[f][n - 1 - kept + k].token
  <2>1. n > 0 /\ used \in Seq(Tokens) /\ n \in DOMAIN issued[f]
    BY <1>0, <1>3 DEF Family
  <2>2. family.current = issued[f][n].token /\ issued[f][n] \in Link
    BY <1>0, <1>3, <2>1 DEF Linked
  <2>3. Kept(f, family) = Earlier(n - 1, MaxChainLength) /\ Newer(family) = 1
    BY <1>3 DEF Kept, Newer
  <2>4. Earlier(n - 1, MaxChainLength) <= MaxChainLength /\ Earlier(n - 1, MaxChainLength) <= n - 1
    BY <1>0, MaxChainAssumption DEF Earlier
  <2> QED BY <1>0, <1>3, <2>1, <2>2, <2>3, <2>4 DEF Remembers, Link
<1>4. CASE RecordExchanged(f)
  <2>1. PICK t \in Tokens, m \in Nat : store'[f].family = Rotate(family, t, m)
    BY <1>4 DEF RecordExchanged
  <2>2. Present(f) /\ ~ Revoked(family) /\ issued[f] # << >> /\ ~ Revoked(store'[f].family)
    BY <1>4 DEF RecordExchanged, Exchanged
  <2>3. store'[f].family.usedHashes = Newest(Append(used, family.current))
    BY <1>0, <2>1 DEF Rotate, Family
  <2>4. PICK new \in Link : issued'[f] = Append(issued[f], new)
    <3>1. PICK u \in Tokens : issued'[f] = Append(issued[f], [token |-> u, from |-> family.current])
      BY <1>4 DEF RecordExchanged, Exchanged
    <3>2. [token |-> u, from |-> family.current] \in Link
      BY <1>0 DEF Link, Family
    <3> QED BY <3>1, <3>2
  <2>5. Len(issued'[f]) = n + 1 /\ \A i \in 1 .. n : issued'[f][i] = issued[f][i]
    BY <1>0, <2>4
  <2> DEFINE kept == Earlier(n, MaxChainLength)
             grown == Append(used, family.current)
             then == store'[f].family.usedHashes
  <2>6. Kept(f, store[f].family)' = kept /\ Newer(store'[f].family) = 1
    BY <1>0, <2>2, <2>5 DEF Kept, Newer
  <2>7. /\ used \in Seq(Tokens) /\ Len(used) <= MaxChainLength /\ family.current \in Tokens
        /\ n > 0 /\ Len(used) = Earlier(n - 1, MaxChainLength) /\ Len(used) <= n - 1
        /\ Len(used) \in Nat
    BY <1>3, <2>2
  <2>8. Earlier(Len(used) + 1, MaxChainLength) = kept
    BY <1>0, <2>7, MaxChainAssumption DEF Earlier
  <2>9. Len(then) = kept /\ \A k \in 1 .. kept : then[k] = grown[Len(used) + 1 - kept + k]
    <3> HIDE DEF used, family, kept
    <3>1. LET new2 == Newest(Append(used, family.current))
              k2   == Earlier(Len(used) + 1, MaxChainLength)
          IN /\ Len(new2) = k2
             /\ \A k \in 1 .. k2 : new2[k] = Append(used, family.current)[Len(used) + 1 - k2 + k]
      BY <2>7, NewestAfter
    <3> QED BY <2>3, <2>8, <3>1
  <2>10. \A j \in 1 .. Len(used) + 1 : grown[j] = issued[f][n - 1 - Len(used) + j].token
    <3> TAKE j \in 1 .. Len(used) + 1
    <3>1. CASE j \in 1 .. Len(used)
      BY <1>3, <2>2, <2>7, <3>1
    <3>2. CASE j = Len(used) + 1
      <4>1. grown[j] = family.current
        BY <2>7, <3>2
      <4>2. n - 1 - Len(used) + j = n
        <5>1. n \in Nat /\ Len(used) \in Nat
          BY <1>0, <2>7
        <5> HIDE DEF n, used
        <5> QED BY ONLY <3>2, <5>1
      <4> QED BY <1>3, <2>2, <4>1, <4>2
    <3> QED BY <2>7, <3>1, <3>2
  <2>11. kept \in Nat /\ kept <= Len(used) + 1 /\ kept <= n
    BY <1>0, <2>7, <2>8, MaxChainAssumption DEF Earlier
  <2> HIDE DEF family, used, n, kept, grown, then
  <2>12. \A k \in 1 .. kept : then[k] = issued'[f][n - kept + k].token
    <3> TAKE k \in 1 .. kept
    <3>1. Len(used) + 1 - kept + k \in 1 .. Len(used) + 1
      BY <2>7, <2>11
    <3>2. n - 1 - Len(used) + (Len(used) + 1 - kept + k) = n - kept + k
      BY <1>0, <2>7, <2>11
    <3>3. n - kept + k \in 1 .. n
      BY <1>0, <2>11
    <3>4. then[k] = grown[Len(used) + 1 - kept + k]
      BY <2>9
    <3>5. grown[Len(used) + 1 - kept + k]
            = issued[f][n - 1 - Len(used) + (Len(used) + 1 - kept + k)].token
      BY <2>10, <3>1
    <3>6. issued'[f][n - kept + k] = issued[f][n - kept + k]
      BY <2>5, <3>3
    <3> QED BY <3>2, <3>4, <3>5, <3>6
  <2>13. Len(issued'[f]) - Newer(store'[f].family) - kept = n - kept
    BY <1>0, <2>5, <2>6, <2>11
  <2> QED BY <2>6, <2>9, <2>12, <2>13 DEF Remembers, then
<1>5. CASE RecordEnded(f)
  <2>1. PICK reason \in RevocationReason : store'[f].family = Revoke(family, reason)
    BY <1>5 DEF RecordEnded
  <2>2. /\ Present(f) /\ ~ Revoked(family) /\ issued[f] # << >> /\ Revoked(store'[f].family)
        /\ issued'[f] = issued[f]
    BY <1>5 DEF RecordEnded, Ended
  <2> DEFINE kept == Earlier(n - 1, MaxChainLength)
             then == store'[f].family.usedHashes
  <2>3. /\ used \in Seq(Tokens) /\ family.current = issued[f][n].token
        /\ family.current \in Tokens /\ Len(used) = kept /\ kept <= n - 1 /\ n > 0
        /\ kept \in Nat
        /\ \A k \in 1 .. kept : used[k] = issued[f][n - 1 - kept + k].token
    BY <1>3, <2>2
  <2>4. then = Append(used, family.current)
    BY <1>0, <2>1, <2>2, <2>3, NoneAssumption DEF Revoke, Family
  <2>5. Kept(f, store[f].family)' = kept + 1 /\ Newer(store'[f].family) = 0
    BY <2>2 DEF Kept, Newer
  <2> HIDE DEF family, used, n, kept, then
  <2>6. /\ Len(then) = kept + 1 /\ then[kept + 1] = family.current
        /\ \A k \in 1 .. kept : then[k] = used[k]
    BY <2>3, <2>4
  <2>7. \A k \in 1 .. kept + 1 : then[k] = issued[f][n - (kept + 1) + k].token
    <3> TAKE k \in 1 .. kept + 1
    <3>1. CASE k = kept + 1
      <4>1. n - (kept + 1) + k = n
        BY <1>0, <2>3, <3>1
      <4> QED BY <2>3, <2>6, <3>1, <4>1
    <3>2. CASE k \in 1 .. kept
      <4>1. n - (kept + 1) + k = n - 1 - kept + k
        BY <1>0, <2>3, <3>2
      <4> QED BY <2>3, <2>6, <3>2, <4>1
    <3> QED BY <2>3, <3>1, <3>2
  <2>8. n - 0 - (kept + 1) = n - (kept + 1)
    BY <1>0, <2>3
  <2> QED BY <2>2, <2>5, <2>6, <2>7, <2>8 DEF Remembers, then, n
<1> QED BY <1>0, <1>1, <1>2, <1>4, <1>5, RecordSteps

-----------------------------------------------------------------------------
(* Who suspects, and who is entitled to revoke.                            *)

\* What a stored record and its history are.
LEMMA RecordShape ==
  ASSUME RecordInv, NEW f \in Families, Present(f)
  PROVE  /\ issued[f] \in Seq(Link) /\ Len(issued[f]) \in Nat /\ issued[f] # << >>
         /\ store[f].family.usedHashes \in Seq(Tokens)
         /\ Remembers(f) /\ Linked(f)
<1>1. TypeOK /\ OneIssue /\ ChainLinked /\ Remembers(f)
  BY DEF RecordInv, IInv
<1>2. issued[f] \in Seq(Link)
  BY <1>1 DEF TypeOK
<1>3. issued[f] # << >> /\ Linked(f)
  BY <1>1 DEF OneIssue, ChainLinked
<1>4. store[f] \in Entry
  BY <1>1 DEF TypeOK
<1>5. store[f].family.usedHashes \in Seq(Tokens)
  BY <1>4 DEF Family
<1> QED BY <1>1, <1>2, <1>3, <1>5

\* Every hash of a live record has been exchanged.
LEMMA UsedAreSuperseded ==
  ASSUME RecordInv, NEW f \in Families, Present(f), ~ Revoked(store[f].family),
         NEW t \in Range(store[f].family.usedHashes)
  PROVE  Superseded(f, t)
<1> DEFINE used == store[f].family.usedHashes
           n    == Len(issued[f])
           kept == Earlier(n - 1, MaxChainLength)
<1>0. /\ issued[f] \in Seq(Link) /\ n \in Nat /\ issued[f] # << >>
      /\ used \in Seq(Tokens) /\ Remembers(f)
  BY RecordShape
<1>1. n > 0 /\ DOMAIN issued[f] = 1 .. n
  BY <1>0
<1>2. /\ Kept(f, store[f].family) = kept /\ Newer(store[f].family) = 1
      /\ kept \in Nat /\ kept <= n - 1
  BY <1>0, <1>1, MaxChainAssumption DEF Kept, Newer, Earlier
<1>3. /\ Len(used) = kept
      /\ \A k \in 1 .. kept : used[k] = issued[f][n - 1 - kept + k].token
  BY <1>0, <1>2 DEF Remembers
<1>4. PICK k \in 1 .. Len(used) : used[k] = t
  BY <1>0 DEF Range
<1> HIDE DEF used, n, kept
<1>5. /\ n - 1 - kept + k \in 1 .. n /\ n \in 1 .. n
      /\ n - 1 - kept + k < n
  BY <1>0, <1>1, <1>2, <1>3, <1>4
<1>6. issued[f][n - 1 - kept + k].token = t
  BY <1>3, <1>4
<1> QED BY <1>1, <1>5, <1>6 DEF Superseded

\* And every token of such a record, used or not, has been issued.
LEMMA RecordIsIssued ==
  ASSUME RecordInv, NEW f \in Families, Present(f), ~ Revoked(store[f].family),
         NEW t, FamilyIssued(store[f].family, t)
  PROVE  t \in IssuedTokens(f)
<1>1. CASE t \in Range(store[f].family.usedHashes)
  BY <1>1, UsedAreSuperseded, SupersededIsIssued
<1>2. CASE t = store[f].family.current
  <2>1. issued[f] \in Seq(Link) /\ issued[f] # << >>
    BY DEF RecordInv, IInv, TypeOK, OneIssue
  <2>2. Len(issued[f]) \in DOMAIN issued[f]
    BY <2>1
  <2>3. t = issued[f][Len(issued[f])].token
    BY <1>2, <2>1 DEF RecordInv, IInv, ChainLinked, Linked
  <2> QED BY <2>2, <2>3 DEF IssuedTokens
<1> QED BY <1>1, <1>2 DEF FamilyIssued

LEMMA KnowsStep ==
  ASSUME RecordInv, NEW c \in Calls, StepOf(c), Next, NEW d \in Calls
  PROVE  KnowsUsed(d)'
<1>0. IInv /\ TypeOK /\ CallShape /\ KnowsUsed(d)
  BY DEF RecordInv, IInv
<1>1. CASE pc[d] = "decide" /\ UNCHANGED << snap[d], req[d] >>
  <2>1. req[d].family \in Families
    BY <1>0, <1>1 DEF CallShape, FitsAwait, Suspended
  <2>2. \A t : Superseded(req[d].family, t) => Superseded(req[d].family, t)'
    BY <1>0, <1>1, <2>1, PastStays DEF Superseded
  <2> QED BY <1>0, <1>1, <2>2 DEF KnowsUsed, Superseded, Revoked
<1>2. CASE d # c
  <2>1. /\ pc'[d] = pc[d] /\ snap'[d] = snap[d] /\ req'[d] = req[d]
    BY <1>0, <1>2, OthersKeep
  <2> QED BY <1>1, <2>1 DEF KnowsUsed
<1>3. CASE d = c /\ ReadFound(c)
  <2> DEFINE f == req[c].family
  <2>1. /\ f \in Families /\ Present(f) /\ snap'[c] = store[f] /\ req'[c] = req[c]
    BY <1>0, <1>3 DEF ReadFound, Live, CallShape, FitsAwait, Suspended, TypeOK
  <2>2. ~ Revoked(store[f].family) =>
          \A t \in Range(store[f].family.usedHashes) : Superseded(f, t)'
    BY <1>0, <2>1, UsedAreSuperseded, PastStays
  <2> QED BY <1>3, <2>1, <2>2 DEF KnowsUsed, Superseded, Revoked
<1>4. CASE d = c /\ ~ ReadFound(c)
  <2>1. pc'[c] # "decide"
    BY <1>0, <1>4
       DEF TypeOK, StepOf, CallIssue, CallStep, CallRotate, CallRevoke, CallRevokeFamily,
           Call, CallMalformed, SettleStep, WriteStep, RetryStep, Return, Retry,
           DecideReuse, DecideRotate, RevokeReadFound, WriteAt
  <2> QED BY <1>4, <2>1 DEF KnowsUsed
<1> QED BY <1>2, <1>3, <1>4

LEMMA SuspectsStep ==
  ASSUME RecordInv, NEW c \in Calls, StepOf(c), Next, NEW d \in Calls
  PROVE  Suspects(d)'
<1>0. /\ IInv /\ TypeOK /\ CallShape /\ WriteFollowsRead
      /\ Suspects(d) /\ KnowsUsed(d) /\ Computed(d)
  BY DEF RecordInv, IInv
<1>1. ASSUME sawReuse'[d] = sawReuse[d], req'[d] = req[d]
      PROVE  sawReuse'[d] =>
               req'[d].family \in Families /\ Superseded(req[d].family, req[d].token)'
  <2>1. sawReuse[d] => req[d].family \in Families /\ Superseded(req[d].family, req[d].token)
    BY <1>0 DEF Suspects
  <2>2. sawReuse[d] => Superseded(req[d].family, req[d].token)'
    BY <1>0, <2>1, PastStays, <1>1 DEF Superseded
  <2> QED BY <1>1, <2>1, <2>2
<1>2. CASE d # c
  <2>1. /\ pc'[d] = pc[d] /\ req'[d] = req[d] /\ result'[d] = result[d]
        /\ sawReuse'[d] = sawReuse[d]
    BY <1>0, <1>2, OthersKeep, SuspicionOfOthers
  <2> QED BY <1>0, <1>1, <2>1 DEF Suspects, Superseded
<1>3. CASE d = c
  <2>1. CASE CallIssue(c) \/ CallStep(c) \/ CallMalformed(c)
    <3>1. pc[c] = "idle" /\ sawReuse' = sawReuse /\ result'[c] \in {result[c], "malformed", "void"}
      BY <1>0, <2>1 DEF CallIssue, CallStep, CallRotate, CallRevoke, CallRevokeFamily,
                        Call, CallMalformed, TypeOK
    <3>2. ~ sawReuse[c] /\ result[c] # "reused"
      BY <1>0, <1>3, <3>1 DEF Suspects
    <3>3. ~ (req'[c].kind = "rotate" /\ pc'[c] \in {"revokeRead", "revokeCas"})
      BY <1>0, <2>1 DEF CallIssue, CallStep, CallRotate, CallRevoke, CallRevokeFamily,
                        Call, CallMalformed, TypeOK
    <3> QED BY <1>3, <3>1, <3>2, <3>3 DEF Suspects
  <2>2. CASE SettleStep(c) \/ WriteStep(c)
    <3>1. PICK r \in Outcome : Return(c, r) /\ Reports(c, r)
      BY <2>2 DEF SettleStep, WriteStep
    <3>2. /\ pc'[c] = "done" /\ result'[c] = r /\ req'[c] = req[c] /\ sawReuse'[c] = sawReuse[c]
      BY <1>0, <3>1 DEF Return, TypeOK
    <3>3. r = "reused" => sawReuse[c]
      <4>1. CASE pc[c] = "cas" /\ Revoked(next[c])
        <5>1. ~ Revoked(snap[c].family) /\ snap[c].family \in Family
          BY <1>0, <4>1 DEF WriteFollowsRead, FollowsRead, TypeOK
        <5>2. ASSUME NEW t \in Tokens, NEW n \in Nat
              PROVE  ~ Revoked(Rotate(snap[c].family, t, n))
          BY <5>1 DEF Rotate, Revoked, Family
        <5> QED BY <1>0, <1>3, <4>1, <5>2 DEF Computed
      <4> QED BY <1>0, <1>3, <3>1, <4>1 DEF Reports, Suspects
    <3> QED BY <1>1, <1>3, <3>2, <3>3 DEF Suspects, Superseded
  <2>3. CASE RetryStep(c)
    <3>1. PICK where \in {"read", "revokeRead"}, tries \in 0 .. MaxRetries - 1 :
            /\ Retry(c, where, tries)
            /\ where = "revokeRead" /\ pc[c] = "cas" => sawReuse[c]
      BY <2>3 DEF RetryStep
    <3>2. /\ pc'[c] = where /\ result'[c] = result[c] /\ req'[c] = req[c]
          /\ sawReuse'[c] = sawReuse[c] /\ pc[c] \in {"cas", "revokeCas"}
      BY <1>0, <2>3, <3>1 DEF Retry, RetryStep, TypeOK
    <3> QED BY <1>0, <1>1, <1>3, <3>1, <3>2 DEF Suspects, Superseded
  <2>4. CASE ReadFound(c) \/ DecideRotate(c)
    <3>1. /\ pc'[c] \in {"decide", "cas"} /\ result'[c] = result[c] /\ req'[c] = req[c]
          /\ sawReuse'[c] = sawReuse[c]
      BY <1>0, <2>4 DEF ReadFound, DecideRotate, WriteAt, TypeOK
    <3> QED BY <1>0, <1>1, <1>3, <3>1 DEF Suspects, Superseded
  <2>5. CASE RevokeReadFound(c)
    <3>1. /\ pc[c] = "revokeRead" /\ pc'[c] = "revokeCas" /\ result'[c] = result[c]
          /\ req'[c] = req[c] /\ sawReuse'[c] = sawReuse[c]
      BY <1>0, <2>5 DEF RevokeReadFound, WriteAt, TypeOK
    <3> QED BY <1>0, <1>1, <1>3, <3>1 DEF Suspects, Superseded
  <2>6. CASE DecideReuse(c)
    <3> DEFINE f == req[c].family
    <3>1. /\ pc[c] = "decide" /\ pc'[c] = "cas" /\ result'[c] = result[c]
          /\ req'[c] = req[c] /\ sawReuse'[c] = TRUE
      BY <1>0, <2>6 DEF DecideReuse, WriteAt, TypeOK
    <3>2. ~ Revoked(snap[c].family) /\ req[c].token \in Range(snap[c].family.usedHashes)
      BY <2>6 DEF DecideReuse, VerdictOf, Verdict
    <3>3. f \in Families
      BY <1>0, <3>1 DEF CallShape, FitsAwait, Suspended
    <3>4. Superseded(f, req[c].token)
      BY <1>0, <1>3, <3>1, <3>2 DEF KnowsUsed
    <3>5. Superseded(f, req[c].token)'
      BY <1>0, <3>1, <3>3, <3>4, PastStays DEF Superseded
    <3> QED BY <1>3, <3>1, <3>3, <3>5 DEF Suspects, Superseded
  <2> QED BY <2>1, <2>2, <2>3, <2>4, <2>5, <2>6 DEF StepOf
<1> QED BY <1>2, <1>3

LEMMA MandatedStep ==
  ASSUME RecordInv, NEW c \in Calls, StepOf(c), Next, NEW d \in Calls
  PROVE  Mandated(d)'
<1>0. IInv /\ TypeOK /\ CallShape /\ Mandated(d) /\ Suspects(d)
  BY DEF RecordInv, IInv
<1>1. CASE d # c
  <2>1. pc'[d] = pc[d] /\ req'[d] = req[d]
    BY <1>0, <1>1, OthersKeep
  <2> SUFFICES ASSUME pc[d] = "revokeCas", req[d].kind # "revokeFamily"
               PROVE  req'[d].token \in IssuedTokens(req[d].family)'
    BY <1>0, <2>1 DEF Mandated, IssuedTokens
  <2>2. req[d].family \in Families /\ req[d].token \in IssuedTokens(req[d].family)
    BY <1>0 DEF CallShape, FitsAwait, Suspended, Mandated
  <2>3. req[d].token \in {issued'[req[d].family][i].token : i \in DOMAIN issued'[req[d].family]}
    BY <1>0, <2>2, PastStays DEF IssuedTokens
  <2> QED BY <2>1, <2>3 DEF IssuedTokens
<1>2. CASE d = c /\ RevokeReadFound(c)
  <2> DEFINE f == req[c].family
  <2>1. /\ f \in Families /\ Present(f) /\ ~ Revoked(store[f].family) /\ req'[c] = req[c]
        /\ req[c].kind # "issue" /\ pc[c] = "revokeRead" /\ UNCHANGED issued
        /\ req[c].kind = "revoke" => FamilyIssued(store[f].family, req[c].token)
    BY <1>0, <1>2 DEF RevokeReadFound, NeedsNoRevoke, Live, WriteAt, CallShape, FitsAwait,
                      Suspended, TypeOK
  <2>2. CASE req[c].kind = "revoke"
    BY <1>2, <2>1, <2>2, RecordIsIssued DEF Mandated, IssuedTokens
  <2>3. CASE req[c].kind = "rotate"
    <3>1. Superseded(f, req[c].token)
      BY <1>0, <1>2, <2>1, <2>3 DEF Suspects
    <3>2. req[c].token \in IssuedTokens(f)
      BY <2>1, <3>1, SupersededIsIssued
    <3>3. req'[c].token \in {issued'[f][i].token : i \in DOMAIN issued'[f]}
      BY <2>1, <3>2 DEF IssuedTokens
    <3> QED BY <1>2, <2>1, <2>3, <3>3 DEF Mandated, IssuedTokens
  <2>4. req[c].kind # "none"
    BY <1>0, <1>2, <2>1 DEF Mandated
  <2> QED BY <1>0, <1>2, <2>1, <2>2, <2>3, <2>4 DEF Mandated, TypeOK
<1>3. CASE d = c /\ ~ RevokeReadFound(c)
  <2>1. pc'[c] # "revokeCas"
    BY <1>0, <1>3
       DEF TypeOK, StepOf, CallIssue, CallStep, CallRotate, CallRevoke, CallRevokeFamily,
           Call, CallMalformed, SettleStep, WriteStep, RetryStep, Return, Retry,
           DecideReuse, DecideRotate, ReadFound, WriteAt
  <2>2. CASE CallStep(c)
    <3>1. req'[c].kind # "none"
      BY <1>0, <2>2 DEF TypeOK, CallStep, CallRotate, CallRevoke, CallRevokeFamily, Call
    <3> QED BY <1>3, <2>1, <3>1 DEF Mandated
  <2>3. CASE RetryStep(c)
    <3>1. req'[c] = req[c] /\ pc[c] \in {"cas", "revokeCas"}
      BY <2>3 DEF RetryStep, Retry
    <3>2. req[c].kind # "none"
      BY <1>0, <1>3, <3>1 DEF Mandated, CallShape, FitsAwait
    <3> QED BY <1>3, <2>1, <3>1, <3>2 DEF Mandated
  <2>4. CASE ~ CallStep(c) /\ ~ RetryStep(c)
    <3>1. pc'[c] # "revokeRead"
      BY <1>0, <1>3, <2>4
         DEF TypeOK, StepOf, CallIssue, Call, CallMalformed, SettleStep, WriteStep, Return,
             DecideReuse, DecideRotate, ReadFound, WriteAt
    <3> QED BY <1>3, <2>1, <3>1 DEF Mandated
  <2> QED BY <2>2, <2>3, <2>4
<1> QED BY <1>1, <1>2, <1>3

\* A session is revoked by a call that may: it saw a replay, or was mandated.
LEMMA GuessStep ==
  ASSUME RecordInv, Next, NEW f \in Families,
         ~ Revoked(store[f].family), Revoked(store'[f].family)
  PROVE  \E c \in Calls : pc[c] # "done" /\ pc'[c] = "done" /\ MayEnd(c, f)
<1>0. IInv /\ TypeOK /\ CallShape /\ \A c \in Calls : Computed(c)
  BY DEF RecordInv, IInv
<1>1. ~ Untouched(f)
  BY DEF Untouched, Absent, NoRecord, Revoked
<1>2. ~ (RecordOpened(f) \/ RecordExchanged(f))
  BY DEF RecordOpened, RecordExchanged, Opened, Exchanged
<1>3. RecordEnded(f)
  BY <1>0, <1>1, <1>2, RecordSteps
<1>4. PICK c \in Calls :
        /\ req[c].family = f /\ WriteStep(c)
        /\ \/ pc[c] = "cas" /\ sawReuse[c]
           \/ pc[c] = "revokeCas"
  BY <1>3 DEF RecordEnded
<1>5. pc'[c] = "done"
  BY <1>0, <1>4 DEF WriteStep, Return, TypeOK
<1>6. /\ Suspects(c) /\ Mandated(c) /\ FitsAwait(c)
      /\ req[c].kind \in {"none", "issue", "rotate", "revoke", "revokeFamily"}
  BY <1>0 DEF RecordInv, CallShape, TypeOK, Request
<1>7. MayEnd(c, f)
  <2>1. CASE pc[c] = "cas" /\ sawReuse[c]
    <3>1. req[c].kind = "rotate" /\ Superseded(f, req[c].token)
      BY <1>4, <1>6, <2>1 DEF Suspects, FitsAwait
    <3> QED BY <1>4, <3>1 DEF MayEnd
  <2>2. CASE pc[c] = "revokeCas"
    <3>1. req[c].kind # "none" /\ req[c].kind # "issue"
      BY <1>6, <2>2 DEF Mandated, FitsAwait
    <3>2. req[c].kind = "revokeFamily" \/ req[c].token \in IssuedTokens(f)
      BY <1>4, <1>6, <2>2 DEF Mandated
    <3>3. req[c].kind = "rotate" => Superseded(f, req[c].token)
      BY <1>4, <1>6, <2>2 DEF Suspects
    <3> QED BY <1>4, <1>6, <3>1, <3>2, <3>3 DEF MayEnd
  <2> QED BY <1>4, <2>1, <2>2
<1> QED BY <1>4, <1>5, <1>7

-----------------------------------------------------------------------------
(* The invariant, and the theorems.                                        *)

LEMMA InitRecords == Init => RecordInv
<1> SUFFICES ASSUME Init PROVE RecordInv
  OBVIOUS
<1>1. \A c \in Calls : Computed(c) /\ KnowsUsed(c) /\ Suspects(c) /\ Mandated(c)
  BY DEF Init, Computed, KnowsUsed, Suspects, Mandated
<1>2. \A f \in Families : ~ Present(f)
  BY DEF Init, Present, Absent
<1> QED BY <1>1, <1>2, InitInv DEF RecordInv, Remembers, SessionCeiling

LEMMA StepRecords == RecordInv /\ [Next]_vars => RecordInv'
<1>1. ASSUME RecordInv, IInv', UNCHANGED << store, callVars, issued >>
      PROVE  RecordInv'
  <2>1. \A c \in Calls : Computed(c)' /\ KnowsUsed(c)' /\ Suspects(c)' /\ Mandated(c)'
    BY <1>1 DEF RecordInv, callVars, Computed, KnowsUsed, Suspects, Mandated,
                Superseded, IssuedTokens, RevokeReason, Revoked
  <2>2. \A f \in Families : Remembers(f)'
    BY <1>1 DEF RecordInv, callVars, Remembers, Present, Kept, Newer, Revoked
  <2>3. SessionCeiling'
    BY <1>1 DEF RecordInv, callVars, SessionCeiling, Present
  <2> QED BY <1>1, <2>1, <2>2, <2>3 DEF RecordInv
<1>2. ASSUME RecordInv, Next PROVE RecordInv'
  <2>0. IInv /\ TypeOK /\ CallShape /\ WriteFollowsRead
    BY <1>2 DEF RecordInv, IInv
  <2>1. IInv'
    BY <1>2, <2>0, StepInv
  <2>2. CASE Tick \/ UNCHANGED vars
    <3>1. UNCHANGED << store, callVars, issued >>
      BY <2>2 DEF Tick, vars
    <3> QED BY <1>1, <1>2, <2>1, <3>1
  <2>3. ASSUME NEW c \in Calls, StepOf(c), NEW d \in Calls
        PROVE  Computed(d)' /\ KnowsUsed(d)' /\ Suspects(d)' /\ Mandated(d)'
    <3>1. Computed(d)'
      BY <1>2, <2>0, <2>3, ComputedStep DEF RecordInv
    <3> QED BY <1>2, <2>3, <3>1, KnowsStep, SuspectsStep, MandatedStep
  <2> QED
    BY <1>2, <2>0, <2>1, <2>2, <2>3, ActionShapes, RemembersStep, CeilingStep
       DEF RecordInv
<1>3. ASSUME RecordInv, UNCHANGED vars PROVE RecordInv'
  <2>1. IInv'
    BY <1>3, StepInv DEF RecordInv
  <2> QED BY <1>1, <1>3, <2>1 DEF vars
<1> QED BY <1>2, <1>3

LEMMA Records == Spec => []RecordInv
BY InitRecords, StepRecords, PTL DEF Spec

\* Nothing is accepted past the ceiling fixed when a session began, for any
\* lifetimes and however often it is rotated.
THEOREM CeilingHolds == Spec => []SessionCeiling
<1>1. RecordInv => SessionCeiling
  BY DEF RecordInv
<1> QED BY <1>1, Records, PTL

\* The call whose write revokes a family names it, logs out with one of its
\* tokens, or replays one that was exchanged: after any history, a guessed or
\* foreign token revokes nothing.
THEOREM GuessesAreHarmless == Spec => GuessEndsNoSession
<1> DEFINE Allowed ==
      \A f \in Families :
        ~ Revoked(store[f].family) /\ Revoked(store'[f].family) =>
          \E c \in Calls : pc[c] # "done" /\ pc'[c] = "done" /\ MayEnd(c, f)
<1>1. RecordInv /\ [Next]_vars => [Allowed]_vars
  BY GuessStep
<1> QED BY <1>1, Records, PTL DEF Spec, GuessEndsNoSession

\* A call that answers `reused` was given a token that had been exchanged,
\* whatever it lost, retried or met on the way.
THEOREM NoFalseAlarm == Spec => []AlertsAreReal
<1>1. RecordInv => AlertsAreReal
  BY DEF RecordInv, Suspects, Superseded, AlertsAreReal
<1> QED BY <1>1, Records, PTL

\* The record of a family still names every token retired at most
\* MaxChainLength rotations ago, and hardly more.
THEOREM WindowHolds == Spec => []DetectionWindow
<1>1. RecordInv => DetectionWindow
  <2> SUFFICES ASSUME RecordInv, NEW f \in Families, Present(f)
               PROVE  LET family == store[f].family
                          last   == Len(issued[f])
                      IN /\ \A i \in 1 .. last :
                              (last - i <= MaxChainLength /\ issued[f][i].token # family.current)
                                 => issued[f][i].token \in Range(family.usedHashes)
                         /\ Len(family.usedHashes) <=
                              MaxChainLength + (IF Revoked(family) THEN 1 ELSE 0)
    BY DEF DetectionWindow
  <2> DEFINE family == store[f].family
             used   == family.usedHashes
             n      == Len(issued[f])
             kept   == Kept(f, family)
             newer  == Newer(family)
             past   == Earlier(n - 1, MaxChainLength)
  <2>0. /\ issued[f] \in Seq(Link) /\ n \in Nat /\ issued[f] # << >> /\ used \in Seq(Tokens)
        /\ Remembers(f) /\ Linked(f)
    BY RecordShape
  <2>1. n > 0
    BY <2>0
  <2>2. /\ past \in Nat /\ past <= n - 1 /\ past <= MaxChainLength
        /\ past = n - 1 \/ past = MaxChainLength
    BY <2>0, <2>1, MaxChainAssumption DEF Earlier
  <2>3. /\ kept = IF Revoked(family) THEN past + 1 ELSE past
        /\ newer = IF Revoked(family) THEN 0 ELSE 1
    BY DEF Kept, Newer
  <2>4. Len(used) = kept /\ \A k \in 1 .. kept : used[k] = issued[f][n - newer - kept + k].token
    BY <2>0 DEF Remembers
  <2>5. ~ Revoked(family) => family.current = issued[f][n].token
    BY <2>0 DEF Linked
  <2> HIDE DEF family, used, n, kept, newer, past
  <2>6. ASSUME NEW i \in 1 .. n, n - i <= MaxChainLength, issued[f][i].token # family.current
        PROVE  issued[f][i].token \in Range(used)
    <3>1. ~ Revoked(family) => i # n
      BY <2>5, <2>6
    <3>2. i - (n - newer - kept) \in 1 .. kept
      BY <2>0, <2>1, <2>2, <2>3, <2>6, <3>1, MaxChainAssumption
    <3>3. n - newer - kept + (i - (n - newer - kept)) = i
      BY <2>0, <2>2, <2>3, <2>6
    <3>4. used[i - (n - newer - kept)] = issued[f][i].token
      BY <2>4, <3>2, <3>3
    <3> QED BY <2>0, <2>4, <3>2, <3>4 DEF Range
  <2>7. Len(used) <= MaxChainLength + (IF Revoked(family) THEN 1 ELSE 0)
    BY <2>2, <2>3, <2>4, MaxChainAssumption
  <2> QED BY <2>6, <2>7 DEF family, used, n
<1> QED BY <1>1, Records, PTL

-----------------------------------------------------------------------------
(* What a lost write costs.                                                *)

\* Calls that are over stay over, and a call that changes a family which
\* another has read joins them.
LEMMA SettledGrows ==
  ASSUME IInv, IsFiniteSet(Calls), NEW c \in Calls, StepOf(c)
  PROVE  /\ Cardinality(Settled) \in Nat /\ Cardinality(Settled') \in Nat
         /\ Cardinality(Settled) <= Cardinality(Settled')
         /\ (SettleStep(c) \/ WriteStep(c)) /\ req[c].kind # "issue" =>
              Cardinality(Settled) + 1 <= Cardinality(Settled')
<1>1. /\ IsFiniteSet(Settled) /\ Cardinality(Settled) \in Nat
      /\ IsFiniteSet(Settled') /\ Cardinality(Settled') \in Nat
  BY FS_Subset, FS_CardinalityType DEF Settled
<1>2. pc[c] # "done"
  BY DEF StepOf, CallIssue, CallStep, CallRotate, CallRevoke, CallRevokeFamily, Call,
         CallMalformed, SettleStep, Suspended, WriteStep, RetryStep, ReadFound,
         DecideReuse, DecideRotate, RevokeReadFound
<1>3. Settled \subseteq Settled' /\ c \notin Settled
  BY <1>2, OthersKeep DEF Settled, IInv
<1>4. ASSUME SettleStep(c) \/ WriteStep(c), req[c].kind # "issue" PROVE c \in Settled'
  BY <1>4 DEF SettleStep, WriteStep, Return, Settled, IInv, TypeOK
<1>5. ASSUME c \in Settled' PROVE Cardinality(Settled) + 1 <= Cardinality(Settled')
  <2>1. Settled \cup {c} \subseteq Settled'
    BY <1>3, <1>5
  <2>2. Cardinality(Settled \cup {c}) = Cardinality(Settled) + 1
    BY <1>1, <1>3, FS_AddElement
  <2> QED BY <1>1, <2>1, <2>2, FS_Subset
<1> QED BY <1>1, <1>3, <1>4, <1>5, FS_Subset

\* What one call loses it loses to others, each of which is then over.
LEMMA SpentStep ==
  ASSUME IInv, IsFiniteSet(Calls), \A c \in Calls : Spent(c), Next
  PROVE  (\A c \in Calls : Spent(c))'
<1>1. ASSUME NEW c \in Calls, StepOf(c), NEW d \in Calls, d # c
      PROVE  Spent(d)'
  <2>1. PICK n, m : n = Cardinality(Settled) /\ m = Cardinality(Settled')
    OBVIOUS
  <2>2. n \in Nat /\ m \in Nat /\ n <= m
    BY <1>1, <2>1, SettledGrows
  <2>3. PICK a : a = attempt[d]
    OBVIOUS
  <2>4. a \in Nat
    BY <2>3, MaxRetriesAssumption DEF IInv, TypeOK
  <2>5. pc'[d] = pc[d] /\ req'[d] = req[d] /\ snap'[d] = snap[d] /\ attempt'[d] = a
    BY <1>1, <2>3, OthersKeep DEF IInv
  <2>6. /\ pc[d] = "idle" => a = 0
        /\ pc[d] \in Suspended => a <= n
        /\ pc[d] \in {"decide", "cas", "revokeCas"} /\ ~ Matches(d) => a + 1 <= n
    BY <2>1, <2>3 DEF Spent
  <2>7. ASSUME pc[d] \in {"decide", "cas", "revokeCas"}, ~ Matches(d)' PROVE a + 1 <= m
    <3>1. CASE store'[req[d].family] = store[req[d].family]
      <4>1. ~ Matches(d)
        BY <2>5, <2>7, <3>1 DEF Matches
      <4> QED BY <2>2, <2>4, <2>6, <2>7, <4>1
    <3>2. CASE store'[req[d].family] # store[req[d].family]
      <4>1. SettleStep(c) \/ WriteStep(c)
        BY <1>1, <3>2
           DEF StepOf, CallIssue, CallStep, CallRotate, CallRevoke, CallRevokeFamily, Call,
               CallMalformed, RetryStep, ReadFound, DecideReuse, DecideRotate, RevokeReadFound
      <4>2. req[c].family = req[d].family
        <5>1. PICK f, g : f = req[c].family /\ g = req[d].family
          OBVIOUS
        <5>2. PICK v : store' = [store EXCEPT ![f] = v] \/ store' = store
          BY <4>1, <5>1 DEF SettleStep, WriteStep, Evict, Put
        <5>3. g \in Families
          BY <2>7, <5>1 DEF IInv, CallShape, FitsAwait, Suspended
        <5>4. DOMAIN store = Families
          BY DEF IInv, TypeOK
        <5>5. store'[g] # store[g]
          BY <3>2, <5>1
        <5>6. f = g
          BY <5>2, <5>3, <5>4, <5>5
        <5> QED BY <5>1, <5>6
      <4>3. issued[req[d].family] # << >>
        BY <2>7 DEF IInv, SnapshotTruth, ReadTruly
      <4>4. pc[c] # "create"
        BY <4>2, <4>3 DEF IInv, OneIssue
      <4>5. req[c].kind # "issue"
        BY <4>1, <4>4 DEF SettleStep, WriteStep, Suspended, IInv, CallShape, FitsAwait
      <4>6. n + 1 <= m
        BY <1>1, <2>1, <4>1, <4>5, SettledGrows
      <4>7. a <= n
        BY <2>6, <2>7 DEF Suspended
      <4> QED BY <2>2, <2>4, <4>6, <4>7
    <3> QED BY <3>1, <3>2
  <2>8. pc[d] \in Suspended => a <= m
    BY <2>2, <2>4, <2>6
  <2> QED BY <2>1, <2>5, <2>6, <2>7, <2>8 DEF Spent
<1>2. ASSUME NEW c \in Calls, StepOf(c) PROVE Spent(c)'
  <2>1. PICK n, m : n = Cardinality(Settled) /\ m = Cardinality(Settled')
    OBVIOUS
  <2>2. n \in Nat /\ m \in Nat /\ n <= m
    BY <1>2, <2>1, SettledGrows
  <2>3. PICK a : a = attempt[c]
    OBVIOUS
  <2>4. a \in Nat
    BY <2>3, MaxRetriesAssumption DEF IInv, TypeOK
  <2>5. /\ pc[c] = "idle" => a = 0
        /\ pc[c] \in Suspended => a <= n
        /\ pc[c] \in {"decide", "cas", "revokeCas"} /\ ~ Matches(c) => a + 1 <= n
    BY <2>1, <2>3 DEF Spent
  <2> SUFFICES \/ pc'[c] = "done"
               \/ /\ pc'[c] \in Suspended /\ attempt'[c] <= m
                  /\ pc'[c] \in {"decide", "cas", "revokeCas"} /\ ~ Matches(c)' =>
                       attempt'[c] + 1 <= m
    BY <2>1 DEF Spent, Suspended
  <2>6. CASE CallIssue(c) \/ CallStep(c) \/ CallMalformed(c)
    <3>1. /\ pc'[c] \in {"create", "read", "revokeRead", "done"}
          /\ pc[c] = "idle" /\ attempt'[c] = attempt[c]
      BY <2>6 DEF CallIssue, CallStep, CallRotate, CallRevoke, CallRevokeFamily, Call,
                  CallMalformed, IInv, TypeOK
    <3> QED BY <2>2, <2>3, <2>5, <3>1 DEF Suspended
  <2>7. CASE SettleStep(c) \/ WriteStep(c)
    BY <2>7 DEF SettleStep, WriteStep, Return, IInv, TypeOK
  <2>8. CASE RetryStep(c)
    <3>1. PICK b : b = attempt'[c]
      OBVIOUS
    <3>2. pc'[c] \in {"read", "revokeRead"} /\ b \in {0, a + 1} /\ a + 1 <= n
      BY <2>3, <2>5, <2>8, <3>1 DEF RetryStep, Retry, IInv, TypeOK
    <3>3. b <= m
      BY <2>2, <2>4, <3>2
    <3> QED BY <3>1, <3>2, <3>3 DEF Suspended
  <2>9. CASE ReadFound(c) \/ RevokeReadFound(c)
    <3>1. /\ pc[c] \in Suspended /\ pc'[c] \in Suspended /\ attempt'[c] = a
          /\ req'[c] = req[c] /\ store' = store /\ snap'[c] = store[req[c].family]
      BY <2>3, <2>9 DEF ReadFound, RevokeReadFound, WriteAt, Suspended, IInv, TypeOK
    <3>2. Matches(c)'
      BY <3>1 DEF Matches
    <3>3. a <= m
      BY <2>2, <2>4, <2>5, <3>1
    <3> QED BY <3>1, <3>2, <3>3
  <2>10. CASE DecideReuse(c) \/ DecideRotate(c)
    <3>1. /\ pc[c] = "decide" /\ pc'[c] = "cas" /\ attempt'[c] = a
          /\ req' = req /\ store' = store /\ snap' = snap
      BY <2>3, <2>10 DEF DecideReuse, DecideRotate, WriteAt, IInv, TypeOK
    <3>2. ~ Matches(c)' => a + 1 <= m
      BY <2>2, <2>4, <2>5, <3>1 DEF Matches
    <3>3. a <= m
      BY <2>2, <2>4, <2>5, <3>1 DEF Suspended
    <3> QED BY <3>1, <3>2, <3>3 DEF Suspended
  <2> QED BY <1>2, <2>6, <2>7, <2>8, <2>9, <2>10 DEF StepOf
<1>3. CASE Tick \/ UNCHANGED vars
  <2>1. UNCHANGED << pc, req, attempt, snap, store >>
    BY <1>3 DEF Tick, vars, callVars
  <2> QED BY <2>1 DEF Spent, Settled, Matches
<1> QED BY <1>1, <1>2, <1>3, ActionShapes DEF IInv

\* With enough attempts for everyone else who can write, none is the last.
LEMMA AttemptsAreLeft ==
  ASSUME IInv, IsFiniteSet(Calls), Cardinality(Calls) <= MaxRetries + 1,
         NEW c \in Calls, Spent(c), pc[c] \in {"cas", "revokeCas"}, ~ Matches(c)
  PROVE  attempt[c] + 1 # MaxRetries
<1>1. PICK e \in Calls : req[e].kind = "issue" /\ e # c
  <2>1. req[c].family \in Families /\ issued[req[c].family] # << >> /\ req[c].kind # "issue"
    BY DEF IInv, CallShape, FitsAwait, Suspended, SnapshotTruth, ReadTruly
  <2> QED BY <2>1 DEF IInv, OneIssue
<1>2. Settled \subseteq (Calls \ {c}) \ {e}
  BY <1>1 DEF Settled
<1>3. PICK k, n, a : k = Cardinality(Calls) /\ n = Cardinality(Settled) /\ a = attempt[c]
  OBVIOUS
<1>4. /\ IsFiniteSet((Calls \ {c}) \ {e}) /\ k \in Nat
      /\ Cardinality((Calls \ {c}) \ {e}) = k - 2
  <2>1. IsFiniteSet(Calls \ {c}) /\ Cardinality(Calls \ {c}) = k - 1
    BY <1>3, FS_RemoveElement
  <2>2. e \in Calls \ {c}
    BY <1>1
  <2>3. /\ IsFiniteSet((Calls \ {c}) \ {e})
        /\ Cardinality((Calls \ {c}) \ {e}) = (k - 1) - 1
    BY <2>1, <2>2, FS_RemoveElement
  <2>4. k \in Nat
    BY <1>3, FS_CardinalityType
  <2> QED BY <2>3, <2>4
<1>5. n \in Nat /\ n <= k - 2
  BY <1>2, <1>3, <1>4, FS_Subset, FS_CardinalityType
<1>6. a \in Nat /\ a + 1 <= n
  BY <1>3, MaxRetriesAssumption DEF Spent, IInv, TypeOK
<1>7. k <= MaxRetries + 1
  BY <1>3
<1> QED BY <1>3, <1>4, <1>5, <1>6, <1>7, MaxRetriesAssumption

\* So only the store can fail a call.
LEMMA AbsorbStep ==
  ASSUME RetryInv, IsFiniteSet(Calls), Cardinality(Calls) <= MaxRetries + 1, Next
  PROVE  ContentionIsAbsorbed'
<1> SUFFICES ASSUME faults' = 0, NEW d \in Calls, result'[d] = "store_error"
             PROVE  FALSE
  BY DEF ContentionIsAbsorbed
<1> USE DEF RetryInv
<1>1. faults = 0
  <2>1. faults' = faults \/ faults' = faults + 1
    BY DEF Next, Arrive, CallIssue, CallRotate, CallRevoke, CallRevokeFamily, Call,
           CallMalformed, Proceed, Create, ReadMissing, ReadFound, DecideReject, DecideReuse,
           DecideRotate, CasWins, CasLoses, RevokeReadSettles, RevokeReadFound, RevokeCasWins,
           RevokeCasLoses, StoreFails, AnswerLost, Tick, AllSettled, vars
  <2> QED BY <2>1 DEF IInv, TypeOK
<1>2. result[d] # "store_error"
  BY <1>1 DEF ContentionIsAbsorbed
<1>3. ASSUME NEW c \in Calls, Arrive(c) PROVE FALSE
  BY <1>2, <1>3 DEF Arrive, CallIssue, CallRotate, CallRevoke, CallRevokeFamily, Call,
                    CallMalformed, IInv, TypeOK
<1>4. ASSUME NEW c \in Calls, NEW r, r # "store_error", Return(c, r) PROVE FALSE
  BY <1>2, <1>4 DEF Return, IInv, TypeOK
<1>5. ASSUME NEW c \in Calls, CasLoses(c) \/ RevokeCasLoses(c) PROVE FALSE
  <2>1. attempt[c] + 1 # MaxRetries
    BY <1>5, AttemptsAreLeft DEF CasLoses, RevokeCasLoses
  <2>2. result' = result
    BY <1>5, <2>1 DEF CasLoses, RevokeCasLoses, Retry
  <2> QED BY <1>2, <2>2
<1>6. ASSUME NEW c \in Calls, Proceed(c) PROVE FALSE
  <2>1. CASE \/ Create(c) \/ ReadMissing(c) \/ CasWins(c)
             \/ RevokeReadSettles(c) \/ RevokeCasWins(c)
    BY <1>4, <2>1 DEF Create, ReadMissing, CasWins, RevokeReadSettles, RevokeCasWins,
                      RevokeSuccess
  <2>2. CASE DecideReject(c)
    <3>1. VerdictOf(c) # "store_error"
      BY DEF VerdictOf, Verdict
    <3> QED BY <1>4, <2>2, <3>1 DEF DecideReject
  <2>3. CASE ReadFound(c) \/ DecideReuse(c) \/ DecideRotate(c) \/ RevokeReadFound(c)
    BY <1>2, <2>3 DEF ReadFound, DecideReuse, DecideRotate, RevokeReadFound, WriteAt
  <2> QED BY <1>5, <1>6, <2>1, <2>2, <2>3 DEF Proceed
<1>7. ASSUME NEW c \in Calls, StoreFails(c) \/ AnswerLost(c) PROVE FALSE
  BY <1>1, <1>7 DEF StoreFails, AnswerLost
<1>8. ASSUME Tick \/ AllSettled PROVE FALSE
  BY <1>2, <1>8 DEF Tick, AllSettled, vars, callVars
<1> QED BY <1>3, <1>6, <1>7, <1>8 DEF Next

LEMMA Retries ==
  ASSUME IsFiniteSet(Calls), Cardinality(Calls) <= MaxRetries + 1
  PROVE  Spec => []RetryInv
<1>1. Init => RetryInv
  <2> SUFFICES ASSUME Init PROVE RetryInv
    OBVIOUS
  <2>1. IInv
    BY InitInv
  <2>2. \A c \in Calls : Spent(c)
    BY DEF Init, Spent, Suspended
  <2>3. ContentionIsAbsorbed
    BY DEF Init, ContentionIsAbsorbed
  <2> QED BY <2>1, <2>2, <2>3 DEF RetryInv
<1>2. RetryInv /\ [Next]_vars => RetryInv'
  <2> SUFFICES ASSUME RetryInv, [Next]_vars PROVE RetryInv'
    OBVIOUS
  <2>1. IInv'
    BY StepInv DEF RetryInv
  <2>2. CASE Next
    BY <2>1, <2>2, SpentStep, AbsorbStep DEF RetryInv
  <2>3. CASE UNCHANGED vars
    BY <2>1, <2>3 DEF vars, callVars, RetryInv, Spent, Settled, Matches, ContentionIsAbsorbed
  <2> QED BY <2>2, <2>3
<1> QED BY <1>1, <1>2, PTL DEF Spec

\* maxRetries: "Only genuinely pathological contention exhausts this."  If the
\* calls that share a service are no more than the attempts of each and the
\* one that issued the session, then, while the store does not fail, no call
\* ever gives up, however they are interleaved: whoever makes a write fail is
\* over and done with by that.
THEOREM EveryCallIsServed ==
  ASSUME IsFiniteSet(Calls), Cardinality(Calls) <= MaxRetries + 1
  PROVE  Spec => []ContentionIsAbsorbed
<1>1. RetryInv => ContentionIsAbsorbed
  BY DEF RetryInv
<1> QED BY <1>1, Retries, PTL
=============================================================================
