---------------------------- MODULE ServiceProofs ----------------------------
(***************************************************************************)
(* Theorems about what a service does beside its lifecycle: the logins it  *)
(* serves, the correlation identifiers it logs with, the tokens and        *)
(* answers it exchanges with others, what it gives to the log, and what it *)
(* makes of its environment and its policy.                                *)
(*                                                                         *)
(* However many logins there are, and whatever the store and the           *)
(* derivations do: the counter exceeds its limit by no more than what      *)
(* overlaps, it is what fixed windows make of the failures, and no span of *)
(* a window's length holds more than two windows' worth of them.  While    *)
(* nothing fails, the password check takes the same work for every kind of *)
(* account, but for the stored hashes that SameWork names.                 *)
(*                                                                         *)
(* To OverrunIsOverlap the inductive invariant adds that `peak` is never   *)
(* below the number of logins under way, which is what pays for each login *)
(* that is let in on a count that others are about to raise.               *)
(*                                                                         *)
(* A policy's document is looked through by recursive functions and by     *)
(* operators that gather issues.  Induction over the levels of a condition *)
(* shows that the first find what the grammar of conditions does not have, *)
(* and at each condition that is broken by itself; a lemma for each        *)
(* operator, from a name to the whole document, shows that what is         *)
(* reported is what does not fit, at its own place, and that what is read  *)
(* without an issue is of its type.  Without NaN, the same lemmas hold of  *)
(* what JSON makes of the policy that is returned.                         *)
(***************************************************************************)
EXTENDS
  LoginsProps, Correlation, Calls, SetInduction, FiniteSetTheorems, SequenceTheorems, TLAPS

IInv ==
  /\ LoginsTypeOK
  /\ Cardinality(UnderWay) <= peak
  /\ OverrunIsOverlap

(* The logins under way are finitely many.                                 *)
LEMMA UnderWayIsFinite ==
  /\ IsFiniteSet(UnderWay) /\ Cardinality(UnderWay) \in Nat
  /\ IsFiniteSet(UnderWay') /\ Cardinality(UnderWay') \in Nat
<1>1. UnderWay \subseteq Callers /\ UnderWay' \subseteq Callers
  BY DEF UnderWay
<1> QED BY <1>1, CallersAreFinite, FS_Subset, FS_CardinalityType

(* A read may drop an expired counter and changes no live one.             *)
LEMMA LiveCounts ==
  ASSUME LoginsTypeOK
  PROVE  /\ Live \in Counters
         /\ Live = None \/ Live = counter
BY DEF LoginsTypeOK, Live, Counters

(* A failure counts one more than the counter had, or starts at one.       *)
LEMMA IncrementCounts ==
  ASSUME LoginsTypeOK
  PROVE  /\ Increment \in [count : Nat \ {0}, resetAt : Nat]
         /\ Increment.count <= Counted + 1
         /\ Counted \in Nat
<1>1. now + Window \in Nat
  BY LimiterAssumption DEF LoginsTypeOK
<1>2. CASE Live = None
  <2>1. Increment = [count |-> 1, resetAt |-> now + Window]
    BY <1>2 DEF Increment
  <2>2. Counted \in Nat
    BY DEF LoginsTypeOK, Counters, Counted
  <2> QED BY <1>1, <2>1, <2>2
<1>3. CASE Live # None
  <2>1. Live = counter /\ counter # None /\ counter \in [count : Nat \ {0}, resetAt : Nat]
    BY <1>3, LiveCounts, NoneIsNoCounter DEF LoginsTypeOK, Counters
  <2>2. Increment = [counter EXCEPT !.count = @ + 1] /\ Counted = counter.count
    BY <1>3, <2>1 DEF Increment, Counted
  <2> QED BY <2>1, <2>2
<1> QED BY <1>2, <1>3

(* peak is kept above what is under way.                                   *)
LEMMA PeakRises ==
  ASSUME LoginsTypeOK, PeakIsKept
  PROVE  /\ peak' \in Nat /\ peak' >= peak
         /\ peak' >= Cardinality(UnderWay')
BY UnderWayIsFinite DEF LoginsTypeOK, PeakIsKept

(* What becomes of the set of logins under way when one of them moves on.  *)
LEMMA Moves ==
  ASSUME LoginsTypeOK, NEW l \in Callers, NEW to \in Pcs, pc' = [pc EXCEPT ![l] = to]
  PROVE  /\ pc' \in [Callers -> Pcs]
         /\ UnderWay' = IF to \in {"admitted", "verifying", "failed"} THEN UnderWay \cup {l}
                        ELSE UnderWay \ {l}
BY DEF LoginsTypeOK, UnderWay

(* Where a login was not under way, or stays so, the number is the same;   *)
(* one that leaves makes it smaller by one.                                *)
LEMMA Leaves ==
  ASSUME NEW l \in UnderWay, UnderWay' = UnderWay \ {l}
  PROVE  Cardinality(UnderWay') = Cardinality(UnderWay) - 1
BY UnderWayIsFinite, FS_RemoveElement

LEMMA Stays ==
  ASSUME UnderWay' = UnderWay \/ \E l \in UnderWay : UnderWay' = UnderWay \ {l}
  PROVE  Cardinality(UnderWay') <= Cardinality(UnderWay)
BY UnderWayIsFinite, Leaves

(* The steps that count nothing, or less, and let nobody in.               *)
LEMMA QuietSteps ==
  ASSUME IInv, PeakIsKept, UNCHANGED << options, now >>,
         pc' \in [Callers -> Pcs], counter' \in {None, counter},
         UnderWay' = UnderWay \/ \E l \in UnderWay : UnderWay' = UnderWay \ {l}
  PROVE  IInv'
<1>1. LoginsTypeOK'
  BY PeakRises DEF IInv, LoginsTypeOK, options, Counters
<1>2. Counted \in Nat /\ Counted' \in Nat /\ Counted' <= Counted
  BY <1>1 DEF IInv, LoginsTypeOK, Counters, Counted
<1>3. OverrunIsOverlap'
  BY <1>2, Stays, PeakRises, UnderWayIsFinite DEF IInv, OverrunIsOverlap, LoginsTypeOK, options
<1> QED BY <1>1, <1>3, PeakRises DEF IInv

(* The steps that count one failure, of a login that is through with it.   *)
LEMMA CountingSteps ==
  ASSUME IInv, PeakIsKept, UNCHANGED << options, now >>,
         pc' \in [Callers -> Pcs], counter' = Increment,
         NEW l \in UnderWay, UnderWay' = UnderWay \ {l}
  PROVE  IInv'
<1>1. LoginsTypeOK'
  BY PeakRises, IncrementCounts DEF IInv, LoginsTypeOK, options, Counters
<1>2. Counted \in Nat /\ Counted' \in Nat /\ Counted' <= Counted + 1
  BY IncrementCounts, NoneIsNoCounter DEF IInv, Counted
<1>3. Cardinality(UnderWay') = Cardinality(UnderWay) - 1
  BY Leaves
<1>4. Counted' + Cardinality(UnderWay') <= Counted + Cardinality(UnderWay)
  BY <1>2, <1>3, UnderWayIsFinite
<1>5. OverrunIsOverlap'
  BY <1>2, <1>4, PeakRises, UnderWayIsFinite DEF IInv, OverrunIsOverlap, LoginsTypeOK, options
<1> QED BY <1>1, <1>5, PeakRises DEF IInv

(* The one step that lets a login in on what the counter says.             *)
LEMMA CheckKeeps ==
  ASSUME IInv, NEW l \in Callers, Check(l), PeakIsKept
  PROVE  IInv'
<1> USE DEF IInv
<1>1. UNCHANGED << options, now >> /\ counter' = Live /\ pc[l] = "idle" /\ l \notin UnderWay
  BY DEF Check, UnderWay
<1>2. counter' \in {None, counter}
  BY <1>1, LiveCounts
<1>3. CASE Ends(l, "refused")
  <2>1. UnderWay \ {l} = UnderWay
    BY <1>1
  <2>2. pc' \in [Callers -> Pcs] /\ UnderWay' = UnderWay
    BY <1>3, <2>1, Moves DEF Ends, Pcs
  <2> QED BY <1>1, <1>2, <2>2, QuietSteps
<1>4. CASE Allowed(counter') /\ Goes(l, "admitted")
  <2>1. LoginsTypeOK'
    BY <1>1, <1>2, <1>4, Moves, PeakRises DEF Goes, Pcs, LoginsTypeOK, options, Counters
  <2>2. Counted' \in Nat /\ Counted' <= maxAttempts - 1
    BY <1>4, <2>1 DEF LoginsTypeOK, Counters, Counted, Allowed
  <2>3. OverrunIsOverlap'
    BY <1>1, <2>2, PeakRises, UnderWayIsFinite DEF OverrunIsOverlap, LoginsTypeOK, options
  <2> QED BY <2>1, <2>3, PeakRises
<1> QED BY <1>3, <1>4 DEF Check

(* A check the store does not answer lets nobody in, or fails open.        *)
LEMMA CheckFailsKeeps ==
  ASSUME IInv, NEW l \in Callers, CheckFails(l), PeakIsKept
  PROVE  IInv'
<1> USE DEF IInv
<1>1. UNCHANGED << options, now >> /\ pc[l] = "idle" /\ l \notin UnderWay
  BY DEF CheckFails, UnderWay
<1>2. counter' \in {None, counter}
  BY LiveCounts DEF CheckFails, StoreFails
<1>3. CASE Ends(l, "store error")
  <2>1. UnderWay \ {l} = UnderWay
    BY <1>1
  <2>2. pc' \in [Callers -> Pcs] /\ UnderWay' = UnderWay
    BY <1>3, <2>1, Moves DEF Ends, Pcs
  <2> QED BY <1>1, <1>2, <2>2, QuietSteps
<1>4. CASE onStoreError # "deny" /\ Goes(l, "admitted")
  <2>1. LoginsTypeOK'
    BY <1>1, <1>2, <1>4, Moves, PeakRises DEF Goes, Pcs, LoginsTypeOK, options, Counters
  <2>2. OverrunIsOverlap'
    BY <1>1, <1>4 DEF OverrunIsOverlap, options
  <2> QED BY <2>1, <2>2, PeakRises
<1> QED BY <1>3, <1>4 DEF CheckFails

(* Every step of a login keeps the invariant.                              *)
LEMMA StepKeeps ==
  ASSUME IInv, NEW l \in Callers, Step(l)
  PROVE  IInv'
<1> USE DEF IInv
<1>0. PeakIsKept
  BY DEF Step
<1>1. CASE Check(l)
  BY <1>0, <1>1, CheckKeeps
<1>2. CASE CheckFails(l)
  BY <1>0, <1>2, CheckFailsKeeps
<1>3. CASE Lookup(l)
  <2>1. pc' \in [Callers -> Pcs] /\ UnderWay' = UnderWay
    BY <1>3, Moves DEF Lookup, Goes, Pcs, UnderWay
  <2> QED BY <1>0, <1>3, <2>1, QuietSteps DEF Lookup, storeVars
<1>4. CASE CheckPassword(l)
  <2>1. l \in UnderWay
    BY <1>4 DEF CheckPassword, UnderWay
  <2>2. Goes(l, "passed") \/ Goes(l, "failed") \/ Ends(l, "error")
    BY <1>4 DEF CheckPassword
  <2>3. /\ pc' \in [Callers -> Pcs]
        /\ UnderWay' = UnderWay \/ UnderWay' = UnderWay \ {l}
    BY <2>1, <2>2, Moves DEF Goes, Ends, Pcs
  <2> QED BY <1>0, <1>4, <2>1, <2>3, QuietSteps DEF CheckPassword
<1>5. ASSUME \E how : Ends(l, how), pc[l] = "failed", UNCHANGED << options, now >>,
             CountsOneMore \/ UNCHANGED counter
      PROVE  IInv'
  <2>1. l \in UnderWay
    BY <1>5 DEF UnderWay
  <2>2. pc' \in [Callers -> Pcs] /\ UnderWay' = UnderWay \ {l}
    BY <1>5, Moves DEF Ends, Pcs
  <2> QED BY <1>0, <1>5, <2>1, <2>2, QuietSteps, CountingSteps DEF CountsOneMore
<1>6. CASE RecordFailure(l)
  BY <1>5, <1>6 DEF RecordFailure
<1>7. CASE RecordFailureFails(l)
  BY <1>5, <1>7 DEF RecordFailureFails, StoreFails
<1>8. ASSUME GoesIn(l) \/ \E how : Ends(l, how), pc[l] \in {"passed", "upgrading"},
             UNCHANGED << options, now >>, counter' \in {None, counter}
      PROVE  IInv'
  <2>1. pc' = [pc EXCEPT ![l] = "upgrading"] \/ pc' = [pc EXCEPT ![l] = "done"]
    BY <1>8 DEF GoesIn, Goes, Ends
  <2>2. pc' \in [Callers -> Pcs] /\ UnderWay' = UnderWay
    BY <1>8, <2>1, Moves DEF Pcs, UnderWay
  <2> QED BY <1>0, <1>8, <2>2, QuietSteps
<1>9. CASE RecordSuccess(l)
  BY <1>8, <1>9 DEF RecordSuccess, CountsNothing
<1>10. CASE RecordSuccessFails(l)
  BY <1>8, <1>10 DEF RecordSuccessFails, CountsNothing, StoreFails
<1>11. CASE Upgrade(l)
  BY <1>8, <1>11 DEF Upgrade
<1> QED BY <1>1, <1>2, <1>3, <1>4, <1>6, <1>7, <1>9, <1>10, <1>11 DEF Step

(* The clock moves on.                                                     *)
LEMMA TickKeeps ==
  ASSUME IInv, TimePasses \/ UNCHANGED loginsState
  PROVE  IInv'
<1>1. /\ UNCHANGED << maxAttempts, onStoreError, counter, pc, peak >>
      /\ now' \in {now, now + 1}
  BY DEF TimePasses, loginsState, storeVars, loginVars, options
<1>2. UnderWay' = UnderWay /\ Counted' = Counted
  BY <1>1 DEF UnderWay, Counted
<1>3. LoginsTypeOK'
  BY <1>1 DEF IInv, LoginsTypeOK
<1> QED BY <1>1, <1>2, <1>3 DEF IInv, OverrunIsOverlap

(* Nobody is under way at first.                                           *)
LEMMA InitHolds == LoginsInit => IInv
<1> SUFFICES ASSUME LoginsInit PROVE IInv
  OBVIOUS
<1>1. UnderWay = {} /\ Counted = 0
  BY DEF LoginsInit, UnderWay, Counted
<1>2. LoginsTypeOK
  BY LimiterAssumption DEF LoginsInit, LoginsTypeOK, Counters, Pcs
<1> QED BY <1>1, <1>2, FS_EmptySet DEF IInv, OverrunIsOverlap, LoginsInit, LoginsTypeOK

(* For every number of logins, every limit and any number of faults: the   *)
(* counter exceeds maxAttempts - 1, with all that is still to be counted,  *)
(* by no more than the most logins that overlapped (rate-limit.ts:200).    *)
THEOREM NoOtherOverrun == LoginsSpec => []OverrunIsOverlap
<1>1. IInv /\ [LoginsNext]_loginsState => IInv'
  BY StepKeeps, TickKeeps DEF LoginsNext
<1>2. IInv => OverrunIsOverlap
  BY DEF IInv
<1> QED BY InitHolds, <1>1, <1>2, PTL DEF LoginsSpec

-----------------------------------------------------------------------------
(***************************************************************************)
(* The windows.  CounterIsTheWindow computes, recursively, which failure   *)
(* opened the window that each failure is in: Opens(r, g) says that g is   *)
(* what this recursion defines over the record r.  Every record has one    *)
(* such g, and that of a longer record continues that of its beginning.    *)
(***************************************************************************)

OpenedBy(r, g, i) ==
  IF i = 1 THEN 1 ELSE IF r[i] >= r[g[i - 1]] + Window THEN i ELSE g[i - 1]

Opens(r, g) == g = [i \in DOMAIN r |-> OpenedBy(r, g, i)]

Opener(r) == CHOOSE g : Opens(r, g)

(* The equation, one failure at a time.                                    *)
LEMMA OpensAt ==
  ASSUME NEW n, NEW r, DOMAIN r = 1 .. n, NEW g, Opens(r, g), NEW i \in 1 .. n
  PROVE  g[i] = OpenedBy(r, g, i)
BY DEF Opens

(* A window is opened by one of its failures.                              *)
LEMMA OpensBelow ==
  ASSUME NEW n \in Nat, NEW r, DOMAIN r = 1 .. n, NEW g, Opens(r, g), NEW k \in 1 .. n
  PROVE  g[k] \in 1 .. k
<1> DEFINE S == {m \in Nat : m \in 1 .. n => g[m] \in 1 .. m}
<1>1. 0 \in S
  OBVIOUS
<1>2. ASSUME NEW m \in Nat, m \in S PROVE m + 1 \in S
  <2> SUFFICES ASSUME m + 1 \in 1 .. n PROVE g[m + 1] \in 1 .. m + 1
    OBVIOUS
  <2>1. g[m + 1] = OpenedBy(r, g, m + 1)
    BY OpensAt
  <2>2. (m + 1) - 1 = m
    OBVIOUS
  <2>3. CASE m = 0
    BY <2>1, <2>3 DEF OpenedBy
  <2>4. CASE m # 0
    <3>1. g[m] \in 1 .. m
      BY <1>2, <2>4
    <3>2. g[m + 1] = m + 1 \/ g[m + 1] = g[m]
      BY <2>1, <2>2, <2>4 DEF OpenedBy
    <3> QED BY <3>1, <3>2
  <2> QED BY <2>3, <2>4
<1>3. Nat \subseteq S
  <2> HIDE DEF S
  <2> QED BY <1>1, <1>2, NatSetInduction
<1> QED BY <1>3

(* There is only one.                                                      *)
LEMMA OpensOnce ==
  ASSUME NEW n \in Nat, NEW r, DOMAIN r = 1 .. n, NEW g, NEW h, Opens(r, g), Opens(r, h)
  PROVE  g = h
<1> DEFINE S == {m \in Nat : m \in 1 .. n => g[m] = h[m]}
<1>1. 0 \in S
  OBVIOUS
<1>2. ASSUME NEW m \in Nat, m \in S PROVE m + 1 \in S
  <2> SUFFICES ASSUME m + 1 \in 1 .. n PROVE g[m + 1] = h[m + 1]
    OBVIOUS
  <2>1. (m + 1) - 1 = m /\ (m + 1 = 1 \/ g[m] = h[m])
    BY <1>2
  <2>2. g[m + 1] = OpenedBy(r, g, m + 1) /\ h[m + 1] = OpenedBy(r, h, m + 1)
    BY OpensAt
  <2> QED BY <2>1, <2>2 DEF OpenedBy
<1>3. Nat \subseteq S
  <2> HIDE DEF S
  <2> QED BY <1>1, <1>2, NatSetInduction
<1>4. \A i \in 1 .. n : g[i] = h[i]
  BY <1>3
<1>5. g = [i \in 1 .. n |-> g[i]] /\ h = [i \in 1 .. n |-> h[i]]
  BY DEF Opens
<1> QED BY <1>4, <1>5

(* What opens the windows of a record opens those of its beginning.        *)
LEMMA OpensBeginning ==
  ASSUME NEW n \in Nat, NEW r, DOMAIN r = 1 .. n + 1, NEW h, Opens(r, h),
         NEW s, s = [i \in 1 .. n |-> r[i]], NEW g, g = [i \in 1 .. n |-> h[i]]
  PROVE  Opens(s, g)
<1>1. ASSUME NEW i \in 1 .. n PROVE h[i] = OpenedBy(s, g, i)
  <2>1. i \in 1 .. n + 1 /\ n + 1 \in Nat
    OBVIOUS
  <2>2. h[i] = OpenedBy(r, h, i)
    BY <2>1, OpensAt
  <2>3. CASE i = 1
    BY <2>2, <2>3 DEF OpenedBy
  <2>4. CASE i # 1
    <3>1. i - 1 \in 1 .. n /\ i - 1 \in 1 .. n + 1
      BY <2>4
    <3>2. h[i - 1] \in 1 .. i - 1
      BY <2>1, <3>1, OpensBelow
    <3>3. s[i] = r[i] /\ g[i - 1] = h[i - 1] /\ s[h[i - 1]] = r[h[i - 1]]
      BY <3>1, <3>2
    <3> QED BY <2>2, <2>4, <3>3 DEF OpenedBy
  <2> QED BY <2>3, <2>4
<1> QED BY <1>1 DEF Opens

(* And is continued by one failure more.                                   *)
LEMMA OpensOneMore ==
  ASSUME NEW n \in Nat, NEW r, DOMAIN r = 1 .. n + 1,
         NEW s, s = [i \in 1 .. n |-> r[i]], NEW g, Opens(s, g)
  PROVE  \E h : Opens(r, h)
<1> DEFINE h == [i \in 1 .. n + 1 |-> IF i = n + 1 THEN OpenedBy(r, g, i) ELSE g[i]]
<1>1. ASSUME NEW i \in 1 .. n + 1 PROVE h[i] = OpenedBy(r, h, i)
  <2>1. CASE i = n + 1
    <3>1. i = 1 \/ h[i - 1] = g[i - 1]
      BY <2>1
    <3> QED BY <2>1, <3>1 DEF OpenedBy
  <2>2. CASE i # n + 1
    <3>1. i \in 1 .. n /\ h[i] = g[i] /\ s[i] = r[i]
      BY <2>2
    <3>2. g[i] = OpenedBy(s, g, i)
      BY <3>1, OpensAt
    <3>3. CASE i = 1
      BY <3>1, <3>2, <3>3 DEF OpenedBy
    <3>4. CASE i # 1
      <4>1. i - 1 \in 1 .. n
        BY <3>1, <3>4
      <4>2. g[i - 1] \in 1 .. i - 1
        BY <4>1, OpensBelow
      <4>3. h[i - 1] = g[i - 1] /\ s[g[i - 1]] = r[g[i - 1]]
        BY <3>1, <4>1, <4>2
      <4> QED BY <3>1, <3>2, <3>4, <4>3 DEF OpenedBy
    <3> QED BY <3>3, <3>4
  <2> QED BY <2>1, <2>2
<1>2. h = [i \in 1 .. n + 1 |-> OpenedBy(r, h, i)]
  BY <1>1
<1> QED BY <1>2 DEF Opens

(* Every record has its windows.                                           *)
LEMMA OpenerOpens ==
  ASSUME NEW n \in Nat, NEW r, DOMAIN r = 1 .. n
  PROVE  Opens(r, Opener(r))
<1> DEFINE S == {m \in Nat : \A s : DOMAIN s = 1 .. m => \E g : Opens(s, g)}
<1>1. 0 \in S
  <2>1. ASSUME NEW s, DOMAIN s = 1 .. 0 PROVE Opens(s, [i \in 1 .. 0 |-> i])
    BY <2>1 DEF Opens
  <2> QED BY <2>1
<1>2. ASSUME NEW m \in Nat, m \in S PROVE m + 1 \in S
  <2> SUFFICES ASSUME NEW s, DOMAIN s = 1 .. m + 1 PROVE \E g : Opens(s, g)
    OBVIOUS
  <2>1. PICK t : t = [i \in 1 .. m |-> s[i]]
    OBVIOUS
  <2>2. \E g : Opens(t, g)
    BY <1>2, <2>1
  <2> QED BY <2>1, <2>2, OpensOneMore
<1>3. Nat \subseteq S
  <2> HIDE DEF S
  <2> QED BY <1>1, <1>2, NatSetInduction
<1>4. \E g : Opens(r, g)
  BY <1>3
<1> QED BY <1>4 DEF Opener

(* A record that is one failure longer.                                    *)
LEMMA Appended ==
  ASSUME NEW r \in Seq(Nat), NEW t \in Nat
  PROVE  /\ Append(r, t) \in Seq(Nat) /\ Len(r) \in Nat
         /\ Len(Append(r, t)) = Len(r) + 1
         /\ DOMAIN r = 1 .. Len(r)
         /\ DOMAIN Append(r, t) = 1 .. Len(r) + 1
         /\ Append(r, t)[Len(r) + 1] = t
         /\ \A i \in 1 .. Len(r) : Append(r, t)[i] = r[i]
OBVIOUS

(* One failure more does not change the windows of those before it.        *)
LEMMA OpenerOfLonger ==
  ASSUME NEW r \in Seq(Nat), NEW t \in Nat, NEW i \in 1 .. Len(r)
  PROVE  Opener(Append(r, t))[i] = Opener(r)[i]
<1>1. PICK n, s, h : n = Len(r) /\ s = Append(r, t) /\ h = Opener(s)
  OBVIOUS
<1>2. /\ n \in Nat /\ n + 1 \in Nat /\ DOMAIN r = 1 .. n /\ DOMAIN s = 1 .. n + 1
      /\ \A k \in 1 .. n : s[k] = r[k]
  BY <1>1, Appended
<1>3. r = [k \in 1 .. n |-> s[k]]
  <2>1. r = [k \in 1 .. n |-> r[k]]
    BY <1>2
  <2> QED BY <1>2, <2>1
<1>4. Opens(s, h)
  BY <1>1, <1>2, OpenerOpens
<1>5. PICK g : g = [k \in 1 .. n |-> h[k]]
  OBVIOUS
<1>6. Opens(r, g)
  BY SMTT(30), <1>2, <1>3, <1>4, <1>5, OpensBeginning
<1>7. Opens(r, Opener(r))
  BY <1>2, OpenerOpens
<1>8. PICK o : o = Opener(r)
  OBVIOUS
<1>9. g = o
  <2>1. Opens(r, o)
    BY <1>7, <1>8
  <2> QED BY <1>6, <2>1, OpensOnce
<1> QED BY <1>1, <1>5, <1>8, <1>9

(* The windows of a record are in order: each holds only what is younger   *)
(* than its end, and begins where the one before it is over.               *)
InWindows(r, g) ==
  \A i \in DOMAIN r :
    /\ r[i] < r[g[i]] + Window
    /\ g[i] > 1 => r[g[i]] >= r[g[g[i] - 1]] + Window

InOrder(r) == \A i, j \in DOMAIN r : i <= j => r[i] <= r[j]

(* The counter that the last window comes to, while it lasts.              *)
CountOf(r) == Len(r) - Opener(r)[Len(r)] + 1
EndOf(r) == r[Opener(r)[Len(r)]] + Window
LastWindow(r, t) ==
  IF Len(r) = 0 \/ t >= EndOf(r) THEN None ELSE [count |-> CountOf(r), resetAt |-> EndOf(r)]

(* Every record of failures is in windows.                                 *)
LEMMA OpenerInWindows ==
  ASSUME NEW r \in Seq(Nat)
  PROVE  InWindows(r, Opener(r))
<1>1. PICK n, g : n = Len(r) /\ g = Opener(r)
  OBVIOUS
<1>2. n \in Nat /\ DOMAIN r = 1 .. n /\ \A i \in 1 .. n : r[i] \in Nat
  BY <1>1
<1>3. Opens(r, g)
  BY <1>1, <1>2, OpenerOpens
<1> DEFINE Right(i) == /\ r[i] < r[g[i]] + Window
                       /\ g[i] > 1 => r[g[i]] >= r[g[g[i] - 1]] + Window
           S == {m \in Nat : m \in 1 .. n => Right(m)}
<1>4. 0 \in S
  OBVIOUS
<1>5. ASSUME NEW m \in Nat, m \in S PROVE m + 1 \in S
  <2> SUFFICES ASSUME m + 1 \in 1 .. n PROVE Right(m + 1)
    OBVIOUS
  <2>1. g[m + 1] = OpenedBy(r, g, m + 1) /\ (m + 1) - 1 = m
    BY <1>2, <1>3, OpensAt
  <2>2. r[m + 1] \in Nat /\ Window \in Nat \ {0}
    BY <1>2, LimiterAssumption
  <2>3. CASE m = 0
    BY <2>1, <2>2, <2>3 DEF OpenedBy
  <2>4. CASE m # 0
    <3>1. m \in 1 .. n /\ g[m] \in 1 .. m
      BY <1>2, <1>3, <2>4, OpensBelow
    <3>2. r[g[m]] \in Nat /\ r[m] \in Nat
      BY <1>2, <3>1
    <3>3. CASE r[m + 1] >= r[g[m]] + Window
      <4>1. g[m + 1] = m + 1
        BY <2>1, <2>4, <3>3 DEF OpenedBy
      <4>2. g[g[m + 1] - 1] = g[m]
        BY <2>1, <4>1
      <4>3. r[m + 1] < r[m + 1] + Window
        BY <2>2
      <4> QED BY <3>3, <4>1, <4>2, <4>3
    <3>4. CASE ~ (r[m + 1] >= r[g[m]] + Window)
      <4>1. g[m + 1] = g[m]
        BY <2>1, <2>4, <3>4 DEF OpenedBy
      <4>2. Right(m)
        BY <1>5, <3>1
      <4>3. r[m + 1] < r[g[m + 1]] + Window
        BY SMTT(30), <2>2, <3>2, <3>4, <4>1
      <4>4. g[m + 1] > 1 => r[g[m + 1]] >= r[g[g[m + 1] - 1]] + Window
        BY <4>1, <4>2
      <4> QED BY <4>3, <4>4
    <3> QED BY <3>3, <3>4
  <2> QED BY <2>3, <2>4
<1>6. Nat \subseteq S
  <2> HIDE DEF S
  <2> QED BY <1>4, <1>5, NatSetInduction
<1> QED BY <1>1, <1>2, <1>6 DEF InWindows

Worth(r, g) == \A i \in DOMAIN r : i - g[i] + 1 <= maxAttempts - 1 + peak

WindowInv ==
  /\ recorded \in Seq(Nat)
  /\ InOrder(recorded)
  /\ \A i \in DOMAIN recorded : recorded[i] <= now
  /\ Live = LastWindow(recorded, now)
  /\ onStoreError = "deny" => Worth(recorded, Opener(recorded))

(* What a step makes of the failures and of their counter.                 *)
LEMMA HowItCounts ==
  ASSUME IInv, LoginsNext \/ UNCHANGED loginsState
  PROVE  /\ UNCHANGED << maxAttempts, onStoreError >>
         /\ peak' \in Nat /\ peak' >= peak
         /\ \/ now' = now + 1 /\ UNCHANGED << counter, recorded >>
            \/ UNCHANGED now /\ counter' \in {counter, Live} /\ UNCHANGED recorded
            \/ UNCHANGED now /\ CountsOneMore
            \/ UNCHANGED now /\ CountsNothing
<1>1. CASE TimePasses \/ UNCHANGED loginsState
  BY <1>1 DEF TimePasses, loginsState, storeVars, options, IInv, LoginsTypeOK
<1>2. ASSUME NEW l \in Callers, Step(l)
      PROVE  /\ UNCHANGED << maxAttempts, onStoreError, now >>
             /\ peak' \in Nat /\ peak' >= peak
             /\ \/ counter' \in {counter, Live} /\ UNCHANGED recorded
                \/ CountsOneMore
                \/ CountsNothing
  <2>1. peak' \in Nat /\ peak' >= peak
    BY <1>2, PeakRises DEF Step, IInv
  <2>2. /\ UNCHANGED << options, now >>
        /\ \/ counter' \in {counter, Live} /\ UNCHANGED recorded
           \/ CountsOneMore
           \/ CountsNothing
    BY <1>2 DEF Step, Check, CheckFails, Lookup, CheckPassword, RecordFailure,
      RecordFailureFails, RecordSuccess, RecordSuccessFails, Upgrade, StoreFails, storeVars
  <2> QED BY <2>1, <2>2 DEF options
<1> QED BY <1>1, <1>2 DEF LoginsNext

(* A read changes nothing that is read.                                    *)
LEMMA ReadsAgree ==
  ASSUME LoginsTypeOK, UNCHANGED now, counter' \in {counter, Live}
  PROVE  Live' = Live
BY DEF Live

(* The counter that a window comes to is one.                              *)
LEMMA LastWindowIsCounter ==
  ASSUME NEW r \in Seq(Nat), Len(r) # 0
  PROVE  /\ CountOf(r) \in Nat \ {0} /\ EndOf(r) \in Nat
         /\ [count |-> CountOf(r), resetAt |-> EndOf(r)] # None
<1>1. PICK n, g : n = Len(r) /\ g = Opener(r)
  OBVIOUS
<1>2. n \in Nat /\ DOMAIN r = 1 .. n /\ n \in 1 .. n
  BY <1>1
<1>3. g[n] \in 1 .. n
  BY <1>1, <1>2, OpenerOpens, OpensBelow
<1>4. r[g[n]] + Window \in Nat
  BY <1>1, <1>2, <1>3, LimiterAssumption
<1>5. n - g[n] + 1 \in Nat \ {0}
  BY <1>2, <1>3
<1>6. CountOf(r) \in Nat \ {0} /\ EndOf(r) \in Nat
  BY <1>1, <1>4, <1>5 DEF CountOf, EndOf
<1>7. [count |-> CountOf(r), resetAt |-> EndOf(r)] \in [count : Nat \ {0}, resetAt : Nat]
  BY <1>6
<1> QED BY <1>6, <1>7, NoneIsNoCounter

(* A counter that has expired is not read again.                           *)
LEMMA ExpiredForGood ==
  ASSUME LoginsTypeOK, Live = None, now' \in {now, now + 1}, UNCHANGED counter
  PROVE  Live' = None
BY NoneIsNoCounter DEF Live, LoginsTypeOK, Counters

(* As time passes, the counter expires when its window is over.            *)
LEMMA ExpiresInTime ==
  ASSUME LoginsTypeOK, recorded \in Seq(Nat), Live = LastWindow(recorded, now),
         now' = now + 1, UNCHANGED counter
  PROVE  Live' = LastWindow(recorded, now')
<1>0. now \in Nat
  BY DEF LoginsTypeOK
<1>1. CASE Len(recorded) = 0
  BY <1>1, ExpiredForGood DEF LastWindow
<1>2. CASE Len(recorded) # 0
  <2>1. PICK R, c : R = EndOf(recorded) /\ c = [count |-> CountOf(recorded), resetAt |-> R]
    OBVIOUS
  <2>2. R \in Nat /\ c # None /\ c.resetAt = R
    BY <1>2, <2>1, LastWindowIsCounter
  <2>3. \A t : LastWindow(recorded, t) = IF t >= R THEN None ELSE c
    BY <1>2, <2>1 DEF LastWindow
  <2>4. CASE now >= R
    <3>1. now' >= R
      BY <1>0, <2>2, <2>4
    <3>2. Live = None
      BY <2>3, <2>4
    <3>3. Live' = None
      BY <3>2, ExpiredForGood
    <3> QED BY <2>3, <3>1, <3>3
  <2>5. CASE ~ (now >= R)
    <3>1. Live = c
      BY <2>3, <2>5
    <3>2. counter = c
      BY <2>2, <3>1 DEF Live
    <3>3. Live' = IF now' >= R THEN None ELSE c
      BY <2>2, <3>2 DEF Live
    <3> QED BY <2>3, <3>3
  <2> QED BY <2>4, <2>5
<1> QED BY <1>1, <1>2

(* The equation, for the failure that was counted last.                    *)
LEMMA LatestIsOpened ==
  ASSUME NEW r \in Seq(Nat), NEW m \in Nat, m \in 1 .. m, DOMAIN r = 1 .. m
  PROVE  Opener(r)[m] = OpenedBy(r, Opener(r), m)
BY OpenerOpens, OpensAt

(* A failure that is counted late opens a window; another is counted in    *)
(* the window that is open.                                                *)
LEMMA WindowAfter ==
  ASSUME NEW r \in Seq(Nat), NEW t \in Nat
  PROVE  LET s == Append(r, t) IN
           /\ Len(s) # 0
           /\ Len(r) = 0 \/ t >= EndOf(r) => CountOf(s) = 1 /\ EndOf(s) = t + Window
           /\ ~ (Len(r) = 0 \/ t >= EndOf(r)) =>
                CountOf(s) = CountOf(r) + 1 /\ EndOf(s) = EndOf(r)
<1>1. PICK n, s, m, g, h : /\ n = Len(r) /\ s = Append(r, t) /\ m = Len(s)
                           /\ g = Opener(r) /\ h = Opener(s)
  OBVIOUS
<1>2. /\ s \in Seq(Nat) /\ n \in Nat /\ m \in Nat /\ m = n + 1 /\ m \in 1 .. m /\ m # 0
      /\ m - 1 = n /\ DOMAIN r = 1 .. n /\ DOMAIN s = 1 .. m /\ s[m] = t
      /\ \A i \in 1 .. n : s[i] = r[i]
  BY <1>1, Appended
<1>3. h[m] = OpenedBy(s, h, m)
  BY <1>1, <1>2, LatestIsOpened
<1>4. CountOf(s) = m - h[m] + 1 /\ EndOf(s) = s[h[m]] + Window
  BY <1>1 DEF CountOf, EndOf
<1>5. ASSUME h[m] = m PROVE CountOf(s) = 1 /\ EndOf(s) = t + Window
  BY <1>2, <1>4, <1>5
<1>6. CASE n = 0
  <2>1. h[m] = m
    BY <1>2, <1>3, <1>6 DEF OpenedBy
  <2> QED BY <1>1, <1>2, <1>5, <1>6, <2>1
<1>7. CASE n # 0
  <2>1. n \in 1 .. n /\ m # 1
    BY <1>2, <1>7
  <2>2. h[n] = g[n]
    BY <1>1, <2>1, OpenerOfLonger
  <2>3. g[n] \in 1 .. n
    BY <1>1, <1>2, <2>1, OpenerOpens, OpensBelow
  <2>4. s[h[n]] = r[g[n]] /\ EndOf(r) = s[h[n]] + Window /\ CountOf(r) = n - g[n] + 1
    BY <1>1, <1>2, <2>2, <2>3 DEF EndOf, CountOf
  <2>5. h[m] = IF t >= EndOf(r) THEN m ELSE h[n]
    BY <1>2, <1>3, <2>1, <2>4 DEF OpenedBy
  <2>6. ASSUME h[m] = h[n] PROVE CountOf(s) = CountOf(r) + 1 /\ EndOf(s) = EndOf(r)
    <3>1. m - g[n] + 1 = (n - g[n] + 1) + 1
      BY <1>2, <2>3
    <3> QED BY <1>4, <2>2, <2>4, <2>6, <3>1
  <2> QED BY <1>1, <1>2, <1>5, <1>7, <2>5, <2>6
<1> QED BY <1>6, <1>7

(* A failure is counted in the window that is open, or opens the next.     *)
LEMMA CountsInWindow ==
  ASSUME LoginsTypeOK, recorded \in Seq(Nat), Live = LastWindow(recorded, now),
         UNCHANGED now, CountsOneMore
  PROVE  /\ Live' = LastWindow(recorded', now)
         /\ Live' = counter'
         /\ CountOf(recorded') = counter'.count
<1>1. now \in Nat /\ Window \in Nat \ {0}
  BY LimiterAssumption DEF LoginsTypeOK
<1>2. PICK r, s : r \in Seq(Nat) /\ r = recorded /\ s = recorded' /\ s = Append(r, now)
  BY DEF CountsOneMore
<1>3. /\ Len(s) # 0
      /\ Len(r) = 0 \/ now >= EndOf(r) => CountOf(s) = 1 /\ EndOf(s) = now + Window
      /\ ~ (Len(r) = 0 \/ now >= EndOf(r)) =>
           CountOf(s) = CountOf(r) + 1 /\ EndOf(s) = EndOf(r)
  BY <1>1, <1>2, WindowAfter
<1>4. LastWindow(s, now) = IF now >= EndOf(s) THEN None
                           ELSE [count |-> CountOf(s), resetAt |-> EndOf(s)]
  BY <1>3 DEF LastWindow
<1>5. ASSUME counter' = [count |-> CountOf(s), resetAt |-> EndOf(s)], ~ (now >= EndOf(s))
      PROVE  Live' = LastWindow(s, now) /\ Live' = counter' /\ CountOf(s) = counter'.count
  <2>1. Live' = counter'
    BY <1>5 DEF Live
  <2> QED BY <1>4, <1>5, <2>1
<1>6. CASE Len(r) = 0 \/ now >= EndOf(r)
  <2>1. CountOf(s) = 1 /\ EndOf(s) = now + Window
    BY <1>3, <1>6
  <2>2. Live = None
    BY <1>2, <1>6 DEF LastWindow
  <2>3. counter' = [count |-> 1, resetAt |-> now + Window]
    BY <2>2 DEF CountsOneMore, Increment
  <2>4. ~ (now >= now + Window)
    BY <1>1
  <2> QED BY <1>2, <1>5, <2>1, <2>3, <2>4
<1>7. CASE ~ (Len(r) = 0 \/ now >= EndOf(r))
  <2>1. CountOf(s) = CountOf(r) + 1 /\ EndOf(s) = EndOf(r)
    BY <1>3, <1>7
  <2>2. Live = [count |-> CountOf(r), resetAt |-> EndOf(r)] /\ Live # None
    BY <1>2, <1>7, LastWindowIsCounter DEF LastWindow
  <2>3. counter' = [count |-> CountOf(r) + 1, resetAt |-> EndOf(r)]
    BY <2>2 DEF CountsOneMore, Increment
  <2> QED BY <1>2, <1>5, <1>7, <2>1, <2>3
<1> QED BY <1>6, <1>7

(* A failure more, and what its window is worth by then.                   *)
LEMMA CountingKeepsWindows ==
  ASSUME IInv, IInv', WindowInv, UNCHANGED << maxAttempts, onStoreError, now >>,
         peak' >= peak, CountsOneMore
  PROVE  WindowInv'
<1>1. LoginsTypeOK /\ LoginsTypeOK' /\ OverrunIsOverlap'
  BY DEF IInv
<1>2. PICK n, g, s, h : /\ n = Len(recorded) /\ s = recorded'
                        /\ g = Opener(recorded) /\ h = Opener(s)
  OBVIOUS
<1>3. /\ now \in Nat /\ s = Append(recorded, now) /\ s \in Seq(Nat) /\ n \in Nat
      /\ Len(s) = n + 1 /\ DOMAIN s = 1 .. n + 1 /\ DOMAIN recorded = 1 .. n
      /\ s[n + 1] = now
      /\ \A i \in 1 .. n : s[i] = recorded[i]
  BY <1>1, <1>2, Appended DEF CountsOneMore, LoginsTypeOK, WindowInv
<1>4. \A i \in DOMAIN s : s[i] <= now
  <2>1. ASSUME NEW i \in DOMAIN s PROVE s[i] <= now
    <3>1. i \in 1 .. n \/ i = n + 1
      BY <1>3
    <3> QED BY <1>3, <3>1 DEF WindowInv
  <2> QED BY <2>1
<1>5. InOrder(s)
  <2>1. ASSUME NEW i \in DOMAIN s, NEW j \in DOMAIN s, i <= j PROVE s[i] <= s[j]
    <3>1. CASE j = n + 1
      BY <1>3, <1>4, <3>1
    <3>2. CASE j # n + 1
      <4>1. i \in 1 .. n /\ j \in 1 .. n
        BY <1>3, <2>1, <3>2
      <4> QED BY <1>3, <2>1, <4>1 DEF WindowInv, InOrder
    <3> QED BY <3>1, <3>2
  <2> QED BY <2>1 DEF InOrder
<1>6. Live' = LastWindow(s, now) /\ (n + 1) - h[n + 1] + 1 = counter'.count
  <2>1. Live' = LastWindow(s, now) /\ CountOf(s) = counter'.count
    BY <1>1, <1>2, CountsInWindow DEF WindowInv
  <2> QED BY <1>2, <1>3, <2>1 DEF CountOf
<1>7. ASSUME onStoreError = "deny" PROVE Worth(s, h)'
  <2>1. maxAttempts' \in Nat /\ peak' \in Nat /\ peak \in Nat /\ maxAttempts \in Nat
    BY <1>1 DEF LoginsTypeOK
  <2>2. counter' \in [count : Nat \ {0}, resetAt : Nat]
    BY <1>1, IncrementCounts DEF CountsOneMore
  <2>3. counter'.count <= maxAttempts - 1 + peak'
    <3>1. Counted' = counter'.count
      BY <2>2, NoneIsNoCounter DEF Counted
    <3>2. Counted' + Cardinality(UnderWay)' <= maxAttempts' - 1 + peak'
      BY <1>1, <1>7 DEF OverrunIsOverlap
    <3>3. Cardinality(UnderWay)' \in Nat /\ counter'.count \in Nat
      BY <2>2, UnderWayIsFinite
    <3> QED BY <2>1, <3>1, <3>2, <3>3
  <2>4. ASSUME NEW i \in DOMAIN s PROVE i - h[i] + 1 <= maxAttempts - 1 + peak'
    <3>1. CASE i = n + 1
      BY <1>3, <1>6, <2>3, <3>1
    <3>2. CASE i # n + 1
      <4>1. i \in 1 .. n
        BY <1>3, <3>2
      <4>2. h[i] = g[i]
        BY <1>2, <1>3, <4>1, OpenerOfLonger DEF WindowInv
      <4>3. g[i] \in 1 .. i
        BY <1>2, <1>3, <4>1, OpenerOpens, OpensBelow
      <4>4. i - g[i] + 1 <= maxAttempts - 1 + peak
        BY <1>2, <1>3, <1>7, <4>1 DEF WindowInv, Worth
      <4>5. i \in Nat /\ g[i] \in Nat
        BY <4>1, <4>3
      <4> QED BY <2>1, <4>2, <4>4, <4>5
    <3> QED BY <3>1, <3>2
  <2> QED BY <1>2, <2>4 DEF Worth
<1> QED BY <1>2, <1>3, <1>4, <1>5, <1>6, <1>7 DEF WindowInv

(* The windows that are kept are worth no less than they were.             *)
LEMMA WorthLasts ==
  ASSUME LoginsTypeOK, LoginsTypeOK', UNCHANGED << maxAttempts, recorded >>, peak' >= peak,
         recorded \in Seq(Nat), Worth(recorded, Opener(recorded))
  PROVE  Worth(recorded, Opener(recorded))'
<1>1. PICK n, g : n = Len(recorded) /\ g = Opener(recorded)
  OBVIOUS
<1>2. n \in Nat /\ DOMAIN recorded = 1 .. n
  BY <1>1
<1>3. maxAttempts \in Nat /\ peak' \in Nat /\ peak \in Nat
  BY DEF LoginsTypeOK
<1>4. ASSUME NEW i \in DOMAIN recorded PROVE i - g[i] + 1 <= maxAttempts - 1 + peak'
  <2>1. g[i] \in 1 .. i
    BY <1>1, <1>2, OpenerOpens, OpensBelow
  <2>2. i - g[i] + 1 <= maxAttempts - 1 + peak
    BY <1>1 DEF Worth
  <2>3. i \in Nat /\ g[i] \in Nat
    BY <1>2, <2>1
  <2> QED BY <1>3, <2>2, <2>3
<1> QED BY <1>1, <1>4 DEF Worth

(* Every step keeps the windows.                                           *)
LEMMA WindowsAreKept ==
  ASSUME IInv, IInv', WindowInv, LoginsNext \/ UNCHANGED loginsState
  PROVE  WindowInv'
<1>1. LoginsTypeOK /\ LoginsTypeOK'
  BY DEF IInv
<1>2. UNCHANGED << maxAttempts, onStoreError >> /\ peak' >= peak
  BY HowItCounts
<1>3. CASE now' = now + 1 /\ UNCHANGED << counter, recorded >>
  <2>1. Live' = LastWindow(recorded, now')
    BY <1>1, <1>3, ExpiresInTime DEF WindowInv
  <2>2. \A i \in DOMAIN recorded : recorded[i] <= now'
    BY <1>1, <1>3 DEF WindowInv, LoginsTypeOK
  <2> QED BY <1>1, <1>2, <1>3, <2>1, <2>2, WorthLasts DEF WindowInv
<1>4. CASE UNCHANGED << now, recorded >> /\ counter' \in {counter, Live}
  BY <1>1, <1>2, <1>4, ReadsAgree, WorthLasts DEF WindowInv
<1>5. CASE UNCHANGED now /\ CountsOneMore
  BY <1>2, <1>5, CountingKeepsWindows
<1>6. CASE UNCHANGED now /\ CountsNothing
  <2>1. Live' = None
    BY <1>6, NoneIsNoCounter DEF CountsNothing, Live
  <2> QED BY <1>6, <2>1 DEF CountsNothing, WindowInv, InOrder, LastWindow, Worth
<1> QED BY <1>3, <1>4, <1>5, <1>6, HowItCounts

(* Nothing has been counted at first.                                      *)
LEMMA WindowsAtFirst == LoginsInit => WindowInv
BY DEF LoginsInit, WindowInv, InOrder, LastWindow, Worth, Live

(* What CounterIsTheWindow computes is Opener.                             *)
LEMMA WindowIsCounted ==
  ASSUME WindowInv
  PROVE  CounterIsTheWindow
BY DEF WindowInv, CounterIsTheWindow, LastWindow, CountOf, EndOf, Opener, Opens, OpenedBy

(* A span of a window's length meets two windows at most.                  *)
LEMMA TwoWindows ==
  ASSUME LoginsTypeOK, WindowInv
  PROVE  TwiceAtMost
<1> SUFFICES ASSUME onStoreError = "deny", NEW i \in DOMAIN recorded, NEW j \in DOMAIN recorded,
                    i <= j, recorded[j] - recorded[i] < Window
             PROVE  j - i + 1 <= 2 * (maxAttempts - 1 + peak)
  BY DEF TwiceAtMost
<1>1. PICK n, r, g, w : /\ n = Len(recorded) /\ r = recorded /\ g = Opener(recorded)
                        /\ w = maxAttempts - 1 + peak
  OBVIOUS
<1>2. /\ n \in Nat /\ DOMAIN r = 1 .. n /\ w \in Nat /\ i \in 1 .. n /\ j \in 1 .. n
      /\ \A k \in 1 .. n : r[k] \in Nat
  BY <1>1 DEF WindowInv, LoginsTypeOK
<1>3. \A k \in 1 .. n : g[k] \in 1 .. k
  BY <1>1, <1>2, OpenerOpens, OpensBelow
<1>4. \A k \in 1 .. n : k - g[k] + 1 <= w
  BY <1>1, <1>2 DEF WindowInv, Worth
<1>5. InWindows(r, g) /\ InOrder(r)
  BY <1>1, OpenerInWindows DEF WindowInv
<1>6. PICK a : a = g[j]
  OBVIOUS
<1>7. a \in 1 .. j /\ j - a + 1 <= w /\ a \in Nat /\ j \in Nat /\ i \in Nat
  BY <1>2, <1>3, <1>4, <1>6
<1>8. CASE a <= i
  BY <1>1, <1>2, <1>7, <1>8
<1>9. CASE ~ (a <= i)
  <2>1. PICK k, b : k = a - 1 /\ b = g[k]
    OBVIOUS
  <2>2. k \in 1 .. n /\ a \in 1 .. n /\ a > 1 /\ i <= k /\ a <= j
    BY <1>2, <1>7, <1>9, <2>1
  <2>3. b \in 1 .. k /\ k - b + 1 <= w /\ b \in 1 .. n
    <3>1. k \in 1 .. n
      BY <1>2, <1>7, <2>1, <2>2
    <3>2. b \in 1 .. k
      BY <1>3, <2>1, <3>1
    <3>3. k - b + 1 <= w
      BY <1>4, <2>1, <3>1
    <3> QED BY <1>2, <3>1, <3>2, <3>3
  <2>4. r[a] >= r[b] + Window
    <3>1. /\ r[j] < r[g[j]] + Window
          /\ g[j] > 1 => r[g[j]] >= r[g[g[j] - 1]] + Window
      BY <1>2, <1>5 DEF InWindows
    <3> QED BY <1>6, <2>1, <2>2, <3>1
  <2>5. r[a] <= r[j]
    BY <1>2, <1>5, <2>2 DEF InOrder
  <2>6. r[j] - r[i] < Window /\ r[a] \in Nat /\ r[b] \in Nat /\ r[j] \in Nat /\ r[i] \in Nat
        /\ Window \in Nat
    BY <1>1, <1>2, <2>2, <2>3, LimiterAssumption
  <2>7. ~ (r[i] <= r[b])
    BY <2>4, <2>5, <2>6
  <2>8. ~ (i <= b)
    BY <1>2, <1>5, <2>3, <2>7 DEF InOrder
  <2>9. k - i + 1 <= w /\ k \in Nat /\ b \in Nat
    BY <1>2, <1>7, <2>2, <2>3, <2>8
  <2> QED BY <1>1, <1>2, <1>7, <2>1, <2>9
<1> QED BY <1>8, <1>9

(* At every moment the limiter's counter is what fixed windows make of the *)
(* failures counted since the last reset (stores.ts:98 and 106), however   *)
(* many logins overlap and whatever the store loses.                       *)
THEOREM CountsFixedWindows == LoginsSpec => []CounterIsTheWindow
<1>1. LoginsInit => IInv /\ WindowInv
  BY InitHolds, WindowsAtFirst
<1>2. (IInv /\ WindowInv) /\ [LoginsNext]_loginsState => (IInv /\ WindowInv)'
  BY StepKeeps, TickKeeps, WindowsAreKept DEF LoginsNext
<1>3. IInv /\ WindowInv => CounterIsTheWindow
  BY WindowIsCounted
<1> QED BY <1>1, <1>2, <1>3, PTL DEF LoginsSpec

(* No span of a window's length holds more failures than two windows'      *)
(* worth (the note in the README of auth-utils), each being maxAttempts    *)
(* less one, and one for each login that overlapped.                       *)
THEOREM NoMoreThanTwice == LoginsSpec => []TwiceAtMost
<1>1. LoginsInit => IInv /\ WindowInv
  BY InitHolds, WindowsAtFirst
<1>2. (IInv /\ WindowInv) /\ [LoginsNext]_loginsState => (IInv /\ WindowInv)'
  BY StepKeeps, TickKeeps, WindowsAreKept DEF LoginsNext
<1>3. IInv /\ WindowInv => TwiceAtMost
  BY TwoWindows DEF IInv
<1> QED BY <1>1, <1>2, <1>3, PTL DEF LoginsSpec

-----------------------------------------------------------------------------
(* The password check of a login, once it has answered: what it derived is *)
(* what the check of that row and that body derives, and where a           *)
(* derivation could not run a fault is on record.                          *)

Answered(l) ==
  \E derives \in BOOLEAN :
    /\ ~derives => faults # 0
    /\ Answer(l, derives).ok
    /\ work[l] = Answer(l, derives).work

OfCallers == \A f \in {pc, body, stored, work} : DOMAIN f = Callers

WorkInv ==
  /\ faults \in Nat
  /\ OfCallers
  /\ \A l \in Callers : pc[l] \in {"passed", "failed"} => Answered(l)

LEMMA WorkAtFirst == LoginsInit => WorkInv
BY DEF LoginsInit, WorkInv, OfCallers

(* An answer that has been given stays what it was.                        *)
LEMMA AnswerLasts ==
  ASSUME WorkInv, NEW l \in Callers, pc[l] \in {"passed", "failed"}, faults' \in Nat,
         faults # 0 => faults' # 0, stored'[l] = stored[l], body'[l] = body[l], work'[l] = work[l]
  PROVE  Answered(l)'
<1>1. \A derives : Answer(l, derives)' = Answer(l, derives)
  BY DEF Answer
<1> QED BY <1>1 DEF WorkInv, Answered

(* A step is one login's, and no fault is forgotten.                       *)
LEMMA OneLoginMoves ==
  ASSUME NEW l \in Callers, Step(l), faults \in Nat, OfCallers
  PROVE  /\ faults' \in Nat /\ (faults # 0 => faults' # 0)
         /\ OfCallers'
         /\ \A k \in Callers \ {l} : UNCHANGED << pc[k], stored[k], body[k], work[k] >>
<1>1. \/ Check(l) \/ CheckFails(l) \/ Lookup(l) \/ CheckPassword(l)
      \/ RecordFailure(l) \/ RecordFailureFails(l)
      \/ RecordSuccess(l) \/ RecordSuccessFails(l) \/ Upgrade(l)
  BY DEF Step
<1>2. \/ faults' = faults
      \/ faults' = faults + 1
  BY <1>1 DEF Check, CheckFails, Lookup, CheckPassword, RecordFailure, RecordFailureFails,
    RecordSuccess, RecordSuccessFails, Upgrade, StoreFails, storeVars, Derives
<1>3. \E to : pc' = [pc EXCEPT ![l] = to]
  BY <1>1 DEF Check, CheckFails, Lookup, CheckPassword, RecordFailure, RecordFailureFails,
    RecordSuccess, RecordSuccessFails, Upgrade, Goes, Ends, GoesIn
<1>4. body' = body \/ \E b : body' = [body EXCEPT ![l] = b]
  BY <1>1 DEF Check, CheckFails, Lookup, CheckPassword, RecordFailure, RecordFailureFails,
    RecordSuccess, RecordSuccessFails, Upgrade, Sends
<1>5. stored' = stored \/ \E r : stored' = [stored EXCEPT ![l] = r]
  BY <1>1 DEF Check, CheckFails, Lookup, CheckPassword, RecordFailure, RecordFailureFails,
    RecordSuccess, RecordSuccessFails, Upgrade
<1>6. work' = work \/ \E w : work' = [work EXCEPT ![l] = w]
  BY <1>1 DEF Check, CheckFails, Lookup, CheckPassword, RecordFailure, RecordFailureFails,
    RecordSuccess, RecordSuccessFails, Upgrade
<1>7. ASSUME NEW k \in Callers \ {l}
      PROVE  UNCHANGED << pc[k], stored[k], body[k], work[k] >>
  BY <1>3, <1>4, <1>5, <1>6 DEF OfCallers
<1>8. OfCallers'
  BY <1>3, <1>4, <1>5, <1>6 DEF OfCallers
<1> QED BY <1>2, <1>7, <1>8

LEMMA WorkIsKept ==
  ASSUME WorkInv, LoginsNext \/ UNCHANGED loginsState
  PROVE  WorkInv'
<1>1. CASE TimePasses \/ UNCHANGED loginsState
  <2>1. UNCHANGED << faults, pc, stored, body, work >>
    BY <1>1 DEF TimePasses, loginsState, storeVars, loginVars
  <2> QED BY <2>1, AnswerLasts DEF WorkInv, OfCallers
<1>2. ASSUME NEW l \in Callers, Step(l) PROVE WorkInv'
  <2>1. /\ faults' \in Nat /\ (faults # 0 => faults' # 0)
        /\ OfCallers'
        /\ \A k \in Callers \ {l} :
             UNCHANGED << pc[k], stored[k], body[k], work[k] >>
    BY <1>2, OneLoginMoves DEF WorkInv
  <2>2. ASSUME pc'[l] \in {"passed", "failed"} PROVE Answered(l)'
    <3>1. CheckPassword(l)
      BY <1>2, <2>2 DEF Step, Check, CheckFails, Lookup, RecordFailure,
        RecordFailureFails, RecordSuccess, RecordSuccessFails, Upgrade, Goes, Ends, GoesIn, WorkInv, OfCallers
    <3>2. PICK derives \in BOOLEAN :
            /\ Derives(derives)
            /\ work' = [work EXCEPT ![l] = Answer(l, derives).work]
            /\ Answer(l, derives).ok
      BY <2>2, <3>1 DEF CheckPassword, Ends, WorkInv, OfCallers
    <3>3. work'[l] = Answer(l, derives).work /\ (~derives => faults' # 0)
      BY <3>2 DEF WorkInv, Derives, OfCallers
    <3>4. Answer(l, derives)' = Answer(l, derives)
      BY <3>1 DEF CheckPassword, Answer
    <3> QED BY <3>2, <3>3, <3>4 DEF Answered
  <2>3. ASSUME NEW k \in Callers \ {l}, pc'[k] \in {"passed", "failed"} PROVE Answered(k)'
    BY <2>1, <2>3, AnswerLasts
  <2> QED BY <2>1, <2>2, <2>3 DEF WorkInv
<1> QED BY <1>1, <1>2 DEF LoginsNext

(* What a password check that can derive derives.                          *)
LEMMA WorkOfAnswer ==
  ASSUME NEW l \in Callers, Answer(l, TRUE).ok,
         ~ (/\ stored[l] # None /\ stored[l].phc /\ stored[l].id \in Argon2Ids
            /\ \/ stored[l].id \notin Argon2Variants
               \/ ~stored[l].usable
               \/ CostOf(stored[l]) # ResolveParams(Params))
  PROVE  Answer(l, TRUE).work = ResolveParams(Params)
<1>1. CASE stored[l] = None
  BY <1>1 DEF Answer, VerifyPasswordDecoy, Throws, Answers, BurnEquivalentWork
<1>2. CASE stored[l] # None
  BY <1>2 DEF Answer, VerifyPassword, ParsePhc, Throws, Answers, BurnEquivalentWork
<1> QED BY <1>1, <1>2

(* While no store operation and no derivation has failed: no such user, a  *)
(* hash that is not argon2's by its first letters, and a digest at the     *)
(* target cost take the same derivation (password.ts:240 and 291), however *)
(* many logins go on.  SameWork names the rows it leaves out.              *)
THEOREM TakesTheSameWork == LoginsSpec => []SameWork
<1>1. WorkInv /\ [LoginsNext]_loginsState => WorkInv'
  BY WorkIsKept
<1>2. WorkInv => SameWork
  BY WorkOfAnswer DEF WorkInv, SameWork, Answered
<1> QED BY WorkAtFirst, <1>1, <1>2, PTL DEF LoginsSpec

-----------------------------------------------------------------------------
(* Correlation identifiers.                                                *)
(*                                                                         *)
(* However many runs there are and however deep they nest: until two of    *)
(* them cross, the identifier is that of the innermost one.  The inductive *)
(* invariant adds what each pending run will put back, which is the run    *)
(* that began before it, and that a run which has not ended is in `nest`.  *)

NestShapes ==
  /\ currentId \in Runs \cup {NoId}
  /\ previousId \in [Runs -> Runs \cup {NoId}]
  /\ stack \in Seq(Runs) /\ nest \in Seq(Runs)
  /\ promised \subseteq begun /\ begun \subseteq Runs
  /\ crossed \in BOOLEAN
  /\ \A i \in 1 .. Len(stack) : stack[i] \in begun
  /\ \A i \in 1 .. Len(nest) : nest[i] \in begun

\* A run is at one place only.
OnceEach ==
  /\ \A i, j \in 1 .. Len(stack) : stack[i] = stack[j] => i = j
  /\ \A i \in 1 .. Len(stack) : stack[i] \notin promised

Among(r, s) == \E i \in 1 .. Len(s) : s[i] = r

Unended ==
  /\ \A i \in 1 .. Len(stack) : Among(stack[i], nest)
  /\ \A r \in promised : Among(r, nest)

Restores ==
  \A i \in 1 .. Len(nest) :
    previousId[nest[i]] = IF i = 1 THEN NoId ELSE nest[i - 1]

NestInv == NestShapes /\ OnceEach /\ (~crossed => CurrentIsInnermost /\ Unended /\ Restores)

(* What is left when the last element is taken away.                       *)
LEMMA FrontOf ==
  ASSUME NEW s \in Seq(Runs), s # << >>
  PROVE  /\ Len(s) \in Nat \ {0}
         /\ Last(s) \in Runs /\ Last(s) = s[Len(s)]
         /\ Front(s) \in Seq(Runs) /\ Len(Front(s)) = Len(s) - 1
         /\ \A i \in 1 .. Len(s) - 1 : Front(s)[i] = s[i]
<1>1. Len(s) \in Nat \ {0}
  OBVIOUS
<1>2. Last(s) \in Runs /\ Last(s) = s[Len(s)]
  BY <1>1 DEF Last
<1> DEFINE n == Len(s) - 1
<1>3. n \in Int /\ \A i \in 1 .. n : s[i] \in Runs
  BY <1>1
<1>4. /\ SubSeq(s, 1, n) \in Seq(Runs)
      /\ Len(SubSeq(s, 1, n)) = IF 1 <= n THEN n - 1 + 1 ELSE 0
      /\ \A i \in 1 .. n - 1 + 1 : SubSeq(s, 1, n)[i] = s[1 + i - 1]
  <2> HIDE DEF n
  <2> QED BY <1>3, SubSeqProperties
<1>5. Len(SubSeq(s, 1, n)) = n
  <2>1. n \in Nat
    BY <1>1
  <2> HIDE DEF n
  <2> QED BY <2>1, <1>4
<1>6. \A i \in 1 .. n : SubSeq(s, 1, n)[i] = s[i]
  <2>1. n \in Int
    BY <1>3
  <2> HIDE DEF n
  <2> QED BY <2>1, <1>4
<1> QED BY <1>1, <1>2, <1>4, <1>5, <1>6 DEF Front

(* What there is when one is added.                                        *)
LEMMA AppendTo ==
  ASSUME NEW s \in Seq(Runs), NEW r \in Runs
  PROVE  /\ Append(s, r) \in Seq(Runs) /\ Append(s, r) # << >>
         /\ Len(Append(s, r)) = Len(s) + 1 /\ Len(s) \in Nat
         /\ Last(Append(s, r)) = r
         /\ Append(s, r)[Len(s) + 1] = r
         /\ \A i \in 1 .. Len(s) : Append(s, r)[i] = s[i]
BY DEF Last

(* Any other element of a sequence is among what is left.                  *)
LEMMA OthersStay ==
  ASSUME NEW s \in Seq(Runs), NEW r, Among(r, s)
  PROVE  /\ s # << >>
         /\ r # Last(s) => Among(r, Front(s))
<1>1. PICK i \in 1 .. Len(s) : s[i] = r
  BY DEF Among
<1>2. s # << >>
  BY <1>1
<1>3. ASSUME r # Last(s) PROVE Among(r, Front(s))
  <2>1. i \in 1 .. Len(s) - 1
    BY <1>1, <1>2, <1>3, FrontOf
  <2> QED BY <1>1, <1>2, <2>1, FrontOf DEF Among
<1> QED BY <1>2, <1>3

LEMMA InAppended ==
  ASSUME NEW s \in Seq(Runs), NEW r \in Runs
  PROVE  /\ Among(r, Append(s, r))
         /\ \A q : Among(q, s) => Among(q, Append(s, r))
<1>1. Len(s) + 1 \in 1 .. Len(Append(s, r)) /\ 1 .. Len(s) \subseteq 1 .. Len(Append(s, r))
  BY AppendTo
<1> QED BY <1>1, AppendTo DEF Among

(* A run that ends out of turn crosses another; otherwise the one before it *)
(* gets back what it had.                                                  *)
LEMMA RunEndKeeps ==
  ASSUME NestInv, NEW r \in begun, RunEnds(r), ~crossed => Among(r, nest)
  PROVE  /\ currentId' \in Runs \cup {NoId}
         /\ previousId' \in [Runs -> Runs \cup {NoId}] /\ begun' \subseteq Runs
         /\ nest' \in Seq(Runs) /\ crossed' \in BOOLEAN
         /\ \A i \in 1 .. Len(nest') : nest'[i] \in begun'
         /\ ~crossed' =>
              /\ ~crossed /\ CurrentIsInnermost' /\ Restores'
              /\ \A q : Among(q, nest) /\ q # r => Among(q, nest')
<1> USE DEF NestInv, NestShapes
<1>0. currentId' \in Runs \cup {NoId}
  BY DEF RunEnds, PutsBack
<1>1. CASE crossed'
  BY <1>0, <1>1 DEF RunEnds
<1>2. CASE ~crossed'
  <2>1. ~crossed /\ Last(nest) = r /\ nest' = Front(nest) /\ Among(r, nest) /\ nest # << >>
    BY <1>2, OthersStay DEF RunEnds
  <2>2. /\ Len(nest) \in Nat \ {0} /\ nest[Len(nest)] = r
        /\ nest' \in Seq(Runs) /\ Len(nest') = Len(nest) - 1
        /\ \A i \in 1 .. Len(nest) - 1 : nest'[i] = nest[i]
    BY <2>1, FrontOf
  <2>3. Restores'
    <3>1. \A i \in 1 .. Len(nest) :
            previousId[nest[i]] = IF i = 1 THEN NoId ELSE nest[i - 1]
      BY <2>1 DEF Restores
    <3>2. previousId' = previousId
      BY DEF RunEnds
    <3>3. ASSUME NEW i \in 1 .. Len(nest')
          PROVE  previousId[nest'[i]] = IF i = 1 THEN NoId ELSE nest'[i - 1]
      <4>1. i \in 1 .. Len(nest) /\ nest'[i] = nest[i]
        BY <2>2
      <4>2. i # 1 => i - 1 \in 1 .. Len(nest) - 1
        BY <2>2
      <4> QED BY <2>2, <3>1, <4>1, <4>2
    <3> QED BY <3>2, <3>3 DEF Restores
  <2>4. currentId' = IF Len(nest) = 1 THEN NoId ELSE nest[Len(nest) - 1]
    <3>1. Len(nest) \in 1 .. Len(nest) /\ currentId' = previousId[nest[Len(nest)]]
      BY <2>2 DEF RunEnds, PutsBack
    <3> QED BY <2>1, <3>1 DEF Restores
  <2>5. CurrentIsInnermost'
    <3>1. CASE Len(nest) = 1
      <4>1. nest' = << >>
        BY <2>2, <3>1
      <4> QED BY <2>4, <3>1, <4>1 DEF CurrentIsInnermost
    <3>2. CASE Len(nest) # 1
      <4>1. nest' # << >> /\ Last(nest') = nest'[Len(nest')]
        BY <2>2, <3>2, FrontOf
      <4>2. Last(nest') = nest[Len(nest) - 1]
        BY <2>2, <3>2, <4>1
      <4> QED BY <2>4, <3>2, <4>1, <4>2 DEF CurrentIsInnermost
    <3> QED BY <3>1, <3>2
  <2>6. \A q : Among(q, nest) /\ q # r => Among(q, nest')
    BY <2>1, OthersStay
  <2>7. \A i \in 1 .. Len(nest') : nest'[i] \in begun
    BY <2>2
  <2> QED BY <1>0, <1>2, <2>1, <2>2, <2>3, <2>5, <2>6, <2>7 DEF RunEnds
<1> QED BY <1>1, <1>2 DEF RunEnds

LEMMA NestStart == CorrelationInit => NestInv
<1> SUFFICES ASSUME CorrelationInit PROVE NestInv
  OBVIOUS
<1>1. nest = << >> /\ stack = << >> /\ Len(nest) = 0 /\ Len(stack) = 0 /\ promised = {}
  BY DEF CorrelationInit
<1>2. stack \in Seq(Runs) /\ nest \in Seq(Runs)
  BY <1>1
<1>3. NestShapes
  <2>1. previousId \in [Runs -> Runs \cup {NoId}]
    BY DEF CorrelationInit
  <2>2. \A i \in 1 .. 0 : FALSE
    OBVIOUS
  <2>3. /\ \A i \in 1 .. Len(stack) : stack[i] \in begun
        /\ \A i \in 1 .. Len(nest) : nest[i] \in begun
    BY <1>1, <2>2
  <2>4. /\ currentId = NoId /\ promised = {} /\ begun = {} /\ crossed = FALSE
    BY DEF CorrelationInit
  <2> QED BY <1>2, <2>1, <2>3, <2>4 DEF NestShapes
<1>4. OnceEach
  <2>1. \A i \in 1 .. 0 : FALSE
    OBVIOUS
  <2> QED BY <1>1, <2>1 DEF OnceEach
<1>5. Unended /\ Restores
  BY <1>1 DEF Unended, Restores
<1>6. CurrentIsInnermost
  BY DEF CorrelationInit, CurrentIsInnermost
<1> QED BY <1>3, <1>4, <1>5, <1>6 DEF NestInv

LEMMA NestStep == NestInv /\ [CorrelationNext]_correlationVars => NestInv'
<1> SUFFICES ASSUME NestInv, [CorrelationNext]_correlationVars PROVE NestInv'
  OBVIOUS
<1>1. ASSUME NEW r \in Runs, BeginsRun(r) PROVE NestInv'
  <2> USE DEF NestInv, NestShapes
  <2>1. /\ r \notin begun /\ begun' = begun \cup {r} /\ promised' = promised
        /\ stack' = Append(stack, r) /\ nest' = Append(nest, r)
        /\ previousId' = [previousId EXCEPT ![r] = currentId]
        /\ currentId' = r /\ crossed' = crossed
    BY <1>1 DEF BeginsRun
  <2>2. /\ stack' \in Seq(Runs) /\ Len(stack') = Len(stack) + 1 /\ stack'[Len(stack) + 1] = r
        /\ \A i \in 1 .. Len(stack) : stack'[i] = stack[i]
        /\ nest' \in Seq(Runs) /\ Len(nest') = Len(nest) + 1 /\ nest'[Len(nest) + 1] = r
        /\ \A i \in 1 .. Len(nest) : nest'[i] = nest[i]
        /\ nest' # << >> /\ Last(nest') = r
        /\ Len(stack) \in Nat /\ Len(nest) \in Nat
    BY <2>1, AppendTo
  <2>3. CASE crossed
    BY <2>1, <2>2, <2>3 DEF OnceEach
  <2>4. CASE ~crossed
    <3>1. currentId = IF nest = << >> THEN NoId ELSE nest[Len(nest)]
      BY <2>4, FrontOf DEF CurrentIsInnermost
    <3>2. NestShapes' /\ OnceEach'
      <4>1. NestShapes'
        BY <2>1, <2>2
      <4>2. OnceEach'
        BY <2>1, <2>2 DEF OnceEach
      <4> QED BY <4>1, <4>2
    <3>3. CurrentIsInnermost'
      BY <2>1, <2>2 DEF CurrentIsInnermost
    <3>4. Unended'
      BY <2>1, <2>2, <2>4, InAppended DEF Unended
    <3>5. Restores'
      <4> SUFFICES ASSUME NEW i \in 1 .. Len(nest')
                   PROVE previousId'[nest'[i]] = IF i = 1 THEN NoId ELSE nest'[i - 1]
        BY DEF Restores
      <4>1. CASE i = Len(nest) + 1
        <5>1. nest = << >> <=> Len(nest) = 0
          OBVIOUS
        <5> QED BY <2>1, <2>2, <3>1, <4>1, <5>1
      <4>2. CASE i \in 1 .. Len(nest)
        <5>1. nest[i] # r /\ nest[i] \in Runs
          BY <2>1, <4>2
        <5> QED BY <2>1, <2>2, <2>4, <4>2, <5>1 DEF Restores
      <4> QED BY <2>2, <4>1, <4>2
    <3> QED BY <3>2, <3>3, <3>4, <3>5
  <2> QED BY <2>3, <2>4
<1>2. ASSUME ReturnsPromise PROVE NestInv'
  <2>1. /\ stack \in Seq(Runs) /\ stack # << >> /\ stack' = Front(stack)
        /\ promised' = promised \cup {Last(stack)}
        /\ UNCHANGED << currentId, previousId, begun, nest, crossed >>
    BY <1>2 DEF ReturnsPromise, NestInv, NestShapes
  <2>2. /\ Len(stack) \in Nat \ {0} /\ Last(stack) = stack[Len(stack)]
        /\ stack' \in Seq(Runs) /\ Len(stack') = Len(stack) - 1
        /\ \A i \in 1 .. Len(stack) - 1 : stack'[i] = stack[i]
    BY <2>1, FrontOf
  <2>3. NestShapes' /\ OnceEach'
    <3>1. Last(stack) \in Runs
      BY <2>1, <2>2
    <3>2. NestShapes'
      BY <2>1, <2>2, <3>1 DEF NestInv, NestShapes
    <3>3. OnceEach'
      <4>1. OnceEach
        BY DEF NestInv
      <4> QED BY <2>1, <2>2, <4>1 DEF OnceEach
    <3> QED BY <3>2, <3>3
  <2>4. ~crossed' => CurrentIsInnermost' /\ Restores'
    BY <2>1 DEF NestInv, CurrentIsInnermost, Restores
  <2>5. ASSUME ~crossed' PROVE Unended'
    <3>1. Unended
      BY <2>1, <2>5 DEF NestInv
    <3>2. \A i \in 1 .. Len(stack') : Among(stack'[i], nest')
      BY <2>1, <2>2, <3>1 DEF Unended
    <3>3. \A r \in promised' : Among(r, nest')
      BY <2>1, <2>2, <3>1 DEF Unended
    <3> QED BY <3>2, <3>3 DEF Unended
  <2> QED BY <2>3, <2>4, <2>5 DEF NestInv
<1>3. ASSUME ReturnsValue PROVE NestInv'
  <2> DEFINE r == Last(stack)
  <2>1. /\ stack \in Seq(Runs) /\ stack # << >> /\ stack' = Front(stack)
        /\ RunEnds(r) /\ promised' = promised /\ begun' = begun
    BY <1>3 DEF ReturnsValue, RunEnds, NestInv, NestShapes
  <2>2. /\ Len(stack) \in Nat \ {0} /\ r = stack[Len(stack)]
        /\ stack' \in Seq(Runs) /\ Len(stack') = Len(stack) - 1
        /\ \A i \in 1 .. Len(stack) - 1 : stack'[i] = stack[i]
    BY <2>1, FrontOf
  <2>3. r \in begun /\ (~crossed => Among(r, nest)) /\ r \notin promised
    BY <2>2 DEF NestInv, NestShapes, Unended, OnceEach
  <2> HIDE DEF r
  <2>4. /\ currentId' \in Runs \cup {NoId}
        /\ previousId' \in [Runs -> Runs \cup {NoId}] /\ begun' \subseteq Runs
        /\ nest' \in Seq(Runs) /\ crossed' \in BOOLEAN
        /\ \A i \in 1 .. Len(nest') : nest'[i] \in begun'
        /\ ~crossed' =>
              /\ ~crossed /\ CurrentIsInnermost' /\ Restores'
              /\ \A q : Among(q, nest) /\ q # r => Among(q, nest')
    BY <2>1, <2>3, RunEndKeeps
  <2>5. NestShapes' /\ OnceEach'
    BY <2>1, <2>2, <2>4 DEF NestInv, NestShapes, OnceEach
  <2>6. ASSUME ~crossed' PROVE Unended'
    <3>1. \A i \in 1 .. Len(stack') : stack'[i] # r /\ Among(stack'[i], nest)
      BY <2>2, <2>4, <2>6 DEF NestInv, OnceEach, Unended
    <3>2. \A q \in promised' : q # r /\ Among(q, nest)
      BY <2>1, <2>3, <2>4, <2>6 DEF NestInv, Unended
    <3> QED BY <2>4, <2>6, <3>1, <3>2 DEF Unended
  <2> QED BY <2>4, <2>5, <2>6 DEF NestInv
<1>4. ASSUME NEW r \in Runs, SettlesRun(r) PROVE NestInv'
  <2>1. /\ stack = << >> /\ stack' = stack /\ r \in promised
        /\ RunEnds(r) /\ promised' = promised \ {r} /\ begun' = begun
    BY <1>4 DEF SettlesRun, RunEnds
  <2>2. r \in begun /\ (~crossed => Among(r, nest))
    BY <2>1 DEF NestInv, NestShapes, Unended
  <2>3. /\ currentId' \in Runs \cup {NoId}
        /\ previousId' \in [Runs -> Runs \cup {NoId}] /\ begun' \subseteq Runs
        /\ nest' \in Seq(Runs) /\ crossed' \in BOOLEAN
        /\ \A i \in 1 .. Len(nest') : nest'[i] \in begun'
        /\ ~crossed' =>
              /\ ~crossed /\ CurrentIsInnermost' /\ Restores'
              /\ \A q : Among(q, nest) /\ q # r => Among(q, nest')
    BY <2>1, <2>2, RunEndKeeps
  <2>4. NestShapes' /\ OnceEach'
    BY <2>1, <2>3 DEF NestInv, NestShapes, OnceEach
  <2>5. ~crossed' => Unended'
    BY <2>1, <2>3 DEF NestInv, Unended
  <2> QED BY <2>3, <2>4, <2>5 DEF NestInv
<1>5. ASSUME UNCHANGED correlationVars PROVE NestInv'
  BY <1>5 DEF correlationVars, NestInv, NestShapes, OnceEach, Unended, Among, Restores, CurrentIsInnermost
<1> QED BY <1>1, <1>2, <1>3, <1>4, <1>5 DEF CorrelationNext

(* For any number of runs of either kind, nested in any way: until a run   *)
(* ends before one that began after it, the current identifier is that of  *)
(* the innermost run, and there is none when no run is left.               *)
THEOREM InnermostIsCurrent == CorrelationSpec => []CurrentIsInnermost
<1>1. NestInv => CurrentIsInnermost
  BY DEF NestInv, CurrentIsInnermost
<1> QED BY NestStart, NestStep, <1>1, PTL DEF CorrelationSpec

-----------------------------------------------------------------------------
(* Tokens.                                                                 *)

(* What signers and verifiers are, once they are made.                     *)
LEMMA SignerIsSound ==
  ASSUME NEW s, CreateJwtSigner(s) # Refused
  PROVE  /\ CreateJwtSigner(s) = s
         /\ s.algorithm \in Symmetric \cup Asymmetric
         /\ s.ttlSeconds \in Nat \ {0}
<1>1. ResolveAllowlist(<< s.algorithm >>) # Refused /\ CreateJwtSigner(s) = s
  BY DEF CreateJwtSigner
<1>2. IsJwtAlgorithm(s.algorithm)
  BY <1>1 DEF ResolveAllowlist
<1> QED BY <1>1, <1>2 DEF IsJwtAlgorithm, CreateJwtSigner, IsNonEmptyString, IsPositiveInteger

LEMMA VerifierIsSound ==
  ASSUME NEW v \in Verifiers, NEW w, w = CreateJwtVerifier(v), w # Refused
  PROVE  /\ w.algorithms = v.algorithms /\ w.key = v.key
         /\ w.toleranceSeconds \in Nat
         /\ w.maxAgeSeconds # None => w.maxAgeSeconds \in Nat
         /\ "HS256" \in Range(w.algorithms) => ClassifyKey(v.key) = "secret" /\ ~ LooksLikePem(v.key)
<1>1. /\ ResolveAllowlist(v.algorithms) # Refused
      /\ KeyMatchesAllowlist(v.key, ResolveAllowlist(v.algorithms), "verify")
      /\ v.toleranceSeconds \in 0 .. MaxClockToleranceSeconds
      /\ v.maxAgeSeconds = None \/ IsPositiveInteger(v.maxAgeSeconds)
  BY DEF CreateJwtVerifier
<1>2. w = [v EXCEPT !.requiredClaims =
             @ \cup {"sub"} \cup IF v.requireExpiration THEN {"exp"} ELSE {}]
  BY <1>1 DEF CreateJwtVerifier
<1>3. DOMAIN v = VerifierOptions
  BY OptionsAssumption
<1>4. /\ w.algorithms = v.algorithms /\ w.key = v.key
      /\ w.toleranceSeconds = v.toleranceSeconds /\ w.maxAgeSeconds = v.maxAgeSeconds
  BY <1>2, <1>3 DEF VerifierOptions
<1>5. w.toleranceSeconds \in Nat /\ (w.maxAgeSeconds # None => w.maxAgeSeconds \in Nat)
  BY <1>1, <1>4 DEF MaxClockToleranceSeconds, IsPositiveInteger
<1>6. ASSUME "HS256" \in Range(v.algorithms)
      PROVE  ClassifyKey(v.key) = "secret" /\ ~ LooksLikePem(v.key)
  <2>1. /\ v.algorithms # << >>
        /\ \A i, j \in DOMAIN v.algorithms :
             AlgorithmFamily(v.algorithms[i]) = AlgorithmFamily(v.algorithms[j])
        /\ ResolveAllowlist(v.algorithms) =
             [algorithms |-> Range(v.algorithms), family |-> AlgorithmFamily(v.algorithms[1])]
    BY <1>1 DEF ResolveAllowlist
  <2>2. AlgorithmFamily("HS256") = "symmetric"
    BY DEF AlgorithmFamily, Symmetric
  <2>3. AlgorithmFamily(v.algorithms[1]) = "symmetric"
    <3>1. 1 \in DOMAIN v.algorithms
      BY <2>1, OptionsAssumption
    <3>2. PICK i \in DOMAIN v.algorithms : v.algorithms[i] = "HS256"
      BY <1>6 DEF Range
    <3> QED BY <2>1, <2>2, <3>1, <3>2
  <2> QED BY <1>1, <2>1, <2>3 DEF KeyMatchesAllowlist, SecretIsStrong
<1> QED BY <1>4, <1>5, <1>6

LEMMA SecondsAreNatural ==
  ASSUME NEW t \in Moments
  PROVE  Seconds(t) \in Nat
BY TicksAssumption, MomentsAssumption DEF Seconds

(* What is in a token that was just signed.                                *)
Holds(k, s, claims, t) ==
  /\ k.segments = 3 /\ k.signed
  /\ k.header = [alg |-> s.algorithm, typ |-> s.typ]
  /\ k.by = [alg |-> s.algorithm, material |-> s.key.material]
  /\ {"sub", "iss", "aud", "iat", "exp"} \subseteq DOMAIN k.payload
  /\ "nbf" \notin DOMAIN k.payload
  /\ k.payload.sub = claims.sub
  /\ k.payload.iss = s.issuer /\ k.payload.aud = s.audience
  /\ k.payload.iat = Seconds(t) /\ k.payload.exp = Seconds(t) + s.ttlSeconds

LEMMA WhatIsSigned ==
  ASSUME NEW s, NEW claims, NEW t, NEW k, k = Sign(s, claims, t)
  PROVE  Holds(k, s, claims, t)
<1>1. PICK p : k = Jws(s.algorithm, s.typ, p, s.key.material) /\ p = k.payload
  BY DEF Sign, Jws
<1>2. /\ k.segments = 3 /\ k.signed
      /\ k.header = [alg |-> s.algorithm, typ |-> s.typ]
      /\ k.by = [alg |-> s.algorithm, material |-> s.key.material]
  BY <1>1 DEF Jws
<1> DEFINE owned == [sub |-> claims.sub, iss |-> s.issuer, aud |-> s.audience,
                     iat |-> Seconds(t), exp |-> Seconds(t) + s.ttlSeconds, jti |-> None]
           stamped == IF s.includeJti THEN owned ELSE Restrict(owned, DOMAIN owned \ {"jti"})
           rest == Restrict(claims, DOMAIN claims \ SignerOwnedClaims)
<1>3. k.payload = [c \in DOMAIN stamped \cup DOMAIN rest |->
                     IF c \in DOMAIN stamped THEN stamped[c] ELSE rest[c]]
  BY DEF Sign, Jws
<1>4. /\ {"sub", "iss", "aud", "iat", "exp"} \subseteq DOMAIN stamped
      /\ "nbf" \notin DOMAIN stamped
      /\ stamped.sub = claims.sub /\ stamped.iss = s.issuer /\ stamped.aud = s.audience
      /\ stamped.iat = Seconds(t) /\ stamped.exp = Seconds(t) + s.ttlSeconds
  BY DEF Restrict
<1>5. "nbf" \notin DOMAIN rest
  BY DEF Restrict, SignerOwnedClaims
<1> HIDE DEF stamped, rest
<1> QED BY <1>2, <1>3, <1>4, <1>5 DEF Holds

(* A token whose signature is not the verifier's is refused, and not as    *)
(* expired; so is one whose header is.                                     *)
LEMMA InspectionRefuses ==
  ASSUME NEW w, NEW k, NEW t, InspectProtectedHeader(k, w) # None
  PROVE  Verify(w, k, t) \notin {None, "expired"}
BY NoneIsNothingElse DEF Verify, InspectProtectedHeader, JwtReasons

LEMMA SignatureRefuses ==
  ASSUME NEW w, NEW k, NEW t,
         k.by # [alg |-> k.header.alg, material |-> w.key.material]
  PROVE  Verify(w, k, t) \notin {None, "expired"}
<1>1. CASE InspectProtectedHeader(k, w) # None
  BY <1>1, InspectionRefuses
<1>2. CASE InspectProtectedHeader(k, w) = None
  <2>1. PICK c : c = JwtVerify(k, w, t)
    OBVIOUS
  <2>2. c \in {[error |-> "TypeError", claim |-> None],
               [error |-> "JWSSignatureVerificationFailed", claim |-> None]}
    BY <2>1 DEF JwtVerify
  <2>3. c # None
    BY <2>2, NoneIsNothingElse DEF JoseErrors
  <2>4. ToVerificationError(c) \in {"algorithm_not_allowed", "signature_invalid"}
    BY <2>2 DEF ToVerificationError
  <2>5. Verify(w, k, t) = ToVerificationError(c)
    BY <1>2, <2>1, <2>3 DEF Verify
  <2> QED BY <2>4, <2>5, NoneIsNothingElse DEF JwtReasons
<1> QED BY <1>1, <1>2

(* What a verifier says of a token that was signed.                        *)
LEMMA GenuineIsJudged ==
  ASSUME NEW s \in Signers, CreateJwtSigner(s) # Refused,
         NEW v \in Verifiers, NEW w, w = CreateJwtVerifier(v), w # Refused,
         NEW claims, IsNonEmptyString(claims.sub),
         NEW t \in Moments, NEW u \in Moments, NEW k, k = Sign(s, claims, t),
         NEW age, age = Seconds(u) - Seconds(t)
  PROVE  /\ Verify(w, k, u) = None <=>
              /\ s.algorithm \in Range(w.algorithms)
              /\ s.key.material = w.key.material
              /\ s.issuer \in w.issuers /\ s.audience \cap w.audience # {}
              /\ w.expectedTyp \in {None, s.typ}
              /\ w.requiredClaims \subseteq DOMAIN k.payload
              /\ age < s.ttlSeconds + w.toleranceSeconds
              /\ w.maxAgeSeconds # None =>
                   age \in 0 - w.toleranceSeconds .. w.maxAgeSeconds + w.toleranceSeconds
         /\ Verify(w, k, u) = "expired" =>
              Seconds(u) >= Seconds(t) + s.ttlSeconds + w.toleranceSeconds
<1>1. /\ s.algorithm \in Symmetric \cup Asymmetric
      /\ s.ttlSeconds \in Nat \ {0}
  BY SignerIsSound
<1>2. /\ w.key = v.key /\ w.algorithms = v.algorithms /\ w.toleranceSeconds \in Nat
      /\ w.maxAgeSeconds # None => w.maxAgeSeconds \in Nat
  BY VerifierIsSound
<1>3. Seconds(t) \in Nat /\ Seconds(u) \in Nat
  BY SecondsAreNatural
<1>4. /\ k.segments = 3 /\ k.signed
      /\ k.header = [alg |-> s.algorithm, typ |-> s.typ]
      /\ k.by = [alg |-> s.algorithm, material |-> s.key.material]
      /\ {"sub", "iss", "aud", "iat", "exp"} \subseteq DOMAIN k.payload
      /\ "nbf" \notin DOMAIN k.payload
      /\ k.payload.sub = claims.sub
      /\ k.payload.iss = s.issuer /\ k.payload.aud = s.audience
      /\ k.payload.iat = Seconds(t) /\ k.payload.exp = Seconds(t) + s.ttlSeconds
  <2>1. Holds(k, s, claims, t)
    BY WhatIsSigned
  <2> QED BY <2>1 DEF Holds
<1>6. InspectProtectedHeader(k, w) = None <=>
        s.algorithm \in Range(w.algorithms) /\ w.expectedTyp \in {None, s.typ}
  <2>1. k.header # None /\ IsJwtAlgorithm(s.algorithm)
    BY <1>1, <1>4, NoneIsNothingElse DEF IsJwtAlgorithm
  <2>2. Field(k.header, "alg") = s.algorithm /\ Field(k.header, "typ") = s.typ
    BY <1>4 DEF Field
  <2>3. DOMAIN k.header \cap (KeyResolutionHeaders \cup {"crit"}) = {}
    BY <1>4 DEF KeyResolutionHeaders
  <2> QED BY <1>4, <2>1, <2>2, <2>3, NoneIsNothingElse DEF InspectProtectedHeader, JwtReasons
<1>7. CASE InspectProtectedHeader(k, w) # None
  BY <1>6, <1>7, InspectionRefuses
<1>8. CASE InspectProtectedHeader(k, w) = None /\ s.key.material # w.key.material
  <2>1. k.by # [alg |-> k.header.alg, material |-> w.key.material]
    BY <1>4, <1>8
  <2> QED BY <1>8, <2>1, SignatureRefuses
<1>9. CASE InspectProtectedHeader(k, w) = None /\ s.key.material = w.key.material
  <2>1. s.algorithm \in w.key.serves
    BY <1>2, <1>6, <1>9, KeysAssumption
  <2> DEFINE missing ==
        (w.requiredClaims \cup {"iss", "aud"}
           \cup IF w.maxAgeSeconds = None THEN {} ELSE {"iat"}) \ DOMAIN k.payload
      failed(c) == [error |-> "JWTClaimValidationFailed", claim |-> c]
      expired(c) == [error |-> "JWTExpired", claim |-> c]
      at == Seconds(u)
      judged ==
        IF missing # {} THEN failed(IF "sub" \in missing THEN "sub" ELSE "other")
        ELSE IF s.issuer \notin w.issuers THEN failed("iss")
        ELSE IF s.audience \cap w.audience = {} THEN failed("aud")
        ELSE IF Seconds(t) + s.ttlSeconds <= at - w.toleranceSeconds THEN expired("exp")
        ELSE IF w.maxAgeSeconds # None /\ age - w.toleranceSeconds > w.maxAgeSeconds
             THEN expired("iat")
        ELSE IF w.maxAgeSeconds # None /\ age < 0 - w.toleranceSeconds THEN failed("iat")
        ELSE None
  <2>2. missing = w.requiredClaims \ DOMAIN k.payload
    BY <1>4
  <2>3. /\ Field(k.payload, "iss") = s.issuer /\ Field(k.payload, "aud") = s.audience
        /\ Field(k.payload, "nbf") = None /\ Field(k.payload, "iat") = Seconds(t)
        /\ Field(k.payload, "exp") = Seconds(t) + s.ttlSeconds
        /\ Seconds(t) + s.ttlSeconds # None
    BY <1>1, <1>3, <1>4, NoneIsNothingElse DEF Field
  <2>4. k.header.alg = s.algorithm
        /\ k.by = [alg |-> k.header.alg, material |-> w.key.material]
    BY <1>4, <1>9
  <2>5. {"iss", "aud", "iat", "sub", "exp"} \cap missing = {}
    BY <1>4
  <2>6. JwtVerify(k, w, u) = judged
    <3> HIDE DEF missing
    <3> QED BY <2>1, <2>3, <2>4, <2>5 DEF JwtVerify, missing
  <2>7. \A c \in {"sub", "other", "iss", "aud", "exp", "iat"} :
          failed(c) # None /\ expired(c) # None
    BY NoneIsNothingElse DEF JoseErrors, ClaimNames
  <2> DEFINE InTime == age < s.ttlSeconds + w.toleranceSeconds
             Young == w.maxAgeSeconds # None =>
                        age \in 0 - w.toleranceSeconds .. w.maxAgeSeconds + w.toleranceSeconds
             Fit == /\ w.requiredClaims \subseteq DOMAIN k.payload
                    /\ s.issuer \in w.issuers /\ s.audience \cap w.audience # {}
  <2>8. /\ judged = None <=> Fit /\ InTime /\ Young
        /\ judged = expired("exp") =>
             Seconds(u) >= Seconds(t) + s.ttlSeconds + w.toleranceSeconds
    <3>1. InTime <=> ~ (Seconds(t) + s.ttlSeconds <= at - w.toleranceSeconds)
      BY <1>1, <1>2, <1>3
    <3>2. Young <=> ~ (w.maxAgeSeconds # None /\ age - w.toleranceSeconds > w.maxAgeSeconds)
                    /\ ~ (w.maxAgeSeconds # None /\ age < 0 - w.toleranceSeconds)
      BY <1>2, <1>3
    <3>3. InTime \/ Seconds(u) >= Seconds(t) + s.ttlSeconds + w.toleranceSeconds
      BY <1>1, <1>2, <1>3
    <3>4. Fit <=> missing = {} /\ s.issuer \in w.issuers /\ s.audience \cap w.audience # {}
      BY <2>2
    <3>5. \A c \in {"sub", "other", "iss", "aud", "iat"} :
            failed(c) # expired("exp") /\ expired("iat") # expired("exp")
      OBVIOUS
    <3> HIDE DEF InTime, Young, Fit, missing, failed, expired
    <3> QED BY <2>7, <3>1, <3>2, <3>3, <3>4, <3>5, NoneIsNothingElse
  <2>9. judged # None => ToVerificationError(judged) # None
    BY NoneIsNothingElse DEF ToVerificationError, ClaimReason, JwtReasons
  <2>10. judged # None /\ ToVerificationError(judged) = "expired" => judged = expired("exp")
    BY DEF ToVerificationError, ClaimReason
  <2> HIDE DEF judged, InTime, Young, Fit, expired
  <2>11. Verify(w, k, u) = IF judged # None THEN ToVerificationError(judged) ELSE None
    BY <1>4, <1>9, <2>6 DEF Verify
  <2>12. /\ Verify(w, k, u) = None <=> Fit /\ InTime /\ Young
         /\ Verify(w, k, u) = "expired" =>
              Seconds(u) >= Seconds(t) + s.ttlSeconds + w.toleranceSeconds
    BY <2>8, <2>9, <2>10, <2>11, NoneIsNothingElse DEF JwtReasons
  <2> QED BY <1>6, <1>9, <2>12 DEF InTime, Young, Fit
<1> QED BY <1>7, <1>8, <1>9

(* What is sent in the place of a token and is not it.                     *)
LEMMA ForgeryIsRefused ==
  ASSUME NEW s \in Signers, CreateJwtSigner(s) # Refused,
         NEW v \in Verifiers, NEW w, w = CreateJwtVerifier(v), w # Refused,
         NEW claims, NEW t, NEW u, NEW k, k = Sign(s, claims, t),
         NEW forgery \in Forgeries, NEW p, p = Presented(k, forgery), p # k
  PROVE  Verify(w, p, u) \notin {None, "expired"}
<1>1. /\ k = [segments |-> 3, signed |-> TRUE, header |-> [alg |-> s.algorithm, typ |-> s.typ],
              payload |-> k.payload, by |-> [alg |-> s.algorithm, material |-> s.key.material]]
      /\ s.algorithm \in Symmetric \cup Asymmetric
  BY SignerIsSound DEF Sign, Jws
<1>2. w.key = v.key /\ w.key.material # "stranger's" /\ w.algorithms = v.algorithms
  BY VerifierIsSound, KeysAssumption
<1>3. \A a \in Symmetric \cup Asymmetric \cup {"none"} :
        None # [alg |-> a, material |-> w.key.material]
  BY <1>2, NoneIsNothingElse
<1>4. CASE forgery = "none"
  BY <1>4 DEF Presented
<1>5. CASE forgery = "unsigned"
  <2>1. p = [k EXCEPT !.signed = FALSE, !.header.alg = "none", !.by = None]
    BY <1>5 DEF Presented
  <2>2. p.by = None /\ p.header.alg = "none"
    BY <1>1, <2>1
  <2> QED BY <1>3, <2>2, SignatureRefuses
<1>6. CASE forgery = "edited"
  <2>1. p = [k EXCEPT !.payload.sub = "somebody", !.by = None]
    BY <1>6 DEF Presented
  <2>2. p.by = None /\ p.header.alg = s.algorithm
    BY <1>1, <2>1
  <2> QED BY <1>1, <1>3, <2>2, SignatureRefuses
<1>7. CASE forgery = "stranger"
  <2>1. p = [k EXCEPT !.by.material = "stranger's"]
    BY <1>7 DEF Presented
  <2>2. p.by.material = "stranger's"
    BY <1>1, <2>1
  <2>3. p.by # [alg |-> p.header.alg, material |-> w.key.material]
    BY <1>2, <2>2
  <2> QED BY <2>3, SignatureRefuses
<1>8. CASE forgery = "confused"
  <2>1. PICK m : /\ m = IF k.by.alg \in Asymmetric THEN k.by.material ELSE "stranger's"
                 /\ p = [k EXCEPT !.header.alg = "HS256", !.by = [alg |-> "HS256", material |-> m]]
    BY <1>8 DEF Presented
  <2>2. /\ p.by = [alg |-> "HS256", material |-> m]
        /\ p.header = [alg |-> "HS256", typ |-> s.typ]
        /\ p.segments = 3 /\ p.signed
    BY <1>1, <2>1
  <2>3. CASE m # w.key.material
    <3>1. p.by # [alg |-> p.header.alg, material |-> w.key.material]
      BY <2>2, <2>3
    <3> QED BY <3>1, SignatureRefuses
  <2>4. CASE m = w.key.material
    <3>1. s.algorithm \in Asymmetric /\ s.key.material = v.key.material
      BY <1>1, <1>2, <2>1, <2>4
    <3>2. "HS256" \notin Range(w.algorithms)
      BY <3>1, VerifierIsSound, KeysAssumption
    <3>3. Field(p.header, "alg") = "HS256"
      BY <2>2 DEF Field
    <3>4. InspectProtectedHeader(p, w) # None
      BY <2>2, <3>2, <3>3, NoneIsNothingElse DEF InspectProtectedHeader, JwtReasons
    <3> QED BY <3>4, InspectionRefuses
  <2> QED BY <2>3, <2>4
<1>9. CASE forgery = "own key"
  <2>1. p = [k EXCEPT !.header = [alg |-> @.alg, typ |-> @.typ, jwk |-> "stranger's"],
                      !.by.material = "stranger's"]
    BY <1>9 DEF Presented
  <2>2. p.by.material = "stranger's"
    BY <1>1, <2>1
  <2>3. p.by # [alg |-> p.header.alg, material |-> w.key.material]
    BY <1>2, <2>2
  <2> QED BY <2>3, SignatureRefuses
<1>10. CASE forgery = "no alg"
  <2>1. p = [k EXCEPT !.header = [typ |-> @.typ]]
    BY <1>10 DEF Presented
  <2>2. "alg" \notin DOMAIN p.header
    BY <1>1, <2>1
  <2>3. Field(p.header, "alg") = None
    BY <2>2 DEF Field
  <2>4. InspectProtectedHeader(p, w) # None
    BY <2>3, NoneIsNothingElse DEF InspectProtectedHeader, JwtReasons, IsJwtAlgorithm
  <2> QED BY <2>4, InspectionRefuses
<1> QED BY <1>4, <1>5, <1>6, <1>7, <1>8, <1>9, <1>10 DEF Forgeries

LEMMA TokensStep == ExchangesNext => TokensAreBelieved'
<1> SUFFICES ASSUME ExchangesNext PROVE TokensAreBelieved'
  OBVIOUS
<1>1. CASE ChecksToken
  <2>1. PICK s \in Signers, v \in Verifiers, claims \in ClaimSets, forgery \in Forgeries,
             t \in Moments, u \in Moments :
          LET signer == CreateJwtSigner(s)
              verifier == CreateJwtVerifier(v)
              token == Sign(signer, claims, t)
          IN  /\ signer # Refused /\ verifier # Refused /\ IsNonEmptyString(claims.sub)
              /\ call' = [op |-> "token", signer |-> signer, verifier |-> verifier, claims |-> claims,
                          genuine |-> Presented(token, forgery) = token,
                          signedAt |-> t, checkedAt |-> u,
                          payload |-> token.payload,
                          answer |-> Verify(verifier, Presented(token, forgery), u)]
    BY <1>1 DEF ChecksToken
  <2>2. PICK w, k, p : /\ w = CreateJwtVerifier(v) /\ k = Sign(s, claims, t)
                       /\ p = Presented(k, forgery)
    OBVIOUS
  <2>3. CreateJwtSigner(s) # Refused /\ CreateJwtSigner(s) = s /\ w # Refused
        /\ IsNonEmptyString(claims.sub)
    BY <2>1, <2>2, SignerIsSound
  <2>4. call' = [op |-> "token", signer |-> s, verifier |-> w, claims |-> claims,
                 genuine |-> (p = k), signedAt |-> t, checkedAt |-> u,
                 payload |-> k.payload, answer |-> Verify(w, p, u)]
    BY <2>1, <2>2, <2>3
  <2>5. /\ Verify(w, p, u) = None <=> p = k /\ Fits(w, s)' /\ InItsTime(w, s)'
        /\ Verify(w, p, u) = "expired" =>
             p = k /\ Seconds(u) >= Seconds(t) + s.ttlSeconds + w.toleranceSeconds
    <3>1. CASE p # k
      BY <2>2, <2>3, <3>1, ForgeryIsRefused
    <3>2. CASE p = k
      <4>1. /\ Fits(w, s)' <=>
                 /\ s.algorithm \in Range(w.algorithms)
                 /\ s.key.material = w.key.material
                 /\ s.issuer \in w.issuers /\ s.audience \cap w.audience # {}
                 /\ w.expectedTyp \in {None, s.typ}
                 /\ w.requiredClaims \subseteq DOMAIN k.payload
            /\ InItsTime(w, s)' <=>
                 /\ Seconds(u) - Seconds(t) < s.ttlSeconds + w.toleranceSeconds
                 /\ w.maxAgeSeconds # None =>
                      Seconds(u) - Seconds(t) \in
                        0 - w.toleranceSeconds .. w.maxAgeSeconds + w.toleranceSeconds
        BY <2>4 DEF Fits, InItsTime, Range
      <4> QED BY <2>2, <2>3, <3>2, <4>1, GenuineIsJudged
    <3> QED BY <3>1, <3>2
  <2>6. k.payload.sub = claims.sub
    <3>1. Holds(k, s, claims, t)
      BY <2>2, WhatIsSigned
    <3> QED BY <3>1 DEF Holds
  <2> QED BY <2>4, <2>5, <2>6 DEF TokensAreBelieved
<1>2. CASE AnswersFailure \/ AnswersRequest \/ WritesLog
  <2>1. call'.op # "token"
    BY <1>2 DEF AnswersFailure, AnswersRequest, WritesLog
  <2> QED BY <2>1 DEF TokensAreBelieved, Is
<1> QED BY <1>1, <1>2 DEF ExchangesNext

(* jwt.ts:255 and 351: whatever the signers, the verifiers, the claims, the *)
(* two clocks and what is sent in the place of a token: a verifier believes *)
(* what it should of a signer it fits, in its time, and nothing else.       *)
THEOREM NothingElseIsBelieved == ExchangesSpec => []TokensAreBelieved
<1>1. call = None => TokensAreBelieved
  BY DEF TokensAreBelieved, Is
<1>2. TokensAreBelieved /\ UNCHANGED call => TokensAreBelieved'
  BY DEF TokensAreBelieved, Is, Fits, InItsTime
<1>3. TokensAreBelieved /\ [ExchangesNext]_call => TokensAreBelieved'
  BY <1>2, TokensStep
<1> QED BY <1>1, <1>3, PTL DEF ExchangesSpec

-----------------------------------------------------------------------------
(* Answers.                                                                *)

(* A chain of causes that is one.                                          *)
IsChain(links) ==
  /\ Len(links) \in Nat \ {0} /\ DOMAIN links = 1 .. Len(links)
  /\ \A i \in DOMAIN links : IsLink(links[i])

LEMMA SmallerOfTwo ==
  ASSUME NEW a \in Int, NEW b \in Int
  PROVE  Min({a, b}) = IF a <= b THEN a ELSE b
BY DEF Min

(* What a link is after the wire.                                          *)
LEMMA LinkIsRevived ==
  ASSUME NEW link, IsLink(link)
  PROVE  /\ ReviveLink(SerializeLink(link)) =
              IF link.type = "primitive"
              THEN [type |-> "error", name |-> "NonError", message |-> link.value]
              ELSE link
         /\ link.type = "app" =>
              {"name", "message", "code", "httpStatus"} \subseteq DOMAIN SerializeLink(link)
<1>1. CASE link.type = "app"
  <2>1. /\ link = [type |-> "app", kind |-> link.kind, name |-> link.name,
                    message |-> link.message, code |-> link.code,
                    httpStatus |-> link.httpStatus, details |-> link.details]
        /\ link.kind \in DOMAIN ErrorConstructors
    BY <1>1 DEF IsLink
  <2>2. SerializeLink(link) =
          [name |-> link.name, message |-> link.message, kind |-> link.kind, code |-> link.code,
           httpStatus |-> link.httpStatus, details |-> link.details]
    BY <1>1 DEF SerializeLink
  <2>3. ReviveLink(SerializeLink(link)) =
          [type |-> "app", name |-> link.name, message |-> link.message, kind |-> link.kind,
           code |-> link.code, httpStatus |-> link.httpStatus, details |-> link.details]
    BY <2>1, <2>2 DEF ReviveLink
  <2>4. ReviveLink(SerializeLink(link)) = link
    BY <2>1, <2>3
  <2> QED BY <1>1, <2>2, <2>4
<1>2. CASE link.type = "error"
  <2>1. link = [type |-> "error", name |-> link.name, message |-> link.message]
    BY <1>2 DEF IsLink
  <2>2. SerializeLink(link) = [name |-> link.name, message |-> link.message]
    BY <1>2 DEF SerializeLink
  <2> QED BY <1>2, <2>1, <2>2 DEF ReviveLink
<1>3. CASE link.type = "primitive"
  <2>1. SerializeLink(link) = [name |-> "NonError", message |-> link.value]
    BY <1>3 DEF SerializeLink
  <2> QED BY <1>3, <2>1 DEF ReviveLink
<1> QED BY <1>1, <1>2, <1>3 DEF IsLink

(* What is answered for a failure is an AppError, with its causes.         *)
LEMMA NormalIsChain ==
  ASSUME NEW error \in Failures, NEW n, n = NormalizeError(error)
  PROVE  /\ IsChain(n.links) /\ n.links[1].type = "app"
         /\ n.links[1].httpStatus \in Nat \ 200 .. 299
         /\ n.links[1].message =
              IF IsAppError(error) THEN error.links[1].message ELSE "unexpected"
<1>1. PICK e : e = error.links
  OBVIOUS
<1>2. /\ e \in Seq(Range(e)) /\ e # << >>
      /\ \A i \in DOMAIN e : IsLink(e[i])
      /\ IsAppError(error) => e[1].httpStatus \in Nat \ 200 .. 299
  <2>1. /\ error.links \in Seq(Range(error.links)) /\ error.links # << >>
        /\ \A i \in DOMAIN error.links : IsLink(error.links[i])
        /\ IsAppError(error) => error.links[1].httpStatus \in Nat \ 200 .. 299
    BY ZenonT(30), FailuresAssumption
  <2> QED BY ZenonT(30), <1>1, <2>1
<1>3. Len(e) \in Nat \ {0} /\ DOMAIN e = 1 .. Len(e)
  BY <1>2
<1>4. CASE IsAppError(error)
  <2>1. n.links = e
    BY <1>1, <1>4 DEF NormalizeError
  <2>2. IsChain(n.links)
    BY <1>2, <1>3, <2>1 DEF IsChain
  <2>3. n.links[1].type = "app"
    BY <1>1, <1>4, <2>1 DEF IsAppError
  <2> QED BY <1>1, <1>2, <1>4, <2>1, <2>2, <2>3
<1>5. CASE ~ IsAppError(error)
  <2> DEFINE top == [type |-> "app", kind |-> "AppError", name |-> "AppError",
                     message |-> "unexpected", code |-> "INTERNAL_ERROR", httpStatus |-> 500,
                     details |-> None]
  <2>1. n.links = << top >> \o e
    BY <1>1, <1>5 DEF NormalizeError, AppError, Because, ErrorConstructors, AppErrorDefaults
  <2>2. IsLink(top)
    BY DEF IsLink, ErrorConstructors
  <2>3. top.type = "app" /\ top.httpStatus = 500 /\ top.message = "unexpected"
    OBVIOUS
  <2> HIDE DEF top
  <2>4. PICK S : S = Range(e) \cup {top}
    OBVIOUS
  <2>5. << top >> \in Seq(S) /\ e \in Seq(S)
    BY <1>2, <2>4
  <2>6. /\ Len(<< top >> \o e) = 1 + Len(e) /\ DOMAIN (<< top >> \o e) = 1 .. 1 + Len(e)
        /\ (<< top >> \o e)[1] = top
        /\ \A i \in 2 .. 1 + Len(e) : (<< top >> \o e)[i] = e[i - 1]
    BY <1>3, <2>5
  <2>7. ASSUME NEW i \in 1 .. 1 + Len(e) PROVE IsLink(n.links[i])
    <3>1. CASE i = 1
      BY <2>1, <2>2, <2>6, <3>1
    <3>2. CASE i # 1
      <4>1. i \in 2 .. 1 + Len(e) /\ i - 1 \in DOMAIN e
        BY <1>3, <3>2
      <4> QED BY <1>2, <2>1, <2>6, <4>1
    <3> QED BY <3>1, <3>2
  <2>8. IsChain(n.links)
    BY <1>3, <2>1, <2>6, <2>7 DEF IsChain
  <2>9. n.links[1] = top
    BY <2>1, <2>6
  <2> QED BY <1>5, <2>3, <2>8, <2>9
<1> QED BY <1>4, <1>5

(* Sent and revived, it is what it was, as far as it is sent.              *)
IsRevived(r, links) ==
  /\ r.ok
  /\ Len(r.value.links) = IF Len(links) > MaxCauseDepth THEN MaxCauseDepth + 1 ELSE Len(links)
  /\ \A i \in DOMAIN r.value.links :
       r.value.links[i] = IF links[i].type = "primitive"
                          THEN [type |-> "error", name |-> "NonError", message |-> links[i].value]
                          ELSE links[i]

LEMMA ChainIsRevived ==
  ASSUME NEW n, IsChain(n.links), n.links[1].type = "app",
         NEW r, r = FromJSON(ToJSON(n))
  PROVE  IsRevived(r, n.links)
<1>1. PICK links, m : links = n.links /\ m = Min({Len(links), MaxCauseDepth + 1})
  OBVIOUS
<1>2. /\ m \in Nat \ {0} /\ m <= Len(links) /\ m <= MaxCauseDepth + 1 /\ MaxCauseDepth \in Nat
      /\ m = IF Len(links) > MaxCauseDepth THEN MaxCauseDepth + 1 ELSE Len(links)
  BY <1>1, SmallerOfTwo, MaxCauseDepthAssumption DEF IsChain
<1>3. PICK json : json = [i \in 1 .. m |-> SerializeLink(links[i])]
  OBVIOUS
<1>4. json = ToJSON(n)
  BY <1>1, <1>3 DEF ToJSON
<1>5. Len(json) = m
  BY <1>2, <1>3
<1>6. Min({Len(json), MaxCauseDepth + 1}) = m
  BY <1>2, <1>5, SmallerOfTwo
<1>7. {"name", "message", "code", "httpStatus"} \subseteq DOMAIN json[1]
  <2>1. json[1] = SerializeLink(links[1]) /\ IsLink(links[1]) /\ links[1].type = "app"
    BY <1>1, <1>2, <1>3 DEF IsChain
  <2> QED BY <2>1, LinkIsRevived
<1>8. json # << >>
  BY <1>2, <1>5
<1>9. PICK back : back = [i \in 1 .. m |-> ReviveLink(json[i])]
  OBVIOUS
<1>10. r = [ok |-> TRUE, value |-> [links |-> back, again |-> FALSE]]
  BY <1>4, <1>6, <1>7, <1>8, <1>9 DEF FromJSON
<1>11. Len(back) = m /\ DOMAIN back = 1 .. m
  BY <1>2, <1>9
<1>12. ASSUME NEW i \in 1 .. m
       PROVE  back[i] = IF links[i].type = "primitive"
                        THEN [type |-> "error", name |-> "NonError", message |-> links[i].value]
                        ELSE links[i]
  <2>1. back[i] = ReviveLink(SerializeLink(links[i])) /\ IsLink(links[i])
    BY <1>1, <1>2, <1>3, <1>9 DEF IsChain
  <2> QED BY <2>1, LinkIsRevived
<1>13. r.ok /\ r.value.links = back
  BY <1>10
<1> QED BY <1>1, <1>2, <1>11, <1>12, <1>13 DEF IsRevived

(* An error is answered with its status and its message.                   *)
LEMMA ErrorIsAnswered ==
  ASSUME NEW error, NEW opts, NEW n, n = NormalizeError(error),
         NEW r, r = BuildErrorResponse(error, opts),
         n.links[1].httpStatus \in Nat \ 200 .. 299
  PROVE  /\ r.status = n.links[1].httpStatus
         /\ r.body.error.detail = n.links[1].message
         /\ r.body = ToErrorEnvelope(error, opts)
         /\ ~ ApiResult(r).ok /\ ApiResult(r).status = r.status
<1>1. /\ r.status = n.links[1].httpStatus
      /\ r.body.error.detail = n.links[1].message
      /\ r.body = ToErrorEnvelope(error, opts)
  BY DEF BuildErrorResponse, ToErrorEnvelope, ToProblemDetails
<1>2. r.status \notin 200 .. 299
  BY <1>1
<1> QED BY <1>1, <1>2 DEF ApiResult

LEMMA FailureStep == AnswersFailure => ErrorsSurviveTheWire'
<1> SUFFICES ASSUME AnswersFailure PROVE ErrorsSurviveTheWire'
  OBVIOUS
<1>1. PICK error \in Failures, opts \in Options :
        LET response == BuildErrorResponse(error, opts)
            normal == NormalizeError(error)
        IN  call' = [op |-> "failure", error |-> error, normal |-> normal, response |-> response,
                     revived |-> FromJSON(ToJSON(normal)), answer |-> ApiResult(response)]
  BY DEF AnswersFailure
<1>2. PICK n, r, j : /\ n = NormalizeError(error) /\ r = BuildErrorResponse(error, opts)
                     /\ j = FromJSON(ToJSON(n))
  OBVIOUS
<1>3. call' = [op |-> "failure", error |-> error, normal |-> n, response |-> r,
               revived |-> j, answer |-> ApiResult(r)]
  BY <1>1, <1>2
<1>4. /\ IsChain(n.links) /\ n.links[1].type = "app"
      /\ n.links[1].httpStatus \in Nat \ 200 .. 299
      /\ n.links[1].message =
           IF IsAppError(error) THEN error.links[1].message ELSE "unexpected"
  BY <1>2, NormalIsChain
<1>5. /\ r.status = n.links[1].httpStatus
      /\ r.body.error.detail = n.links[1].message
      /\ ~ ApiResult(r).ok /\ ApiResult(r).status = r.status
  BY <1>2, <1>4, ErrorIsAnswered
<1>6. IsRevived(j, n.links)
  BY <1>2, <1>4, ChainIsRevived
<1>7. PICK a, links, revived, detail :
        /\ a = ApiResult(r) /\ links = n.links /\ revived = j.value.links
        /\ detail = r.body.error.detail
  OBVIOUS
<1>8. /\ call'.op = "failure" /\ call'.error = error /\ call'.normal.links = links
      /\ call'.answer = a /\ call'.revived.ok = j.ok /\ call'.revived.value.links = revived
      /\ call'.response.body.error.detail = detail
  BY <1>3, <1>7
<1>9. /\ detail = IF IsAppError(error) THEN error.links[1].message ELSE "unexpected"
      /\ ~ a.ok /\ a.status = links[1].httpStatus
  BY <1>4, <1>5, <1>7
<1>10. /\ j.ok
       /\ Len(revived) = IF Len(links) > MaxCauseDepth THEN MaxCauseDepth + 1 ELSE Len(links)
       /\ \A i \in DOMAIN revived :
            revived[i] = IF links[i].type = "primitive"
                         THEN [type |-> "error", name |-> "NonError", message |-> links[i].value]
                         ELSE links[i]
  BY <1>6, <1>7 DEF IsRevived
<1> QED BY <1>8, <1>9, <1>10 DEF ErrorsSurviveTheWire, Is

(* A refusal of a request has the status of an error, whatever caused it.  *)
IsSomeChain(e) == \E S : e.links \in Seq(S)
TopIs(e, link) == IsSomeChain(e) /\ e.links[1] = link

LEMMA TopOfChain ==
  ASSUME NEW link, NEW cause, IsSomeChain(cause), NEW e, e = Because(link, cause)
  PROVE  TopIs(e, link)
<1>1. e.links = << link >> \o cause.links
  BY DEF Because
<1>2. PICK S : cause.links \in Seq(S)
  BY DEF IsSomeChain
<1>3. << link >> \in Seq(S \cup {link}) /\ cause.links \in Seq(S \cup {link})
  BY <1>2
<1>4. e.links \in Seq(S \cup {link}) /\ e.links[1] = link
  BY <1>1, <1>3
<1> QED BY <1>4 DEF TopIs, IsSomeChain

LEMMA ForeignIsChain ==
  ASSUME NEW name, NEW message, NEW e, e = Foreign(name, message, NoCause)
  PROVE  IsSomeChain(e) /\ e.links[1].type = "error"
<1>1. PICK link : link = [type |-> "error", name |-> name, message |-> message]
  OBVIOUS
<1>2. PICK cause : cause = NoCause
  OBVIOUS
<1>3. cause.links = << >>
  BY <1>2 DEF NoCause
<1>4. IsSomeChain(cause)
  <2>1. cause.links \in Seq({})
    BY <1>3
  <2> QED BY <2>1 DEF IsSomeChain
<1>5. e = Because(link, cause)
  BY <1>1, <1>2 DEF Foreign
<1>6. TopIs(e, link)
  BY <1>4, <1>5, TopOfChain
<1>7. link.type = "error"
  BY <1>1
<1> QED BY <1>6, <1>7 DEF TopIs

AnsweredWith(e, status) == NormalizeError(e).links[1].httpStatus = status

LEMMA ValidationStatus ==
  ASSUME NEW message, NEW code, NEW details, NEW cause, IsSomeChain(cause),
         NEW e, e = ValidationError(message, code, details, cause)
  PROVE  AnsweredWith(e, 400)
<1>1. PICK link : link = [type |-> "app", kind |-> "ValidationError", name |-> "ValidationError",
                          message |-> message,
                          code |-> IF code = None THEN "VALIDATION_ERROR" ELSE code,
                          httpStatus |-> 400, details |-> details]
  OBVIOUS
<1>2. e = Because(link, cause)
  BY <1>1 DEF ValidationError, AppError, ErrorConstructors, ValidationDefaults
<1>3. e.links[1] = link
  BY <1>2, TopOfChain DEF TopIs
<1>4. link.type = "app" /\ link.httpStatus = 400
  BY <1>1
<1> QED BY <1>3, <1>4 DEF AnsweredWith, NormalizeError, IsAppError

LEMMA ParserStatus ==
  ASSUME NEW e, e = BodyParserError
  PROVE  IsSomeChain(e) /\ NormalizeError(e).links[1].httpStatus = 500
<1>1. IsSomeChain(e) /\ e.links[1].type = "error"
  <2>1. PICK message : message = Malformed
    OBVIOUS
  <2>2. e = Foreign("SyntaxError", message, NoCause)
    BY <2>1 DEF BodyParserError
  <2> QED BY <2>2, ForeignIsChain
<1>2. PICK link : link = [type |-> "app", kind |-> "AppError", name |-> "AppError",
                          message |-> "unexpected", code |-> "INTERNAL_ERROR",
                          httpStatus |-> 500, details |-> None]
  OBVIOUS
<1>3. PICK n : n = NormalizeError(e)
  OBVIOUS
<1>4. n = Because(link, e)
  <2>1. n = AppError("AppError", "AppError", "unexpected", "INTERNAL_ERROR", 500, None, e)
    BY <1>1, <1>3 DEF NormalizeError, IsAppError
  <2> QED BY <2>1, <1>2 DEF AppError, ErrorConstructors, AppErrorDefaults
<1>5. n.links[1] = link
  BY <1>1, <1>4, TopOfChain DEF TopIs
<1> QED BY <1>1, <1>2, <1>3, <1>5

(* What a request is answered.                                             *)
LEMMA RequestStep == AnswersRequest => ErrorsSurviveTheWire'
<1> SUFFICES ASSUME AnswersRequest PROVE ErrorsSurviveTheWire'
  OBVIOUS
<1>1. PICK framework \in {"express", "fastify", "hono"}, config \in Configs,
           request \in Requests, opts \in Options :
        LET valid == ValidateRequest(framework, config, request)
            response == IF valid.ok THEN BuildSuccessResponse(valid.value, 200)
                        ELSE BuildErrorResponse(valid.error, opts)
        IN  call' = [op |-> "request", framework |-> framework, config |-> config,
                     request |-> request, envelope |-> EnvelopeFromResult(valid, opts),
                     response |-> response, answer |-> ApiResult(response)]
  BY DEF AnswersRequest
<1>2. PICK valid, r : /\ valid = ValidateRequest(framework, config, request)
                      /\ r = IF valid.ok THEN BuildSuccessResponse(valid.value, 200)
                             ELSE BuildErrorResponse(valid.error, opts)
  OBVIOUS
<1>3. call' = [op |-> "request", framework |-> framework, config |-> config, request |-> request,
               envelope |-> EnvelopeFromResult(valid, opts), response |-> r,
               answer |-> ApiResult(r)]
  BY <1>1, <1>2
<1> DEFINE Parsed == framework # "hono" \/ config.target = "body"
           Accepted == /\ ~ (Parsed /\ request.body = Malformed)
                       /\ request[config.target] \in config.schema
<1>4. /\ valid.ok <=> Accepted
      /\ valid.ok => valid.value = request[config.target]
      /\ ~ valid.ok => NormalizeError(valid.error).links[1].httpStatus \in Nat \ 200 .. 299
  <2>1. PICK x : x = IF framework = "hono" THEN ExtractHono(request, config.target)
                     ELSE ExtractTarget(request, config.target)
    OBVIOUS
  <2>2. valid = IF x.ok THEN RunValidation(config, x.value) ELSE x
    BY <1>2, <2>1 DEF ValidateRequest
  <2>3. /\ x.ok <=> ~ (Parsed /\ request.body = Malformed)
        /\ x.ok => x.value = request[config.target]
    BY <2>1 DEF ExtractHono, ExtractTarget, Ok, Err
  <2>4. CASE x.ok
    <3>1. PICK y, target : y = x.value /\ target = config.target
      OBVIOUS
    <3>2. PICK message, code, name, cause, e :
            /\ message = "Request validation failed" /\ code = "REQUEST_VALIDATION_FAILED"
            /\ name = "SchemaError" /\ cause = Foreign(name, y, NoCause)
            /\ e = ValidationError(message, code, target, cause)
      OBVIOUS
    <3>3. valid = IF y \in config.schema THEN Ok(y) ELSE Err(e)
      BY <2>2, <2>4, <3>1, <3>2 DEF RunValidation
    <3>4. NormalizeError(e).links[1].httpStatus = 400
      <4>1. IsSomeChain(cause)
        BY <3>2, ForeignIsChain
      <4>2. AnsweredWith(e, 400)
        BY ZenonT(60), <3>2, <4>1, ValidationStatus
      <4> QED BY <4>2 DEF AnsweredWith
    <3>5. y = request[config.target] /\ (Accepted <=> y \in config.schema)
      BY <2>3, <2>4, <3>1
    <3>6. CASE y \in config.schema
      <4>1. valid.ok /\ valid.value = y
        BY <3>3, <3>6 DEF Ok
      <4> QED BY <3>5, <3>6, <4>1
    <3>7. CASE y \notin config.schema
      <4>1. ~ valid.ok /\ valid.error = e
        BY <3>3, <3>7 DEF Err
      <4> QED BY <3>4, <3>5, <3>7, <4>1
    <3> QED BY <3>6, <3>7
  <2>5. CASE ~ x.ok
    <3>1. PICK message, code, target, parser, e :
            /\ message = "Request body is not valid JSON" /\ code = "INVALID_JSON_BODY"
            /\ target = "body" /\ parser = BodyParserError
            /\ e = ValidationError(message, code, target, parser)
      OBVIOUS
    <3>2. x = Err(parser) \/ x = Err(e)
      BY <2>1, <2>5, <3>1 DEF ExtractHono, ExtractTarget, Ok
    <3>3. x.error = parser \/ x.error = e
      BY <3>2 DEF Err
    <3>4. NormalizeError(parser).links[1].httpStatus = 500 /\ IsSomeChain(parser)
      <4>1. parser = BodyParserError
        BY <3>1
      <4> QED BY ONLY <4>1, ParserStatus
    <3>5. NormalizeError(e).links[1].httpStatus = 400
      <4>1. AnsweredWith(e, 400)
        BY ZenonT(60), <3>1, <3>4, ValidationStatus
      <4> QED BY <4>1 DEF AnsweredWith
    <3>6. NormalizeError(x.error).links[1].httpStatus \in {400, 500}
      BY <3>3, <3>4, <3>5
    <3>7. valid = x /\ ~ Accepted
      BY <2>2, <2>3, <2>5
    <3> QED BY <2>5, <3>6, <3>7
  <2> QED BY <2>4, <2>5
<1>5. CASE valid.ok
  <2>1. r = [status |-> 200, body |-> ToSuccessEnvelope(valid.value),
             contentType |-> "application/json"]
    BY <1>2, <1>5 DEF BuildSuccessResponse
  <2>2. /\ ApiResult(r).ok /\ ApiResult(r).value = ToSuccessEnvelope(valid.value)
        /\ r.body = ToSuccessEnvelope(valid.value)
    BY <2>1 DEF ApiResult, ParseResponseBody
  <2>3. EnvelopeFromResult(valid, opts) = ToSuccessEnvelope(valid.value)
    BY <1>5 DEF EnvelopeFromResult
  <2>4. ToSuccessEnvelope(valid.value).data = request[config.target]
    BY <1>4, <1>5 DEF ToSuccessEnvelope
  <2> QED BY <1>3, <1>4, <1>5, <2>2, <2>3, <2>4 DEF ErrorsSurviveTheWire, Is
<1>6. CASE ~ valid.ok
  <2>1. PICK e : e = valid.error
    OBVIOUS
  <2>2. /\ r = BuildErrorResponse(e, opts)
        /\ EnvelopeFromResult(valid, opts) = ToErrorEnvelope(e, opts)
    BY <1>2, <1>6, <2>1 DEF EnvelopeFromResult
  <2>3. r.body = ToErrorEnvelope(e, opts) /\ ~ ApiResult(r).ok
    BY <1>4, <1>6, <2>1, <2>2, ErrorIsAnswered
  <2> QED BY <1>3, <1>4, <1>6, <2>2, <2>3 DEF ErrorsSurviveTheWire, Is
<1> QED BY <1>5, <1>6

(* errors.ts:330 and 357, normalize-error.ts:24, and client.ts of           *)
(* http-client: whatever a handler throws, with however long a chain of     *)
(* causes, and whatever is asked of a framework: the error comes through to *)
(* the depth that is sent, what is no AppError says nothing of itself, and  *)
(* the client is told of a failure exactly where there was one.             *)
THEOREM AnswersAreTrue == ExchangesSpec => []ErrorsSurviveTheWire
<1>1. call = None => ErrorsSurviveTheWire
  BY DEF ErrorsSurviveTheWire, Is
<1>2. ErrorsSurviveTheWire /\ UNCHANGED call => ErrorsSurviveTheWire'
  BY DEF ErrorsSurviveTheWire, Is
<1>3. ChecksToken \/ WritesLog => ErrorsSurviveTheWire'
  BY DEF ChecksToken, WritesLog, ErrorsSurviveTheWire, Is
<1>4. ErrorsSurviveTheWire /\ [ExchangesNext]_call => ErrorsSurviveTheWire'
  BY <1>2, <1>3, FailureStep, RequestStep DEF ExchangesNext
<1> QED BY <1>1, <1>4, PTL DEF ExchangesSpec

-----------------------------------------------------------------------------
(***************************************************************************)
(* The log.  RedactValue computes, level by level, what every value of a   *)
(* heap becomes, and TextsIn what is so far down in a value: as for the    *)
(* conditions of a policy, there is a function for every number of levels. *)
(* What no key hides becomes a set of values that holds whatever is in one *)
(* of them, and no secret.                                                 *)
(***************************************************************************)

RedactLevel(f, n, heap, opts) ==
  [v \in ValuesOf(heap) |->
     [ancestors \in SUBSET DOMAIN heap |->
        IF n = 0 THEN Marker("MaxDepthExceeded")
        ELSE RedactOne(heap, v, opts, ancestors, f[n - 1])]]

IsRedaction(n, f, heap, opts) == f = [m \in 0 .. n |-> RedactLevel(f, m, heap, opts)]

(* There is one for every number of levels.                                *)
LEMMA RedactionExists ==
  ASSUME NEW heap, NEW opts
  PROVE  \A n \in Nat : \E f : IsRedaction(n, f, heap, opts)
<1> DEFINE S == {n \in Nat : \E f : IsRedaction(n, f, heap, opts)}
<1>1. 0 \in S
  <2> DEFINE f == [m \in 0 .. 0 |->
                     [v \in ValuesOf(heap) |->
                        [ancestors \in SUBSET DOMAIN heap |-> Marker("MaxDepthExceeded")]]]
  <2>1. \A m \in 0 .. 0 : m = 0
    OBVIOUS
  <2>2. f = [m \in 0 .. 0 |-> RedactLevel(f, m, heap, opts)]
    BY <2>1 DEF RedactLevel
  <2> QED BY <2>2 DEF IsRedaction
<1>2. ASSUME NEW n \in Nat, n \in S PROVE n + 1 \in S
  <2>1. PICK f : IsRedaction(n, f, heap, opts)
    BY <1>2
  <2> DEFINE g == [m \in 0 .. n + 1 |-> IF m = n + 1 THEN RedactLevel(f, m, heap, opts) ELSE f[m]]
  <2>2. ASSUME NEW m \in 0 .. n + 1 PROVE g[m] = RedactLevel(g, m, heap, opts)
    <3>1. RedactLevel(g, m, heap, opts) = RedactLevel(f, m, heap, opts)
      <4>1. CASE m = 0
        BY <4>1 DEF RedactLevel
      <4>2. CASE m # 0
        <5>1. g[m - 1] = f[m - 1]
          BY <4>2
        <5> HIDE DEF g
        <5> QED BY <5>1 DEF RedactLevel
      <4> QED BY <4>1, <4>2
    <3>2. CASE m = n + 1
      BY <3>1, <3>2
    <3>3. CASE m # n + 1
      <4>1. m \in 0 .. n
        BY <3>3
      <4>2. f[m] = RedactLevel(f, m, heap, opts)
        BY <2>1, <4>1 DEF IsRedaction
      <4> QED BY <3>1, <3>3, <4>2
    <3> QED BY <3>2, <3>3
  <2>3. g = [m \in 0 .. n + 1 |-> g[m]]
    OBVIOUS
  <2>4. IsRedaction(n + 1, g, heap, opts)
    <3> HIDE DEF g
    <3> QED BY <2>2, <2>3 DEF IsRedaction
  <2> QED BY <2>4
<1>3. Nat \subseteq S
  <2> HIDE DEF S
  <2> QED BY <1>1, <1>2, NatSetInduction
<1> QED BY <1>3

(* RedactValue takes what one of them says of the last level.              *)
LEMMA RedactValueIsRedaction ==
  ASSUME NEW heap, NEW opts, opts.maxDepth \in Nat
  PROVE  \E f : /\ IsRedaction(opts.maxDepth + 1, f, heap, opts)
                /\ \A v : RedactValue(heap, v, opts) = f[opts.maxDepth + 1][v][{}]
<1> DEFINE f == CHOOSE f : IsRedaction(opts.maxDepth + 1, f, heap, opts)
<1>1. IsRedaction(opts.maxDepth + 1, f, heap, opts)
  <2>1. \E g : IsRedaction(opts.maxDepth + 1, g, heap, opts)
    BY RedactionExists
  <2> QED BY <2>1
<1>2. \A v : RedactValue(heap, v, opts) = f[opts.maxDepth + 1][v][{}]
  BY DEF RedactValue, IsRedaction, RedactLevel
<1> QED BY <1>1, <1>2

SeenAt(f, n, value) ==
  IF n = 0 THEN {value} ELSE UNION {{v} \cup PartsOf(v) : v \in f[n - 1]}

IsSeen(n, f, value) == f = [m \in 0 .. n |-> SeenAt(f, m, value)]

(* And one that goes so many levels down.                                  *)
LEMMA SeenExists ==
  ASSUME NEW value
  PROVE  \A n \in Nat : \E f : IsSeen(n, f, value)
<1> DEFINE S == {n \in Nat : \E f : IsSeen(n, f, value)}
<1>1. 0 \in S
  <2> DEFINE f == [m \in 0 .. 0 |-> {value}]
  <2>1. \A m \in 0 .. 0 : m = 0
    OBVIOUS
  <2>2. f = [m \in 0 .. 0 |-> SeenAt(f, m, value)]
    BY <2>1 DEF SeenAt
  <2> QED BY <2>2 DEF IsSeen
<1>2. ASSUME NEW n \in Nat, n \in S PROVE n + 1 \in S
  <2>1. PICK f : IsSeen(n, f, value)
    BY <1>2
  <2> DEFINE g == [m \in 0 .. n + 1 |-> IF m = n + 1 THEN SeenAt(f, m, value) ELSE f[m]]
  <2>2. ASSUME NEW m \in 0 .. n + 1 PROVE g[m] = SeenAt(g, m, value)
    <3>1. SeenAt(g, m, value) = SeenAt(f, m, value)
      <4>1. CASE m = 0
        BY <4>1 DEF SeenAt
      <4>2. CASE m # 0
        <5>1. g[m - 1] = f[m - 1]
          BY <4>2
        <5> HIDE DEF g
        <5> QED BY <5>1 DEF SeenAt
      <4> QED BY <4>1, <4>2
    <3>2. CASE m = n + 1
      BY <3>1, <3>2
    <3>3. CASE m # n + 1
      <4>1. m \in 0 .. n
        BY <3>3
      <4>2. f[m] = SeenAt(f, m, value)
        BY <2>1, <4>1 DEF IsSeen
      <4> QED BY <3>1, <3>3, <4>2
    <3> QED BY <3>2, <3>3
  <2>3. g = [m \in 0 .. n + 1 |-> g[m]]
    OBVIOUS
  <2>4. IsSeen(n + 1, g, value)
    <3> HIDE DEF g
    <3> QED BY <2>2, <2>3 DEF IsSeen
  <2> QED BY <2>4
<1>3. Nat \subseteq S
  <2> HIDE DEF S
  <2> QED BY <1>1, <1>2, NatSetInduction
<1> QED BY <1>3

(* Holds all that is in what it holds, and no secret but those of T.       *)
Harmless(S, T) ==
  \A x \in S : (x.is = "text" /\ x.secret => x \in T) /\ PartsOf(x) \subseteq S

(* A secret found in one of a harmless set, however far down, is one of T. *)
LEMMA NoSecretIsSeen ==
  ASSUME NEW S, NEW T, Harmless(S, T), NEW value \in S, NEW depth \in Nat
  PROVE  \A text \in TextsIn(value, depth) : text.secret => text \in T
<1> DEFINE f == CHOOSE f : IsSeen(depth, f, value)
<1>1. IsSeen(depth, f, value)
  <2>1. \E g : IsSeen(depth, g, value)
    BY SeenExists
  <2> QED BY <2>1
<1>2. TextsIn(value, depth) = {v \in f[depth] : v.is = "text"}
  BY DEF TextsIn, IsSeen, SeenAt
<1> HIDE DEF f
<1> DEFINE N == {n \in Nat : n <= depth => f[n] \subseteq S}
<1>3. 0 \in N
  <2>1. f[0] = {value}
    BY <1>1 DEF IsSeen, SeenAt
  <2> QED BY <2>1
<1>4. ASSUME NEW n \in Nat, n \in N PROVE n + 1 \in N
  <2> SUFFICES ASSUME n + 1 <= depth PROVE f[n + 1] \subseteq S
    OBVIOUS
  <2>1. f[n + 1] = UNION {{v} \cup PartsOf(v) : v \in f[n]}
    <3>1. f[n + 1] = SeenAt(f, n + 1, value)
      BY <1>1 DEF IsSeen
    <3>2. n + 1 # 0 /\ (n + 1) - 1 = n
      OBVIOUS
    <3> QED BY <3>1, <3>2 DEF SeenAt
  <2>2. f[n] \subseteq S
    BY <1>4
  <2>3. \A v \in f[n] : {v} \cup PartsOf(v) \subseteq S
    BY <2>2 DEF Harmless
  <2> QED BY <2>1, <2>3
<1>5. Nat \subseteq N
  <2> HIDE DEF N
  <2> QED BY <1>3, <1>4, NatSetInduction
<1>6. f[depth] \subseteq S
  BY <1>5
<1> QED BY <1>2, <1>6 DEF Harmless

-----------------------------------------------------------------------------

(* The options that redact what the default ones do, and more.             *)
AreOptions(opts) ==
  /\ opts.maxDepth \in Nat
  /\ DefaultKeyFragments \subseteq opts.keyFragments /\ DefaultPatterns \subseteq opts.patterns

(* What no key hides, what it becomes, and what that may hold besides.     *)
Bare(heap, open, fragments) == UNION {BareParts(heap[id], fragments) : id \in open}

OpenValues(heap, open, fragments) ==
  {Ref(id) : id \in open} \cup {v \in Bare(heap, open, fragments) : IsKnownLeaf(v)}

Copies(f, n, heap, open, fragments) ==
  {f[m][v][ancestors] :
     m \in 0 .. n, v \in OpenValues(heap, open, fragments), ancestors \in SUBSET DOMAIN heap}

Markers ==
  {Marker(name) : name \in {"REDACTED", "Circular", "MaxDepthExceeded", "map", "set", "function",
                            "symbol"}}

UnreadIn(heap, open, fragments) == UNION {UnreadOf(v) : v \in Bare(heap, open, fragments)}

TextsUnread(heap, open, fragments) ==
  {text \in UnreadIn(heap, open, fragments) : text.is = "text"}

Shown(f, n, heap, open, fragments) ==
  Copies(f, n, heap, open, fragments) \cup Markers \cup TextsUnread(heap, open, fragments)

(* All that is open is in the heap.                                        *)
LEMMA OpenValuesAreValues ==
  ASSUME NEW heap, NEW open \in SUBSET DOMAIN heap, NEW fragments
  PROVE  OpenValues(heap, open, fragments) \subseteq ValuesOf(heap)
BY DEF OpenValues, Bare, BareParts, ValuesOf, Range

(* To see less of the heap, and by more fragments, is to know its secrets. *)
LEMMA NarrowerView ==
  ASSUME NEW heap, NEW known \in SUBSET DOMAIN heap,
         SecretsAreKnown(heap, known, DefaultKeyFragments),
         NEW fragments, DefaultKeyFragments \subseteq fragments,
         NEW view \in SUBSET DOMAIN heap, InView(heap, view, fragments)
  PROVE  SecretsAreKnown(heap, view \cap known, fragments)
<1>1. ASSUME NEW container
      PROVE  BareParts(container, fragments) \subseteq BareParts(container, DefaultKeyFragments)
  BY DEF BareParts, IsSensitiveKey
<1>2. ASSUME NEW id \in view \cap known, NEW part \in BareParts(heap[id], fragments)
      PROVE  part \in {Ref(other) : other \in view \cap known} \/ IsKnownLeaf(part)
  <2>1. part \in {Ref(other) : other \in known} \/ IsKnownLeaf(part)
    BY <1>1, <1>2 DEF SecretsAreKnown
  <2>2. ASSUME NEW other \in known, part = Ref(other) PROVE other \in view
    BY <1>2, <2>2 DEF InView
  <2> QED BY <2>1, <2>2
<1> QED BY <1>2 DEF SecretsAreKnown, InView

(* What a known leaf becomes.                                              *)
LEMMA LeafIsHarmless ==
  ASSUME NEW heap, NEW open, NEW fragments, NEW opts, AreOptions(opts),
         NEW v \in Bare(heap, open, fragments), IsKnownLeaf(v), NEW x, x = RedactLeaf(v, opts)
  PROVE  /\ x.is = "text" /\ x.secret => x \in UnreadIn(heap, open, fragments)
         /\ PartsOf(x) \subseteq TextsUnread(heap, open, fragments)
<1>0. \A text \in UnreadOf(v) :
        text \in UnreadIn(heap, open, fragments) /\ text \in TextsUnread(heap, open, fragments)
  BY DEF UnreadIn, TextsUnread, IsKnownLeaf
<1>1. CASE v.is = "text"
  <2>1. CASE IsSecretShaped(v, opts.patterns)
    <3>1. x.is = "marker"
      BY <1>1, <2>1 DEF RedactLeaf, Marker
    <3> QED BY <3>1 DEF PartsOf
  <2>2. CASE ~IsSecretShaped(v, opts.patterns)
    <3>1. x = v
      BY <1>1, <2>2 DEF RedactLeaf
    <3>2. ~v.secret
      BY <1>1, <2>2 DEF IsKnownLeaf, IsSecretShaped, AreOptions
    <3> QED BY <1>1, <3>1, <3>2 DEF PartsOf
  <2> QED BY <2>1, <2>2
<1>2. CASE v.is = "error"
  <2>1. x = Object([name |-> v.name, message |-> v.message])
    BY <1>2 DEF RedactLeaf
  <2>2. x.is = "object" /\ Range(x.parts) = {v.name, v.message}
    BY <2>1 DEF Object, Range
  <2>3. UnreadOf(v) = {v.name, v.message}
    BY <1>2 DEF UnreadOf
  <2> QED BY <1>0, <2>2, <2>3 DEF PartsOf
<1>3. CASE v.is \in {"map", "set", "function", "symbol"}
  <2>1. x.is = "marker"
    BY <1>3 DEF RedactLeaf, Marker
  <2> QED BY <2>1 DEF PartsOf
<1>4. CASE v.is \in {"number", "null", "date"}
  <2>1. x = v
    BY <1>4 DEF RedactLeaf
  <2> QED BY <1>4, <2>1 DEF PartsOf
<1>5. CASE v.is \in {"bigint", "regexp"}
  <2>1. x = v.text
    BY <1>5 DEF RedactLeaf
  <2>2. UnreadOf(v) = {v.text}
    BY <1>5 DEF UnreadOf
  <2>3. x.is = "text"
    BY <2>1, <2>2 DEF IsKnownLeaf
  <2> QED BY <1>0, <2>1, <2>2, <2>3 DEF PartsOf
<1> QED BY <1>1, <1>2, <1>3, <1>4, <1>5 DEF IsKnownLeaf

IsCopied(copy, container, S) ==
  \E parts : copy = [is |-> container.is, parts |-> parts] /\ Range(parts) \subseteq S

(* What a container becomes, at a level that is not the last.              *)
LEMMA ContainerIsCopied ==
  ASSUME NEW heap, NEW opts, AreOptions(opts), NEW open \in SUBSET DOMAIN heap,
         SecretsAreKnown(heap, open, opts.keyFragments), NEW n \in Nat, NEW f, IsRedaction(n, f, heap, opts),
         NEW m \in 0 .. n, m # 0, NEW id \in open, NEW ancestors \in SUBSET DOMAIN heap,
         id \notin ancestors
  PROVE  IsCopied(f[m][Ref(id)][ancestors], heap[id], Shown(f, n, heap, open, opts.keyFragments))
<1> DEFINE among == ancestors \cup {id}
           inside == [v \in ValuesOf(heap) |-> f[m - 1][v][among]]
           parts == [k \in DOMAIN heap[id].parts |->
                       IF heap[id].is = "object" /\ IsSensitiveKey(k, opts.keyFragments)
                       THEN Marker("REDACTED") ELSE inside[heap[id].parts[k]]]
<1>1. f[m][Ref(id)][ancestors] = [is |-> heap[id].is, parts |-> parts]
  <2>1. f[m] = RedactLevel(f, m, heap, opts)
    BY DEF IsRedaction
  <2>2. Ref(id) \in ValuesOf(heap)
    BY DEF ValuesOf
  <2>3. f[m][Ref(id)][ancestors] = RedactOne(heap, Ref(id), opts, ancestors, f[m - 1])
    BY <2>1, <2>2 DEF RedactLevel
  <2>4. Ref(id).is = "ref" /\ Ref(id).id = id
    BY DEF Ref
  <2>5. RedactOne(heap, Ref(id), opts, ancestors, f[m - 1]) = RedactParts(heap[id], opts, inside)
    BY <2>4 DEF RedactOne
  <2> QED BY <2>3, <2>5 DEF RedactParts
<1>2. ASSUME NEW k \in DOMAIN heap[id].parts PROVE parts[k] \in Shown(f, n, heap, open, opts.keyFragments)
  <2>1. CASE heap[id].is = "object" /\ IsSensitiveKey(k, opts.keyFragments)
    BY <2>1 DEF Shown, Markers
  <2>2. CASE ~(heap[id].is = "object" /\ IsSensitiveKey(k, opts.keyFragments))
    <3> DEFINE part == heap[id].parts[k]
    <3>1. part \in BareParts(heap[id], opts.keyFragments)
      BY <2>2 DEF BareParts
    <3>2. part \in ValuesOf(heap)
      BY DEF ValuesOf, Range
    <3>3. part \in OpenValues(heap, open, opts.keyFragments)
      BY <3>1 DEF OpenValues, Bare, SecretsAreKnown
    <3>4. parts[k] = f[m - 1][part][among]
      BY <2>2, <3>2
    <3>5. m - 1 \in 0 .. n /\ among \in SUBSET DOMAIN heap
      OBVIOUS
    <3>6. f[m - 1][part][among] \in Copies(f, n, heap, open, opts.keyFragments)
      <4> HIDE DEF part, among
      <4> QED BY <3>3, <3>5 DEF Copies
    <3> QED BY <3>4, <3>6 DEF Shown
  <2> QED BY <2>1, <2>2
<1>3. Range(parts) \subseteq Shown(f, n, heap, open, opts.keyFragments)
  BY <1>2 DEF Range
<1> QED BY <1>1, <1>3 DEF IsCopied

(* What all of them become, at any level, is such a set.                   *)
LEMMA ShownIsHarmless ==
  ASSUME NEW heap, NEW opts, AreOptions(opts), NEW open \in SUBSET DOMAIN heap,
         SecretsAreKnown(heap, open, opts.keyFragments), NEW n \in Nat, NEW f, IsRedaction(n, f, heap, opts)
  PROVE  Harmless(Shown(f, n, heap, open, opts.keyFragments),
                  UnreadIn(heap, open, opts.keyFragments))
<1>1. ASSUME NEW x \in Markers PROVE x.is = "marker"
  BY DEF Markers, Marker
<1> DEFINE unread == UnreadIn(heap, open, opts.keyFragments)
<1>2. ASSUME NEW x \in TextsUnread(heap, open, opts.keyFragments)
      PROVE  x.is = "text" /\ x \in unread
  BY DEF TextsUnread
<1>3. ASSUME NEW m \in 0 .. n, NEW v \in OpenValues(heap, open, opts.keyFragments), NEW a \in SUBSET DOMAIN heap,
             NEW x, x = f[m][v][a]
      PROVE  /\ x.is = "text" /\ x.secret => x \in unread
             /\ PartsOf(x) \subseteq Shown(f, n, heap, open, opts.keyFragments)
  <2>1. x = IF m = 0 THEN Marker("MaxDepthExceeded") ELSE RedactOne(heap, v, opts, a, f[m - 1])
    <3>1. f[m] = RedactLevel(f, m, heap, opts)
      BY DEF IsRedaction
    <3>2. v \in ValuesOf(heap)
      BY OpenValuesAreValues
    <3> QED BY <1>3, <3>1, <3>2 DEF RedactLevel
  <2>2. CASE m = 0
    <3>1. x.is = "marker"
      BY <2>1, <2>2 DEF Marker
    <3> QED BY <3>1 DEF PartsOf
  <2>3. CASE m # 0 /\ v \in Bare(heap, open, opts.keyFragments) /\ IsKnownLeaf(v)
    <3>1. x = RedactLeaf(v, opts)
      BY <2>1, <2>3 DEF RedactOne, IsKnownLeaf
    <3>2. /\ x.is = "text" /\ x.secret => x \in unread
          /\ PartsOf(x) \subseteq TextsUnread(heap, open, opts.keyFragments)
      BY <2>3, <3>1, LeafIsHarmless
    <3> QED BY <3>2 DEF Shown
  <2>4. ASSUME NEW id \in open, v = Ref(id), m # 0
        PROVE  /\ x.is = "text" /\ x.secret => x \in unread
             /\ PartsOf(x) \subseteq Shown(f, n, heap, open, opts.keyFragments)
    <3>1. CASE id \in a
      <4>1. v.is = "ref" /\ v.id = id
        BY <2>4 DEF Ref
      <4>2. x.is = "marker"
        BY <2>1, <2>4, <3>1, <4>1 DEF RedactOne, Marker
      <4> QED BY <4>2 DEF PartsOf
    <3>2. CASE id \notin a
      <4>1. PICK parts : /\ f[m][Ref(id)][a] = [is |-> heap[id].is, parts |-> parts]
                         /\ Range(parts) \subseteq Shown(f, n, heap, open, opts.keyFragments)
        <5>1. IsCopied(f[m][Ref(id)][a], heap[id], Shown(f, n, heap, open, opts.keyFragments))
          BY <2>4, <3>2, ContainerIsCopied, ZenonT(60)
        <5> QED BY <5>1 DEF IsCopied
      <4>2. x.is = heap[id].is /\ x.parts = parts
        BY <1>3, <2>4, <4>1
      <4>3. heap[id].is # "text"
        BY DEF SecretsAreKnown
      <4> QED BY <4>1, <4>2, <4>3 DEF PartsOf
    <3> QED BY <3>1, <3>2
  <2> QED BY <2>2, <2>3, <2>4 DEF OpenValues
<1>4. ASSUME NEW x \in Copies(f, n, heap, open, opts.keyFragments)
      PROVE  /\ x.is = "text" /\ x.secret => x \in unread
             /\ PartsOf(x) \subseteq Shown(f, n, heap, open, opts.keyFragments)
  <2>1. PICK m \in 0 .. n, v \in OpenValues(heap, open, opts.keyFragments), a \in SUBSET DOMAIN heap : x = f[m][v][a]
    BY DEF Copies
  <2> QED BY <1>3, <2>1
<1> QED BY <1>1, <1>2, <1>4 DEF Harmless, Shown, PartsOf

(* What the transports are given.                                          *)
LEMMA EntryIsHarmless ==
  ASSUME NEW heap, NEW opts, AreOptions(opts), NEW open \in SUBSET DOMAIN heap,
         SecretsAreKnown(heap, open, opts.keyFragments), NEW fields, fields = RedactValue(heap, Ref("root"), opts),
         NEW id, id.is = "text" /\ ~id.secret,
         NEW more, more = WithCorrelationId(fields, id)
  PROVE  \E S : /\ Harmless(S, UnreadIn(heap, open, opts.keyFragments))
               /\ fields \in S /\ more \in S
<1> DEFINE n == opts.maxDepth + 1
<1>1. n \in Nat /\ n # 0 /\ n \in 0 .. n
  BY DEF AreOptions
<1>2. PICK f : IsRedaction(n, f, heap, opts) /\ fields = f[n][Ref("root")][{}]
  BY RedactValueIsRedaction DEF AreOptions
<1> HIDE DEF n
<1>3. "root" \in open
  BY DEF SecretsAreKnown
<1> DEFINE unread == UnreadIn(heap, open, opts.keyFragments)
<1>4. Harmless(Shown(f, n, heap, open, opts.keyFragments), unread)
  BY <1>1, <1>2, ShownIsHarmless
<1>5. PICK parts : /\ f[n][Ref("root")][{}] = [is |-> heap["root"].is, parts |-> parts]
                   /\ Range(parts) \subseteq Shown(f, n, heap, open, opts.keyFragments)
  <2>1. {} \in SUBSET DOMAIN heap /\ "root" \notin {}
    OBVIOUS
  <2>2. IsRedaction(n, f, heap, opts)
    BY <1>2
  <2>3. IsCopied(f[n][Ref("root")][{}], heap["root"], Shown(f, n, heap, open, opts.keyFragments))
    BY <1>1, <1>3, <2>1, <2>2, ContainerIsCopied, ZenonT(60)
  <2> QED BY <2>3 DEF IsCopied
<1>6. fields = [is |-> heap["root"].is, parts |-> parts] /\ heap["root"].is \in {"array", "object"}
  BY <1>2, <1>3, <1>5 DEF SecretsAreKnown
<1> DEFINE all == [k \in DOMAIN parts \cup {"correlationId"} |->
                     IF k = "correlationId" THEN id ELSE parts[k]]
<1>7. more = [is |-> "object", parts |-> all]
  <2>1. fields.parts = parts
    BY <1>6
  <2> QED BY <2>1 DEF WithCorrelationId, Object
<1>8. Range(all) \subseteq {id} \cup Range(parts)
  BY DEF Range
<1> HIDE DEF all
<1> DEFINE S == Shown(f, n, heap, open, opts.keyFragments) \cup {id, fields, more}
<1>9. /\ fields.is # "text" /\ PartsOf(fields) \subseteq S
      /\ more.is # "text" /\ PartsOf(more) \subseteq S
      /\ PartsOf(id) \subseteq S
  BY <1>5, <1>6, <1>7, <1>8 DEF PartsOf
<1>10. Harmless(S, unread)
  BY <1>4, <1>9 DEF Harmless
<1> QED BY <1>10

(* An entry is made of an open heap's root, whatever the logger.           *)
LEMMA LogStep == WritesLog => LogsHoldNoSecret'
<1> SUFFICES ASSUME WritesLog PROVE LogsHoldNoSecret'
  OBVIOUS
<1>1. PICK logger \in Loggers, logged \in Logged, level \in {"debug", "error"},
           id \in CorrelationIds :
        LET entry == Log(Child(logger, Bindings), level, "msg", logged, id)
        IN  call' = [op |-> "log", logger |-> logger,
                     heap |-> Merged(Child(logger, Bindings), logged),
                     answer |-> IF entry = None THEN << >>
                                ELSE << WriteToConsole(entry), WriteToPino(entry) >>]
  BY DEF WritesLog
<1> DEFINE child == Child(logger, Bindings)
           heap == Merged(child, logged)
           opts == ResolveRedactionOptions(logger.redaction)
           fields == RedactValue(heap, Ref("root"), opts)
           entry == [level |-> level, msg |-> "msg", correlationId |-> id, fields |-> fields]
<1>2. call'.logger = logger /\ call'.heap = heap
  BY <1>1
<1> SUFFICES ASSUME logger.redaction # None, NEW i \in DOMAIN call'.answer,
                    NEW text \in TextsIn(call'.answer[i].fields, opts.maxDepth + 1), text.secret,
                    NEW view \in SUBSET DOMAIN heap, InView(heap, view, opts.keyFragments)
             PROVE  text \in UnreadIn(heap, view, opts.keyFragments)
  BY <1>2 DEF LogsHoldNoSecret, Is, UnreadIn, Bare
<1>3. AreOptions(opts)
  BY LogAssumption DEF AreOptions, ResolveRedactionOptions
<1>4. child.redaction = logger.redaction
  BY LogAssumption DEF Child
<1>5. PICK known \in SUBSET DOMAIN heap : SecretsAreKnown(heap, known, DefaultKeyFragments)
  BY LogAssumption
<1>6. call'.answer = << WriteToConsole(entry), WriteToPino(entry) >>
  <2>1. Log(child, level, "msg", logged, id) \in {None, entry}
    BY <1>4 DEF Log, RedactFields
  <2> QED BY <1>1, <2>1
<1> DEFINE other == IF id = None THEN [is |-> "text", secret |-> FALSE] ELSE id
           more == WithCorrelationId(fields, other)
<1>7. other.is = "text" /\ ~other.secret
  BY LogAssumption
<1>8. call'.answer[i].fields \in {fields, more}
  BY <1>6 DEF WriteToConsole, WriteToPino
<1> HIDE DEF fields, more, opts, heap, other
<1> DEFINE open == view \cap known
<1>9. open \in SUBSET DOMAIN heap /\ SecretsAreKnown(heap, open, opts.keyFragments)
  BY <1>3, <1>5, NarrowerView DEF AreOptions
<1> HIDE DEF open
<1>10. PICK S : /\ Harmless(S, UnreadIn(heap, open, opts.keyFragments))
                /\ fields \in S /\ more \in S
  BY <1>3, <1>7, <1>9, EntryIsHarmless DEF fields, more
<1>11. text \in UnreadIn(heap, open, opts.keyFragments)
  BY <1>3, <1>8, <1>10, NoSecretIsSeen DEF AreOptions
<1> QED BY <1>11 DEF open, UnreadIn, Bare

(* redact.ts:84: whatever is logged, however its objects refer to each      *)
(* other and however deep the redaction goes: a text that its shape, or a   *)
(* key on the way to it, says is a secret, reaches no transport, unless it  *)
(* is one that the code hands on unread: an error's name or message, or     *)
(* what a bigint or a regular expression says, with an open way to it.      *)
THEOREM NoSecretIsLogged == ExchangesSpec => []LogsHoldNoSecret
<1>1. call = None => LogsHoldNoSecret
  BY DEF LogsHoldNoSecret, Is
<1>2. LogsHoldNoSecret /\ UNCHANGED call => LogsHoldNoSecret'
  BY DEF LogsHoldNoSecret, Is
<1>3. ChecksToken \/ AnswersFailure \/ AnswersRequest => LogsHoldNoSecret'
  BY DEF ChecksToken, AnswersFailure, AnswersRequest, LogsHoldNoSecret, Is
<1>4. LogsHoldNoSecret /\ [ExchangesNext]_call => LogsHoldNoSecret'
  BY <1>2, <1>3, LogStep DEF ExchangesNext
<1> QED BY <1>1, <1>4, PTL DEF ExchangesSpec

-----------------------------------------------------------------------------
(* Policies: what definePolicy reports, and what it returns.               *)

(* Conditions, level by level.                                             *)

IsLevels(n, f, T, first, step) ==
  /\ f \in [0 .. n -> T] /\ f[0] = first
  /\ \A m \in 1 .. n : f[m] = step[f[m - 1]]

(* Whatever one level makes of the next, there are as many as one likes.   *)
LEMMA LevelsExist ==
  ASSUME NEW T, NEW first \in T, NEW step \in [T -> T]
  PROVE  \A n \in Nat : \E f : IsLevels(n, f, T, first, step)
<1> USE DEF IsLevels
<1> DEFINE Good(n, f) == IsLevels(n, f, T, first, step)
           S == {n \in Nat : \E f : Good(n, f)}
<1>1. 0 \in S
  <2>1. Good(0, [m \in 0 .. 0 |-> first])
    OBVIOUS
  <2> QED BY <2>1
<1>2. ASSUME NEW n \in Nat, n \in S PROVE n + 1 \in S
  <2>1. PICK f : Good(n, f)
    BY <1>2
  <2> DEFINE g == [m \in 0 .. n + 1 |-> IF m = n + 1 THEN step[f[n]] ELSE f[m]]
  <2>2. g \in [0 .. n + 1 -> T] /\ g[0] = first
    BY <2>1
  <2>3. ASSUME NEW m \in 1 .. n + 1 PROVE g[m] = step[g[m - 1]]
    <3>1. g[m - 1] = f[m - 1]
      OBVIOUS
    <3>2. CASE m = n + 1
      BY <3>1, <3>2
    <3>3. CASE m # n + 1
      <4>1. m \in 1 .. n /\ g[m] = f[m]
        BY <3>3
      <4> QED BY <2>1, <3>1, <4>1
    <3> QED BY <3>2, <3>3
  <2>4. Good(n + 1, g)
    BY <2>2, <2>3
  <2> QED BY <2>4
<1>3. Nat \subseteq S
  <2> HIDE DEF S
  <2> QED BY <1>1, <1>2, NatSetInduction
<1> QED BY <1>3

(* What a path is made of.                                                 *)
Segments ==
  {"path", "op", "value", "ref", "all", "any", "not"} \cup {Index[i] : i \in Nat}

Places == SUBSET Seq(Segments)

CheckAt(f, n) ==
  [v \in Json |-> IF n = 0 \/ ~IsRecord(v) THEN {<< >>} ELSE CheckNode(v, f[n - 1])]

IsCheck(f) == f = [n \in 0 .. MaxConditionDepth |-> CheckAt(f, n)]

ConditionAt(f, n) ==
  [v \in Json |->
     /\ n # 0
     /\ \/ IsAttribute(v)
        \/ \E key \in {"all", "any"} : CombinationOf(v, key, f[n - 1])
        \/ NotCondition(v, f[n - 1])]

IsGrammar(f) == f = [n \in 0 .. MaxConditionDepth |-> ConditionAt(f, n)]

(* All there is in a value of JSON is one.                                 *)
LEMMA InsideJson ==
  ASSUME NEW v \in Json
  PROVE  /\ v.t = "text" => v = Text(v.text)
         /\ v.t = "number" => v \in {Finite, NaN}
         /\ v.t = "list" =>
              /\ v = ListOf(v.items) /\ v.items \in Seq(Json) /\ ItemsOf(v) \subseteq Json
              /\ \A i \in DOMAIN v.items : v.items[i] \in Json
         /\ v.t = "record" =>
              /\ v = Record(v.fields)
              /\ \A key \in DOMAIN v.fields : v.fields[key] \in Json /\ Own(v, key) = v.fields[key]
<1>1. Inside(v) \subseteq Json
  BY JsonAssumption DEF Encoded
<1>2. CASE v.t = "list"
  <2>1. ItemsOf(v) \subseteq Json
    BY <1>1, <1>2 DEF Inside
  <2>2. v = ListOf(v.items) /\ v.items \in Seq(ItemsOf(v))
    BY <1>2, JsonAssumption DEF Encoded
  <2>3. v.items \in Seq(Json)
    BY <2>1, <2>2
  <2> QED BY <1>2, <2>1, <2>2, <2>3 DEF ItemsOf
<1>3. CASE v.t = "record"
  <2>1. Contents(v) \subseteq Json
    BY <1>1, <1>3 DEF Inside
  <2> QED BY <1>3, <2>1, JsonAssumption DEF Encoded, Contents, Own, Has
<1> QED BY <1>2, <1>3, JsonAssumption DEF Encoded

(* CheckPath finds fault with what is no dotted path, and with nothing else. *)
LEMMA PathIsChecked ==
  ASSUME NEW v, NEW path
  PROVE  CheckPath(v, path) = IF DottedPath(v) THEN {} ELSE {path}
BY DEF CheckPath, DottedPath, IsName, PathRoots, ForbiddenSegments, Unwalkable

(* The places within a leaf.                                               *)
LEMMA PlacesInLeaf ==
  /\ << >> \in Seq(Segments)
  /\ \A key \in {"path", "op", "value", "ref", "all", "any", "not"} : << key >> \in Seq(Segments)
BY DEF Segments

(* A condition without others in it.                                       *)
LEMMA LeafIsChecked ==
  ASSUME NEW v \in Json, v.t = "record", DOMAIN v.fields \subseteq LeafKeys
  PROVE  /\ CheckLeaf(v) \subseteq Seq(Segments)
         /\ CheckLeaf(v) = {} <=> IsAttribute(v)
<1> DEFINE keys == DOMAIN v.fields
           path == Own(v, "path")
           op == Own(v, "op")
           operands == keys \cap {"value", "ref"}
<1>1. \A key \in keys : Own(v, key) = v.fields[key]
  BY DEF Own, Has
<1>2. \A key : key \notin keys => Own(v, key) = Undefined
  BY DEF Own, Has
<1>3. Undefined.t # "text"
  BY DEF Undefined
<1>4. CASE OneOf(op, PresenceOperator)
  <2>1. "op" \in keys
    BY <1>2, <1>3, <1>4 DEF OneOf
  <2>2. CheckLeaf(v) = (IF DottedPath(path) THEN {} ELSE {<< "path" >>})
                         \cup (IF operands = {} THEN {} ELSE {<< >>})
    <3>1. IsOneOf(op, PresenceOperators)
      BY <1>4 DEF IsOneOf, OneOf, PresenceOperator, PresenceOperators
    <3>2. ~IsOneOf(op, ComparisonOperators \cup MembershipOperators)
      BY <1>4 DEF IsOneOf, OneOf, PresenceOperator, ComparisonOperators, MembershipOperators
    <3> QED BY <3>1, <3>2, PathIsChecked DEF CheckLeaf
  <2>3. ~OneOf(op, BinaryOperator)
    BY <1>4 DEF OneOf, PresenceOperator, BinaryOperator, ComparisonOperator, MembershipOperator
  <2>4. IsAttribute(v) <=> AttributePresence(v)
    <3>1. OneOf(op, BinaryOperator) <=>
            OneOf(op, ComparisonOperator) \/ OneOf(op, MembershipOperator)
      BY DEF OneOf, BinaryOperator
    <3> QED BY <1>1, <2>1, <2>3, <3>1
        DEF IsAttribute, AttributeComparison, AttributeMembership, AttributeReference
  <2>5. AttributePresence(v) <=> operands = {} /\ DottedPath(path)
    <3>1. DottedPath(path) => "path" \in keys
      BY <1>2, <1>3 DEF DottedPath
    <3>2. "path" \in keys => (keys = {"path", "op"} <=> operands = {})
      BY <2>1 DEF LeafKeys
    <3> QED BY <1>1, <1>4, <2>1, <3>1, <3>2 DEF AttributePresence, HasFields
  <2> QED BY <2>2, <2>4, <2>5, PlacesInLeaf
<1>5. CASE OneOf(op, BinaryOperator)
  <2>1. "op" \in keys
    BY <1>2, <1>3, <1>5 DEF OneOf
  <2>2. /\ ~IsOneOf(op, PresenceOperators)
        /\ IsOneOf(op, ComparisonOperators \cup MembershipOperators)
    BY <1>5 DEF OneOf, IsOneOf, PresenceOperators, BinaryOperator, ComparisonOperator,
                MembershipOperator, ComparisonOperators, MembershipOperators
  <2>3. CheckLeaf(v) = (IF DottedPath(path) THEN {} ELSE {<< "path" >>})
                         \cup (IF operands \in {{}, {"value", "ref"}} THEN {<< >>}
                               ELSE IF path.t = "text" THEN CheckOperand(v, op.text) ELSE {})
    BY <2>2, PathIsChecked DEF CheckLeaf
  <2>4. ~AttributePresence(v)
    BY <1>1, <1>5, <2>1
    DEF AttributePresence, OneOf, PresenceOperator, BinaryOperator, ComparisonOperator,
        MembershipOperator
  <2>5. CASE operands \in {{}, {"value", "ref"}}
    <3>1. ~IsAttribute(v)
      BY <2>4, <2>5
      DEF IsAttribute, AttributeComparison, AttributeMembership, AttributeReference, HasFields
    <3> QED BY <2>3, <2>5, <3>1, PlacesInLeaf
  <2>6. CASE operands = {"ref"}
    <3>0. operands \notin {{}, {"value", "ref"}}
      BY <2>6
    <3>1. CheckOperand(v, op.text) =
            IF DottedPath(v.fields["ref"]) THEN {} ELSE {<< "ref" >>}
      BY <1>1, <2>6, PathIsChecked DEF CheckOperand, Has
    <3>2. IsAttribute(v) <=> AttributeReference(v)
      BY <2>4, <2>6 DEF IsAttribute, AttributeComparison, AttributeMembership, HasFields
    <3>3. AttributeReference(v) <=> DottedPath(path) /\ DottedPath(v.fields["ref"])
      <4>1. DottedPath(path) => "path" \in keys /\ path.t = "text"
        BY <1>2, <1>3 DEF DottedPath
      <4>2. "path" \in keys => keys = {"path", "op", "ref"}
        BY <2>1, <2>6 DEF LeafKeys
      <4> QED BY <1>1, <1>5, <2>1, <4>1, <4>2 DEF AttributeReference, HasFields
    <3>4. DottedPath(path) => path.t = "text"
      BY DEF DottedPath
    <3> HIDE DEF operands, path, op
    <3> QED BY <2>3, <3>0, <3>1, <3>2, <3>3, <3>4, PlacesInLeaf
  <2>7. CASE operands = {"value"}
    <3> DEFINE literal == v.fields["value"]
               fits == IF OneOf(op, MembershipOperator)
                       THEN Filled(literal) /\ \A item \in ItemsOf(literal) : JsonPrimitive(item)
                       ELSE JsonPrimitive(literal) /\ literal # NaN
    <3>0. operands \notin {{}, {"value", "ref"}}
      BY <2>7
    <3>1. CheckOperand(v, op.text) = IF fits THEN {} ELSE {<< "value" >>}
      <4>1. Own(v, "value") = literal /\ literal \in Json /\ ~Has(v, "ref")
        BY <1>1, <2>7, InsideJson DEF Has
      <4>2. op.text \in MembershipOperators <=> OneOf(op, MembershipOperator)
        BY <1>5 DEF OneOf, MembershipOperators, MembershipOperator
      <4>3. (IsPrimitive(literal) /\ (literal.t = "number" => literal.finite)) <=>
              (JsonPrimitive(literal) /\ literal # NaN)
        <5>1. literal.t = "number" => literal \in {Finite, NaN}
          BY <4>1, InsideJson
        <5> HIDE DEF literal
        <5> QED BY <5>1 DEF IsPrimitive, JsonPrimitive, Finite, NaN
      <4>4. (FilledList(literal) /\ \A i \in DOMAIN literal.items : IsPrimitive(literal.items[i])) <=>
              (Filled(literal) /\ \A item \in ItemsOf(literal) : JsonPrimitive(item))
        BY DEF FilledList, Filled, ItemsOf, IsPrimitive, JsonPrimitive
      <4> HIDE DEF literal
      <4> QED BY <4>1, <4>2, <4>3, <4>4 DEF CheckOperand
    <3>2. IsAttribute(v) <=> AttributeComparison(v) \/ AttributeMembership(v)
      BY <2>4, <2>7 DEF IsAttribute, AttributeReference, HasFields
    <3>3. DottedPath(path) => "path" \in keys /\ path.t = "text"
      BY <1>2, <1>3 DEF DottedPath
    <3>4. "path" \in keys => keys = {"path", "op", "value"}
      BY <2>1, <2>7 DEF LeafKeys
    <3>5. OneOf(op, ComparisonOperator) <=> ~OneOf(op, MembershipOperator)
      BY <1>5 DEF OneOf, BinaryOperator, ComparisonOperator, MembershipOperator
    <3>6. AttributeComparison(v) <=>
            DottedPath(path) /\ OneOf(op, ComparisonOperator) /\ JsonPrimitive(literal) /\ literal # NaN
      BY <1>1, <2>1, <3>3, <3>4 DEF AttributeComparison, HasFields
    <3>7. AttributeMembership(v) <=>
            /\ DottedPath(path) /\ OneOf(op, MembershipOperator)
            /\ Filled(literal) /\ \A item \in ItemsOf(literal) : JsonPrimitive(item)
      BY <1>1, <2>1, <3>3, <3>4 DEF AttributeMembership, HasFields
    <3>8. IsAttribute(v) <=> DottedPath(path) /\ fits
      <4> HIDE DEF literal
      <4> QED BY <3>2, <3>5, <3>6, <3>7
    <3> HIDE DEF fits, operands, path, op
    <3> QED BY <2>3, <3>0, <3>1, <3>3, <3>8, PlacesInLeaf
  <2> QED BY <2>5, <2>6, <2>7
<1>6. CASE ~OneOf(op, PresenceOperator) /\ ~OneOf(op, BinaryOperator)
  <2>1. CheckLeaf(v) = (IF DottedPath(path) THEN {} ELSE {<< "path" >>}) \cup {<< "op" >>}
    BY <1>6, PathIsChecked
    DEF CheckLeaf, OneOf, IsOneOf, PresenceOperator, PresenceOperators, BinaryOperator,
        ComparisonOperator, MembershipOperator, ComparisonOperators, MembershipOperators
  <2>2. ~IsAttribute(v)
    <3>1. "op" \in keys => op = v.fields["op"]
      BY <1>1
    <3> QED BY <1>6, <3>1
        DEF IsAttribute, AttributeComparison, AttributeMembership, AttributeReference,
            AttributePresence, HasFields, OneOf, BinaryOperator
  <2> QED BY <2>1, <2>2, PlacesInLeaf
<1> QED BY <1>4, <1>5, <1>6

(* A condition is looked through one level at a time.                      *)
LEMMA NodeIsChecked ==
  ASSUME NEW v \in Json, v.t = "record",
         NEW below \in [Json -> Places], NEW holds \in [Json -> BOOLEAN],
         \A x \in Json : below[x] = {} <=> holds[x]
  PROVE  /\ CheckNode(v, below) \in Places
         /\ CheckNode(v, below) = {} <=>
              \/ IsAttribute(v)
              \/ \E key \in {"all", "any"} : CombinationOf(v, key, holds)
              \/ NotCondition(v, holds)
<1> DEFINE keys == DOMAIN v.fields
           combinator == keys \cap CombinatorKeys
           key == CHOOSE k \in combinator : TRUE
           inner == Own(v, key)
           composed == (\E k \in {"all", "any"} : CombinationOf(v, k, holds)) \/ NotCondition(v, holds)
<1>1. \A k \in keys : v.fields[k] \in Json /\ Own(v, k) = v.fields[k]
  BY InsideJson
<1>2. CASE combinator = {}
  <2>1. ~composed
    BY <1>2 DEF CombinationOf, NotCondition, HasFields, CombinatorKeys
  <2>2. CASE keys \subseteq LeafKeys
    <3>1. CheckNode(v, below) = CheckLeaf(v)
      BY <1>2, <2>2 DEF CheckNode
    <3> QED BY <2>1, <2>2, <3>1, LeafIsChecked DEF Places
  <2>3. CASE ~(keys \subseteq LeafKeys)
    <3>1. CheckNode(v, below) = {<< >>}
      BY <1>2, <2>3 DEF CheckNode
    <3>2. ~IsAttribute(v)
      BY <2>3 DEF IsAttribute, AttributeComparison, AttributeMembership, AttributeReference,
                  AttributePresence, HasFields, LeafKeys
    <3> QED BY <2>1, <3>1, <3>2, PlacesInLeaf DEF Places
  <2> QED BY <2>2, <2>3
<1>3. CASE combinator # {} /\ keys # {key}
  <2>1. key \in combinator
    BY <1>3
  <2>2. CheckNode(v, below) = {<< >>}
    BY <1>3 DEF CheckNode
  <2>3. ~composed
    <3>1. \A k \in CombinatorKeys : keys = {k} => k = key
      BY <2>1
    <3> QED BY <1>3, <3>1 DEF CombinationOf, NotCondition, HasFields, CombinatorKeys
  <2>4. ~IsAttribute(v)
    <3>1. key \in keys /\ key \notin {"path", "op", "value", "ref"}
      BY <2>1 DEF CombinatorKeys
    <3> HIDE DEF key
    <3> QED BY <3>1 DEF IsAttribute, AttributeComparison, AttributeMembership,
                        AttributeReference, AttributePresence, HasFields
  <2> QED BY <2>2, <2>3, <2>4, PlacesInLeaf DEF Places
<1>4. CASE combinator # {} /\ keys = {key}
  <2>1. key \in CombinatorKeys /\ key \in keys
    BY <1>4
  <2>2. inner \in Json /\ inner = v.fields[key]
    BY <1>1, <2>1
  <2> HIDE DEF key
  <2>3. ~IsAttribute(v)
    BY <1>4, <2>1 DEF IsAttribute, AttributeComparison, AttributeMembership,
                      AttributeReference, AttributePresence, HasFields, CombinatorKeys
  <2>4. ASSUME NEW k \in CombinatorKeys PROVE HasFields(v, {k}) <=> k = key
    BY <1>4 DEF HasFields
  <2>5. CASE key = "not"
    <3>1. CheckNode(v, below) = {<< key >> \o place : place \in below[inner]}
      BY <1>4, <2>5 DEF CheckNode, key
    <3>2. below[inner] \subseteq Seq(Segments)
      BY <2>2 DEF Places
    <3>3. << key >> \in Seq(Segments)
      BY <2>5, PlacesInLeaf
    <3>4. CheckNode(v, below) \in Places
      <4>1. \A place \in below[inner] : << key >> \o place \in Seq(Segments)
        BY <3>2, <3>3
      <4> QED BY ONLY <3>1, <4>1 DEF Places
    <3>5. CheckNode(v, below) = {} <=> holds[inner]
      <4>1. CheckNode(v, below) = {} <=> below[inner] = {}
        <5>1. CASE below[inner] = {}
          BY <3>1, <5>1
        <5>2. CASE below[inner] # {}
          <6>1. PICK place \in below[inner] : TRUE
            BY <5>2
          <6>2. << key >> \o place \in CheckNode(v, below)
            BY <3>1
          <6> QED BY <5>2, <6>2
        <5> QED BY <5>1, <5>2
      <4> QED BY <2>2, <4>1
    <3>6. composed <=> holds[inner]
      BY <2>2, <2>4, <2>5 DEF CombinationOf, NotCondition, CombinatorKeys
    <3> QED BY <2>3, <3>4, <3>5, <3>6
  <2>6. CASE key # "not" /\ ~Filled(inner)
    <3>1. CheckNode(v, below) = {<< key >>}
      BY <1>4, <2>6 DEF CheckNode, key, Filled, FilledList
    <3>2. ~composed
      BY <2>2, <2>4, <2>6 DEF CombinationOf, NotCondition, CombinatorKeys
    <3>3. << key >> \in Seq(Segments)
      BY <2>1, PlacesInLeaf DEF CombinatorKeys
    <3> QED BY <2>3, <3>1, <3>2, <3>3 DEF Places
  <2>7. CASE key # "not" /\ Filled(inner)
    <3> DEFINE at(i) == {<< key, Index[i] >> \o place : place \in below[inner.items[i]]}
    <3>1. CheckNode(v, below) = UNION {at(i) : i \in DOMAIN inner.items}
      BY <1>4, <2>7 DEF CheckNode, key, Filled, FilledList
    <3>2. /\ inner.items \in Seq(Json) /\ \A i \in DOMAIN inner.items : i \in Nat
          /\ \A i \in DOMAIN inner.items : inner.items[i] \in Json
      BY <2>2, <2>7, InsideJson DEF Filled
    <3>3. ASSUME NEW i \in DOMAIN inner.items
          PROVE  at(i) \in Places /\ (at(i) = {} <=> holds[inner.items[i]])
      <4>1. below[inner.items[i]] \subseteq Seq(Segments)
        BY <3>2 DEF Places
      <4>2. << key, Index[i] >> \in Seq(Segments)
        BY <2>1, <3>2 DEF Segments, CombinatorKeys
      <4>3. \A place \in below[inner.items[i]] : << key, Index[i] >> \o place \in Seq(Segments)
        BY <4>1, <4>2
      <4>4. at(i) \in Places
        BY ONLY <4>3 DEF Places
      <4>5. at(i) = {} <=> below[inner.items[i]] = {}
        <5>1. CASE below[inner.items[i]] = {}
          BY <5>1
        <5>2. CASE below[inner.items[i]] # {}
          <6>1. PICK place \in below[inner.items[i]] : TRUE
            BY <5>2
          <6>2. << key, Index[i] >> \o place \in at(i)
            OBVIOUS
          <6> QED BY <5>2, <6>2
        <5> QED BY <5>1, <5>2
      <4> HIDE DEF at
      <4> QED BY <3>2, <4>4, <4>5
    <3> HIDE DEF at
    <3>4. CheckNode(v, below) \in Places
      BY <3>1, <3>3 DEF Places
    <3>5. CheckNode(v, below) = {} <=> \A i \in DOMAIN inner.items : holds[inner.items[i]]
      BY <3>1, <3>3
    <3>6. composed <=> \A i \in DOMAIN inner.items : holds[inner.items[i]]
      <4>1. composed <=> CombinationOf(v, key, holds)
        BY <2>1, <2>4, <2>7 DEF CombinationOf, NotCondition, CombinatorKeys
      <4> QED BY <2>1, <2>2, <2>4, <2>7, <4>1 DEF CombinationOf, ItemsOf
    <3> QED BY <2>3, <3>4, <3>5, <3>6
  <2> QED BY <2>5, <2>6, <2>7
<1> QED BY <1>2, <1>3, <1>4

(* Every level has what the grammar says of it.                            *)
LEMMA CheckExists == \E f \in [0 .. MaxConditionDepth -> [Json -> Places]] : IsCheck(f)
<1> DEFINE first == [v \in Json |-> {<< >>}]
           next(below) == [v \in Json |-> IF ~IsRecord(v) THEN {<< >>} ELSE CheckNode(v, below)]
           T == [Json -> Places]
           step == [below \in T |-> next(below)]
<1>1. first \in T
  BY PlacesInLeaf DEF Places
<1>2. ASSUME NEW below \in T PROVE next(below) \in T
  <2> DEFINE holds == [v \in Json |-> below[v] = {}]
  <2>1. holds \in [Json -> BOOLEAN] /\ \A v \in Json : below[v] = {} <=> holds[v]
    OBVIOUS
  <2> HIDE DEF holds
  <2>2. \A v \in Json : v.t = "record" => CheckNode(v, below) \in Places
    BY <2>1, NodeIsChecked
  <2> QED BY <2>2, PlacesInLeaf DEF IsRecord, Places
<1>3. step \in [T -> T]
  BY <1>2
<1> HIDE DEF first, step, T
<1>4. PICK f \in [0 .. MaxConditionDepth -> T] :
        f[0] = first /\ \A n \in 1 .. MaxConditionDepth : f[n] = step[f[n - 1]]
  <2>1. \E f : IsLevels(MaxConditionDepth, f, T, first, step)
    BY <1>1, <1>3, LevelsExist, MaxConditionDepthAssumption
  <2> QED BY <2>1 DEF IsLevels
<1>5. ASSUME NEW n \in 0 .. MaxConditionDepth PROVE f[n] = CheckAt(f, n)
  <2>1. CASE n = 0
    BY <1>4, <2>1 DEF CheckAt, first
  <2>2. CASE n # 0
    <3>1. n \in 1 .. MaxConditionDepth /\ n - 1 \in 0 .. MaxConditionDepth
      BY <2>2, MaxConditionDepthAssumption
    <3>2. f[n - 1] \in T /\ f[n] = step[f[n - 1]]
      BY <1>4, <3>1
    <3>3. f[n] = next(f[n - 1])
      BY <3>2 DEF step
    <3> QED BY <2>2, <3>3 DEF CheckAt
  <2> QED BY <2>1, <2>2
<1>6. IsCheck(f)
  <2>1. f = [n \in 0 .. MaxConditionDepth |-> f[n]]
    BY <1>4
  <2> QED BY <1>5, <2>1 DEF IsCheck
<1> QED BY <1>4, <1>6 DEF T

(* And so does what is a condition.                                        *)
LEMMA GrammarExists == \E f \in [0 .. MaxConditionDepth -> [Json -> BOOLEAN]] : IsGrammar(f)
<1> DEFINE first == [v \in Json |-> FALSE]
           next(below) ==
             [v \in Json |->
                \/ IsAttribute(v)
                \/ \E key \in {"all", "any"} : CombinationOf(v, key, below)
                \/ NotCondition(v, below)]
           T == [Json -> BOOLEAN]
           step == [below \in T |-> next(below)]
<1>1. first \in T
  OBVIOUS
<1>2. ASSUME NEW below \in T PROVE next(below) \in T
  OBVIOUS
<1>3. step \in [T -> T]
  BY <1>2
<1> HIDE DEF first, step, T
<1>4. PICK f \in [0 .. MaxConditionDepth -> T] :
        f[0] = first /\ \A n \in 1 .. MaxConditionDepth : f[n] = step[f[n - 1]]
  <2>1. \E f : IsLevels(MaxConditionDepth, f, T, first, step)
    BY <1>1, <1>3, LevelsExist, MaxConditionDepthAssumption
  <2> QED BY <2>1 DEF IsLevels
<1>5. ASSUME NEW n \in 0 .. MaxConditionDepth PROVE f[n] = ConditionAt(f, n)
  <2>1. CASE n = 0
    BY <1>4, <2>1 DEF ConditionAt, first
  <2>2. CASE n # 0
    <3>1. n \in 1 .. MaxConditionDepth /\ n - 1 \in 0 .. MaxConditionDepth
      BY <2>2, MaxConditionDepthAssumption
    <3>2. f[n - 1] \in T /\ f[n] = step[f[n - 1]]
      BY <1>4, <3>1
    <3>3. f[n] = next(f[n - 1])
      BY <3>2 DEF step
    <3> QED BY <2>2, <3>3 DEF ConditionAt
  <2> QED BY <2>1, <2>2
<1>6. IsGrammar(f)
  <2>1. f = [n \in 0 .. MaxConditionDepth |-> f[n]]
    BY <1>4
  <2> QED BY <1>5, <2>1 DEF IsGrammar
<1> QED BY <1>4, <1>6 DEF T

(* Level by level, what has no issue is what the grammar has.              *)
LEMMA LevelsAgree ==
  ASSUME NEW f \in [0 .. MaxConditionDepth -> [Json -> Places]], IsCheck(f),
         NEW g \in [0 .. MaxConditionDepth -> [Json -> BOOLEAN]], IsGrammar(g)
  PROVE  \A v \in Json : f[MaxConditionDepth][v] = {} <=> g[MaxConditionDepth][v]
<1> DEFINE S == {n \in Nat : n <= MaxConditionDepth => \A v \in Json : f[n][v] = {} <=> g[n][v]}
<1>1. \A n \in 0 .. MaxConditionDepth : f[n] = CheckAt(f, n) /\ g[n] = ConditionAt(g, n)
  BY DEF IsCheck, IsGrammar
<1>2. 0 \in S
  <2>1. f[0] = CheckAt(f, 0) /\ g[0] = ConditionAt(g, 0)
    BY <1>1, MaxConditionDepthAssumption
  <2> QED BY <2>1 DEF CheckAt, ConditionAt
<1>3. ASSUME NEW n \in Nat, n \in S PROVE n + 1 \in S
  <2> SUFFICES ASSUME n + 1 <= MaxConditionDepth, NEW v \in Json
               PROVE  f[n + 1][v] = {} <=> g[n + 1][v]
    OBVIOUS
  <2>1. /\ n \in 0 .. MaxConditionDepth /\ n + 1 \in 0 .. MaxConditionDepth
        /\ n + 1 # 0 /\ (n + 1) - 1 = n
    BY MaxConditionDepthAssumption
  <2>2. f[n] \in [Json -> Places] /\ g[n] \in [Json -> BOOLEAN]
    BY <2>1
  <2>3. \A x \in Json : f[n][x] = {} <=> g[n][x]
    BY <1>3, <2>1
  <2>4. f[n + 1][v] = IF ~IsRecord(v) THEN {<< >>} ELSE CheckNode(v, f[n])
    <3>1. f[n + 1] = CheckAt(f, n + 1)
      BY <1>1, <2>1
    <3> QED BY <2>1, <3>1 DEF CheckAt
  <2>5. g[n + 1][v] <=> \/ IsAttribute(v)
                        \/ \E key \in {"all", "any"} : CombinationOf(v, key, g[n])
                        \/ NotCondition(v, g[n])
    <3>1. g[n + 1] = ConditionAt(g, n + 1)
      BY <1>1, <2>1
    <3> QED BY <2>1, <3>1 DEF ConditionAt
  <2>6. CASE v.t # "record"
    BY <2>4, <2>5, <2>6
    DEF IsRecord, IsAttribute, AttributeComparison, AttributeMembership, AttributeReference,
        AttributePresence, CombinationOf, NotCondition, HasFields
  <2>7. CASE v.t = "record"
    BY <2>2, <2>3, <2>4, <2>5, <2>7, NodeIsChecked DEF IsRecord
  <2> QED BY <2>6, <2>7
<1>4. Nat \subseteq S
  <2> HIDE DEF S
  <2> QED BY <1>2, <1>3, NatSetInduction
<1> QED BY <1>4, MaxConditionDepthAssumption

(* The places that are found are paths.                                    *)
LEMMA CheckIsTyped ==
  ASSUME NEW f, IsCheck(f)
  PROVE  f \in [0 .. MaxConditionDepth -> [Json -> Places]]
<1> DEFINE S == {n \in Nat : n <= MaxConditionDepth => f[n] \in [Json -> Places]}
<1>1. /\ f = [n \in 0 .. MaxConditionDepth |-> f[n]]
      /\ \A n \in 0 .. MaxConditionDepth : f[n] = CheckAt(f, n)
  BY DEF IsCheck
<1>2. {<< >>} \in Places
  BY PlacesInLeaf DEF Places
<1>3. 0 \in S
  <2>1. f[0] = CheckAt(f, 0)
    BY <1>1, MaxConditionDepthAssumption
  <2> QED BY <1>2, <2>1 DEF CheckAt
<1>4. ASSUME NEW n \in Nat, n \in S PROVE n + 1 \in S
  <2> SUFFICES ASSUME n + 1 <= MaxConditionDepth PROVE f[n + 1] \in [Json -> Places]
    OBVIOUS
  <2>1. /\ n \in 0 .. MaxConditionDepth /\ n + 1 \in 0 .. MaxConditionDepth
        /\ n + 1 # 0 /\ (n + 1) - 1 = n
    BY MaxConditionDepthAssumption
  <2>2. f[n] \in [Json -> Places]
    BY <1>4, <2>1
  <2>3. \A v \in Json : v.t = "record" => CheckNode(v, f[n]) \in Places
    <3> DEFINE holds == [v \in Json |-> f[n][v] = {}]
    <3>1. holds \in [Json -> BOOLEAN] /\ \A v \in Json : f[n][v] = {} <=> holds[v]
      OBVIOUS
    <3> HIDE DEF holds
    <3> QED BY <2>2, <3>1, NodeIsChecked
  <2>4. f[n + 1] = [v \in Json |-> IF ~IsRecord(v) THEN {<< >>} ELSE CheckNode(v, f[n])]
    BY <1>1, <2>1 DEF CheckAt
  <2> QED BY <1>2, <2>3, <2>4 DEF IsRecord
<1>5. Nat \subseteq S
  <2> HIDE DEF S
  <2> QED BY <1>3, <1>4, NatSetInduction
<1> QED BY <1>1, <1>5, MaxConditionDepthAssumption

(* The issues of a condition are within it, and there are none just if it  *)
(* is one.                                                                 *)
LEMMA ConditionIsChecked ==
  ASSUME NEW v \in Json, NEW path
  PROVE  /\ \E places \in Places : CheckCondition(v, path) = {path \o place : place \in places}
         /\ CheckCondition(v, path) = {} <=> IsCondition(v)
<1> DEFINE f == CHOOSE f : IsCheck(f)
           g == CHOOSE g : IsGrammar(g)
           N == MaxConditionDepth
<1>1. IsCheck(f) /\ IsGrammar(g)
  BY CheckExists, GrammarExists
<1>2. CheckCondition(v, path) = {path \o place : place \in f[N][v]}
  BY DEF CheckCondition, IsCheck, CheckAt
<1>3. IsCondition(v) <=> g[N][v]
  BY DEF IsCondition, IsGrammar, ConditionAt
<1> HIDE DEF f, g
<1>4. f \in [0 .. N -> [Json -> Places]]
  BY <1>1, CheckIsTyped
<1>5. g \in [0 .. N -> [Json -> BOOLEAN]]
  <2>1. \A n \in 0 .. N : ConditionAt(g, n) \in [Json -> BOOLEAN]
    BY DEF ConditionAt
  <2>2. g = [n \in 0 .. N |-> ConditionAt(g, n)]
    BY <1>1 DEF IsGrammar
  <2> QED BY <2>1, <2>2
<1>6. f[N][v] \in Places /\ (f[N][v] = {} <=> g[N][v])
  <2>1. \A x \in Json : f[N][x] = {} <=> g[N][x]
    BY <1>1, <1>4, <1>5, LevelsAgree
  <2>2. N \in 0 .. N
    BY MaxConditionDepthAssumption
  <2> QED BY <1>4, <2>1, <2>2
<1>7. {path \o place : place \in f[N][v]} = {} <=> f[N][v] = {}
  <2>1. CASE f[N][v] = {}
    BY <2>1
  <2>2. CASE f[N][v] # {}
    <3>1. PICK place \in f[N][v] : TRUE
      BY <2>2
    <3>2. path \o place \in {path \o p : p \in f[N][v]}
      OBVIOUS
    <3> QED BY <2>2, <3>2
  <2> QED BY <2>1, <2>2
<1> QED BY <1>2, <1>3, <1>6, <1>7

-----------------------------------------------------------------------------
(* Conditions that are broken, and where they are reported.                *)

(* What is found is at what is broken, and something is at each of it.     *)
Located(found, broken) ==
  /\ found \subseteq UNION {At(node) : node \in broken}
  /\ \A node \in broken : At(node) \cap found # {}

(* And so it is if all of it is inside of something else.                  *)
LEMMA LocatedInside ==
  ASSUME NEW S, NEW head \in Seq(S), NEW found, NEW broken \in SUBSET Seq(S),
         Located(found, broken)
  PROVE  Located({head \o place : place \in found}, {head \o node : node \in broken})
<1>1. ASSUME NEW node \in broken, NEW place \in At(node)
      PROVE  head \o place \in At(head \o node)
  <2>1. CASE place = node
    BY <2>1 DEF At
  <2>2. ASSUME NEW key \in {"path", "op", "value", "ref", "all", "any"}, place = Append(node, key)
        PROVE  head \o place \in At(head \o node)
    <3> DEFINE T == S \cup {key}
    <3>1. head \in Seq(T) /\ node \in Seq(T) /\ key \in T
      OBVIOUS
    <3> HIDE DEF T
    <3>2. head \o Append(node, key) = Append(head \o node, key)
      BY <3>1
    <3> QED BY <2>2, <3>2 DEF At
  <2> QED BY <2>1, <2>2 DEF At
<1> DEFINE places == {head \o place : place \in found}
           nodes == {head \o node : node \in broken}
<1>2. ASSUME NEW x \in places PROVE \E node \in nodes : x \in At(node)
  <2>1. PICK place \in found : x = head \o place
    OBVIOUS
  <2>2. PICK node \in broken : place \in At(node)
    BY DEF Located
  <2>3. x \in At(head \o node) /\ head \o node \in nodes
    BY <1>1, <2>1, <2>2
  <2> HIDE DEF nodes
  <2> QED BY <2>3
<1>3. ASSUME NEW n \in nodes PROVE At(n) \cap places # {}
  <2>1. PICK node \in broken : n = head \o node
    OBVIOUS
  <2>2. PICK place \in found : place \in At(node)
    BY DEF Located
  <2>3. head \o place \in places /\ head \o place \in At(n)
    BY <1>1, <2>1, <2>2
  <2> HIDE DEF places
  <2> QED BY <2>3
<1> HIDE DEF places, nodes
<1>4. Located(places, nodes)
  BY <1>2, <1>3 DEF Located
<1> QED BY <1>4 DEF places, nodes

(* Of several parts, too.                                                  *)
LEMMA LocatedTogether ==
  ASSUME NEW I, NEW found, NEW broken, \A i \in I : Located(found[i], broken[i]),
         NEW all, \A x : x \in all <=> \E i \in I : x \in found[i],
         NEW nodes, \A x : x \in nodes <=> \E i \in I : x \in broken[i]
  PROVE  Located(all, nodes)
<1>1. ASSUME NEW x \in all PROVE \E node \in nodes : x \in At(node)
  <2>1. PICK i \in I : x \in found[i]
    OBVIOUS
  <2>2. PICK node \in broken[i] : x \in At(node)
    BY <2>1 DEF Located
  <2> QED BY <2>2
<1>2. ASSUME NEW node \in nodes PROVE At(node) \cap all # {}
  <2>1. PICK i \in I : node \in broken[i]
    OBVIOUS
  <2>2. PICK x \in found[i] : x \in At(node)
    BY <2>1 DEF Located
  <2> QED BY <2>2
<1> QED BY <1>1, <1>2 DEF Located

(* A single thing is located at itself or at one of its fields.            *)
LEMMA LocatedHere ==
  ASSUME NEW found, found # {}, found \subseteq At(<< >>)
  PROVE  Located(found, {<< >>})
BY DEF Located

LEMMA FieldsAreHere ==
  /\ << >> \in At(<< >>)
  /\ \A key \in {"path", "op", "value", "ref", "all", "any"} : << key >> \in At(<< >>)
<1>1. \A key \in {"path", "op", "value", "ref", "all", "any"} : Append(<< >>, key) = << key >>
  OBVIOUS
<1> QED BY <1>1 DEF At

(* The defects of a leaf are its own.                                      *)
LEMMA LeafIsHere ==
  ASSUME NEW v
  PROVE  CheckLeaf(v) \subseteq At(<< >>)
<1>1. CheckPath(Own(v, "path"), << "path" >>) \subseteq {<< "path" >>}
  BY DEF CheckPath
<1>2. \A op : CheckOperand(v, op) \subseteq {<< "ref" >>, << "value" >>}
  BY DEF CheckOperand, CheckPath
<1>3. CheckLeaf(v) \subseteq {<< >>, << "path" >>, << "op" >>, << "ref" >>, << "value" >>}
  BY <1>1, <1>2 DEF CheckLeaf
<1> QED BY <1>3, FieldsAreHere

(* The key that a combination has, and what is broken inside of it.        *)
ListsOf(v) == {key \in {"all", "any"} : HasFields(v, {key}) /\ Filled(v.fields[key])}

BrokenInside(v, key, broken) ==
  UNION {{<< key, Index[i] >> \o node : node \in broken[v.fields[key].items[i]]} :
           i \in DOMAIN v.fields[key].items}

LEMMA BrokenNodeIs ==
  ASSUME NEW v, NEW broken
  PROVE  /\ HasFields(v, {"not"}) =>
              BrokenNode(v, broken) = {<< "not" >> \o node : node \in broken[v.fields["not"]]}
         /\ \A key \in ListsOf(v) : BrokenNode(v, broken) = BrokenInside(v, key, broken)
         /\ ~HasFields(v, {"not"}) /\ ListsOf(v) = {} =>
              BrokenNode(v, broken) = IF IsAttribute(v) THEN {} ELSE {<< >>}
<1>1. BrokenNode(v, broken) =
        CASE HasFields(v, {"not"}) -> {<< "not" >> \o node : node \in broken[v.fields["not"]]}
          [] ListsOf(v) # {} -> UNION {BrokenInside(v, key, broken) : key \in ListsOf(v)}
          [] OTHER -> IF IsAttribute(v) THEN {} ELSE {<< >>}
  BY DEF BrokenNode, ListsOf, BrokenInside
<1>2. ASSUME HasFields(v, {"not"}) PROVE ListsOf(v) = {}
  BY <1>2 DEF ListsOf, HasFields
<1>3. ASSUME NEW key \in ListsOf(v) PROVE ListsOf(v) = {key} /\ ~HasFields(v, {"not"})
  BY DEF ListsOf, HasFields
<1>4. ASSUME NEW key \in ListsOf(v) PROVE BrokenNode(v, broken) = BrokenInside(v, key, broken)
  <2>1. BrokenNode(v, broken) = UNION {BrokenInside(v, k, broken) : k \in ListsOf(v)}
    BY <1>1, <1>3
  <2>2. UNION {BrokenInside(v, k, broken) : k \in {key}} = BrokenInside(v, key, broken)
    OBVIOUS
  <2> QED BY <1>3, <2>1, <2>2
<1> QED BY <1>1, <1>2, <1>4

(* What is broken is at paths.                                             *)
LEMMA BrokenNodeIsTyped ==
  ASSUME NEW v \in Json, NEW broken \in [Json -> Places]
  PROVE  BrokenNode(v, broken) \in Places
<1>1. CASE HasFields(v, {"not"})
  <2>1. v.fields["not"] \in Json /\ << "not" >> \in Seq(Segments)
    BY <1>1, InsideJson, PlacesInLeaf DEF HasFields
  <2>2. \A node \in broken[v.fields["not"]] : << "not" >> \o node \in Seq(Segments)
    BY <2>1 DEF Places
  <2>3. BrokenNode(v, broken) = {<< "not" >> \o node : node \in broken[v.fields["not"]]}
    BY <1>1, BrokenNodeIs
  <2> QED BY ONLY <2>2, <2>3 DEF Places
<1>2. ASSUME NEW key \in ListsOf(v) PROVE BrokenNode(v, broken) \in Places
  <2>1. key \in {"all", "any"} /\ v.fields[key] \in Json /\ v.fields[key].t = "list"
    BY InsideJson DEF ListsOf, HasFields, Filled
  <2>2. \A i \in DOMAIN v.fields[key].items : i \in Nat /\ v.fields[key].items[i] \in Json
    <3> DEFINE list == v.fields[key]
    <3>1. list.items \in Seq(Json) /\ \A i \in DOMAIN list.items : list.items[i] \in Json
      BY <2>1, InsideJson
    <3> HIDE DEF list
    <3>2. \A i \in DOMAIN list.items : i \in Nat
      BY <3>1
    <3> QED BY <3>1, <3>2 DEF list
  <2>3. ASSUME NEW i \in DOMAIN v.fields[key].items,
               NEW node \in broken[v.fields[key].items[i]]
        PROVE  << key, Index[i] >> \o node \in Seq(Segments)
    <3>1. << key, Index[i] >> \in Seq(Segments)
      BY <2>1, <2>2 DEF Segments
    <3>2. node \in Seq(Segments)
      BY <2>2 DEF Places
    <3> QED BY <3>1, <3>2
  <2>4. BrokenInside(v, key, broken) \in Places
    <3>1. ASSUME NEW x \in BrokenInside(v, key, broken) PROVE x \in Seq(Segments)
      <4>1. PICK i \in DOMAIN v.fields[key].items :
              \E node \in broken[v.fields[key].items[i]] : x = << key, Index[i] >> \o node
        BY DEF BrokenInside
      <4> QED BY <2>3, <4>1
    <3> QED BY ONLY <3>1 DEF Places
  <2> QED BY <2>4, BrokenNodeIs
<1>3. CASE ~HasFields(v, {"not"}) /\ ListsOf(v) = {}
  BY <1>3, BrokenNodeIs, PlacesInLeaf DEF Places
<1> QED BY <1>1, <1>2, <1>3

(* A condition is looked through one level at a time.                      *)
LEMMA NodeIsLocated ==
  ASSUME NEW v \in Json, NEW below \in [Json -> Places], NEW broken \in [Json -> Places],
         \A x \in Json : Located(below[x], broken[x])
  PROVE  Located(IF ~IsRecord(v) THEN {<< >>} ELSE CheckNode(v, below), BrokenNode(v, broken))
<1> DEFINE keys == DOMAIN v.fields
           combinator == keys \cap CombinatorKeys
           key == CHOOSE k \in combinator : TRUE
           inner == Own(v, key)
<1>0. Located({<< >>}, {<< >>})
  BY LocatedHere, FieldsAreHere
<1>1. CASE v.t # "record"
  <2>1. ~HasFields(v, {"not"}) /\ ListsOf(v) = {} /\ ~IsAttribute(v)
    BY <1>1 DEF HasFields, ListsOf, IsAttribute, AttributeComparison, AttributeMembership,
                AttributeReference, AttributePresence
  <2> QED BY <1>0, <1>1, <2>1, BrokenNodeIs DEF IsRecord
<1> SUFFICES ASSUME v.t = "record" PROVE Located(CheckNode(v, below), BrokenNode(v, broken))
  BY <1>1 DEF IsRecord
<1>2. \A k \in keys : v.fields[k] \in Json /\ Own(v, k) = v.fields[k]
  BY InsideJson
<1>3. CASE combinator = {}
  <2>1. ~HasFields(v, {"not"}) /\ ListsOf(v) = {}
    BY <1>3 DEF ListsOf, HasFields, CombinatorKeys
  <2>2. BrokenNode(v, broken) = IF IsAttribute(v) THEN {} ELSE {<< >>}
    BY <2>1, BrokenNodeIs
  <2>3. CASE keys \subseteq LeafKeys
    <3>1. CheckNode(v, below) = CheckLeaf(v)
      BY <1>3, <2>3 DEF CheckNode
    <3>2. CheckLeaf(v) = {} <=> IsAttribute(v)
      BY <2>3, LeafIsChecked
    <3>3. CASE IsAttribute(v)
      BY <2>2, <3>1, <3>2, <3>3 DEF Located
    <3>4. CASE ~IsAttribute(v)
      BY <2>2, <3>1, <3>2, <3>4, LeafIsHere, LocatedHere
    <3> QED BY <3>3, <3>4
  <2>4. CASE ~(keys \subseteq LeafKeys)
    <3>1. CheckNode(v, below) = {<< >>}
      BY <1>3, <2>4 DEF CheckNode
    <3>2. ~IsAttribute(v)
      BY <2>4 DEF IsAttribute, AttributeComparison, AttributeMembership, AttributeReference,
                  AttributePresence, HasFields, LeafKeys
    <3> QED BY <1>0, <2>2, <3>1, <3>2
  <2> QED BY <2>3, <2>4
<1>4. CASE combinator # {}
  <2>1. key \in combinator /\ key \in CombinatorKeys /\ key \in keys
    BY <1>4
  <2>2. ~IsAttribute(v)
    <3>1. key \notin {"path", "op", "value", "ref"}
      BY <2>1 DEF CombinatorKeys
    <3> HIDE DEF key
    <3> QED BY <2>1, <3>1 DEF IsAttribute, AttributeComparison, AttributeMembership,
                        AttributeReference, AttributePresence, HasFields
  <2>3. CASE keys # {key}
    <3>1. CheckNode(v, below) = {<< >>}
      BY <1>4, <2>3 DEF CheckNode
    <3>2. \A k \in CombinatorKeys : keys # {k}
      BY <2>1, <2>3
    <3>3. ~HasFields(v, {"not"}) /\ ListsOf(v) = {}
      <4> HIDE DEF key, combinator
      <4> QED BY <3>2 DEF HasFields, ListsOf, CombinatorKeys
    <3> HIDE DEF key, combinator
    <3> QED BY <1>0, <2>2, <3>1, <3>3, BrokenNodeIs
  <2>4. CASE keys = {key}
    <3>1. inner \in Json /\ inner = v.fields[key]
      BY <1>2, <2>1
    <3>2. ASSUME NEW k \in CombinatorKeys PROVE HasFields(v, {k}) <=> k = key
      <4> HIDE DEF key, combinator
      <4> QED BY <2>4 DEF HasFields
    <3>3. CASE key = "not"
      <4>1. CheckNode(v, below) = {<< key >> \o place : place \in below[inner]}
        BY <1>4, <2>4, <3>3 DEF CheckNode
      <4> HIDE DEF key, combinator, inner
      <4>2. HasFields(v, {"not"})
        BY <3>2, <3>3 DEF CombinatorKeys
      <4>3. BrokenNode(v, broken) = {<< key >> \o node : node \in broken[inner]}
        BY <3>1, <3>3, <4>2, BrokenNodeIs
      <4>4. << key >> \in Seq(Segments) /\ broken[inner] \in SUBSET Seq(Segments)
        BY <3>1, <3>3, PlacesInLeaf DEF Places
      <4>5. Located(below[inner], broken[inner])
        BY <3>1
      <4>6. Located({<< key >> \o place : place \in below[inner]},
                    {<< key >> \o node : node \in broken[inner]})
        BY ONLY <4>4, <4>5, LocatedInside
      <4> QED BY <4>1, <4>3, <4>6
    <3>4. CASE key # "not" /\ ~Filled(inner)
      <4>1. CheckNode(v, below) = {<< key >>}
        BY <1>4, <2>4, <3>4 DEF CheckNode, Filled, FilledList
      <4> HIDE DEF key, combinator, inner
      <4>2. ~HasFields(v, {"not"}) /\ ListsOf(v) = {}
        BY <3>1, <3>2, <3>4 DEF ListsOf, CombinatorKeys
      <4>3. BrokenNode(v, broken) = {<< >>}
        BY <2>2, <4>2, BrokenNodeIs
      <4>4. key \in {"all", "any"}
        BY <2>1, <3>4 DEF CombinatorKeys
      <4> QED BY <4>1, <4>3, <4>4, LocatedHere, FieldsAreHere
    <3>5. CASE key # "not" /\ Filled(inner)
      <4> DEFINE I == DOMAIN inner.items
                 found == [i \in I |-> {<< key, Index[i] >> \o place : place \in below[inner.items[i]]}]
                 nodes == [i \in I |-> {<< key, Index[i] >> \o node : node \in broken[inner.items[i]]}]
      <4>1. CheckNode(v, below) = UNION {{<< key, Index[i] >> \o place : place \in below[inner.items[i]]} : i \in I}
        BY <1>4, <2>4, <3>5 DEF CheckNode, Filled, FilledList
      <4> HIDE DEF key, combinator, inner
      <4>2. key \in ListsOf(v)
        BY <2>1, <3>1, <3>2, <3>5 DEF ListsOf, CombinatorKeys
      <4>3. BrokenNode(v, broken) = UNION {{<< key, Index[i] >> \o node : node \in broken[inner.items[i]]} : i \in I}
        <5>1. BrokenNode(v, broken) = BrokenInside(v, key, broken)
          BY <4>2, BrokenNodeIs
        <5>2. v.fields[key] = inner
          BY <3>1
        <5> QED BY ONLY <5>1, <5>2 DEF BrokenInside, I
      <4>4. /\ inner.items \in Seq(Json) /\ \A i \in I : inner.items[i] \in Json
            /\ \A i \in I : i \in Nat
        BY <3>1, <3>5, InsideJson DEF Filled
      <4>5. ASSUME NEW i \in I PROVE Located(found[i], nodes[i])
        <5>1. << key, Index[i] >> \in Seq(Segments)
          BY <2>1, <4>4 DEF Segments, CombinatorKeys
        <5> DEFINE item == inner.items[i]
        <5>2. item \in Json
          BY <4>4
        <5> HIDE DEF item
        <5>3. Located(below[item], broken[item]) /\ broken[item] \in SUBSET Seq(Segments)
          BY <5>2 DEF Places
        <5> DEFINE head == << key, Index[i] >>
        <5>4. Located({head \o place : place \in below[item]}, {head \o node : node \in broken[item]})
          <6> HIDE DEF head
          <6>1. head \in Seq(Segments)
            BY <5>1 DEF head
          <6> QED BY ONLY <5>3, <6>1, LocatedInside
        <5> QED BY <5>4 DEF item
      <4>6. \A x : x \in CheckNode(v, below) <=> \E i \in I : x \in found[i]
        <5> DEFINE part(i) == {<< key, Index[i] >> \o place : place \in below[inner.items[i]]}
        <5>1. CheckNode(v, below) = UNION {part(i) : i \in I}
          BY ONLY <4>1
        <5>2. \A i \in I : found[i] = part(i)
          OBVIOUS
        <5> HIDE DEF part, found, I
        <5> QED BY ONLY <5>1, <5>2
      <4>7. \A x : x \in BrokenNode(v, broken) <=> \E i \in I : x \in nodes[i]
        <5> DEFINE part(i) == {<< key, Index[i] >> \o node : node \in broken[inner.items[i]]}
        <5>1. BrokenNode(v, broken) = UNION {part(i) : i \in I}
          BY ONLY <4>3
        <5>2. \A i \in I : nodes[i] = part(i)
          OBVIOUS
        <5> HIDE DEF part, nodes, I
        <5> QED BY ONLY <5>1, <5>2
      <4> HIDE DEF found, nodes, I
      <4> QED BY ONLY <4>5, <4>6, <4>7, LocatedTogether
    <3> QED BY <3>3, <3>4, <3>5
  <2> QED BY <2>3, <2>4
<1> QED BY <1>3, <1>4

BrokenAt(f, n) == [v \in Json |-> IF n = 0 THEN {<< >>} ELSE BrokenNode(v, f[n - 1])]

IsBroken(f) == f = [n \in 0 .. MaxConditionDepth |-> BrokenAt(f, n)]

(* Every level has what is broken of it.                                   *)
LEMMA BrokenExists == \E f \in [0 .. MaxConditionDepth -> [Json -> Places]] : IsBroken(f)
<1> DEFINE first == [v \in Json |-> {<< >>}]
           next(broken) == [v \in Json |-> BrokenNode(v, broken)]
           T == [Json -> Places]
           step == [broken \in T |-> next(broken)]
<1>1. first \in T
  BY PlacesInLeaf DEF Places
<1>2. ASSUME NEW broken \in T PROVE next(broken) \in T
  BY BrokenNodeIsTyped
<1>3. step \in [T -> T]
  BY <1>2
<1> HIDE DEF first, step, T
<1>4. PICK f \in [0 .. MaxConditionDepth -> T] :
        f[0] = first /\ \A n \in 1 .. MaxConditionDepth : f[n] = step[f[n - 1]]
  <2>1. \E f : IsLevels(MaxConditionDepth, f, T, first, step)
    BY <1>1, <1>3, LevelsExist, MaxConditionDepthAssumption
  <2> QED BY <2>1 DEF IsLevels
<1>5. ASSUME NEW n \in 0 .. MaxConditionDepth PROVE f[n] = BrokenAt(f, n)
  <2>1. CASE n = 0
    BY <1>4, <2>1 DEF BrokenAt, first
  <2>2. CASE n # 0
    <3>1. n \in 1 .. MaxConditionDepth /\ n - 1 \in 0 .. MaxConditionDepth
      BY <2>2, MaxConditionDepthAssumption
    <3>2. f[n - 1] \in T /\ f[n] = step[f[n - 1]]
      BY <1>4, <3>1
    <3>3. f[n] = next(f[n - 1])
      BY <3>2 DEF step
    <3> QED BY <2>2, <3>3 DEF BrokenAt
  <2> QED BY <2>1, <2>2
<1>6. IsBroken(f)
  <2>1. f = [n \in 0 .. MaxConditionDepth |-> f[n]]
    BY <1>4
  <2> QED BY <1>5, <2>1 DEF IsBroken
<1> QED BY <1>4, <1>6 DEF T

(* Level by level, what is found is at what is broken.                     *)
LEMMA LevelsAreLocated ==
  ASSUME NEW f, IsCheck(f), NEW g, IsBroken(g)
  PROVE  \A v \in Json : /\ Located(f[MaxConditionDepth][v], g[MaxConditionDepth][v])
                         /\ g[MaxConditionDepth][v] \in Places
<1> DEFINE Good(n) == /\ g[n] \in [Json -> Places]
                      /\ \A v \in Json : Located(f[n][v], g[n][v])
           S == {n \in Nat : n <= MaxConditionDepth => Good(n)}
<1>1. \A n \in 0 .. MaxConditionDepth : f[n] = CheckAt(f, n) /\ g[n] = BrokenAt(g, n)
  BY DEF IsCheck, IsBroken
<1>2. 0 \in S
  <2>1. f[0] = [v \in Json |-> {<< >>}] /\ g[0] = [v \in Json |-> {<< >>}]
    <3>1. f[0] = CheckAt(f, 0) /\ g[0] = BrokenAt(g, 0)
      BY <1>1, MaxConditionDepthAssumption
    <3> QED BY <3>1 DEF CheckAt, BrokenAt
  <2>2. Located({<< >>}, {<< >>})
    BY LocatedHere, FieldsAreHere
  <2>3. {<< >>} \in Places
    BY PlacesInLeaf DEF Places
  <2> QED BY <2>1, <2>2, <2>3
<1>3. ASSUME NEW n \in Nat, n \in S PROVE n + 1 \in S
  <2> SUFFICES ASSUME n + 1 <= MaxConditionDepth PROVE Good(n + 1)
    OBVIOUS
  <2>1. /\ n \in 0 .. MaxConditionDepth /\ n + 1 \in 0 .. MaxConditionDepth
        /\ n + 1 # 0 /\ (n + 1) - 1 = n
    BY MaxConditionDepthAssumption
  <2>2. Good(n)
    BY <1>3, <2>1
  <2>3. f[n] \in [Json -> Places]
    BY <2>1, CheckIsTyped
  <2>4. f[n + 1] = [v \in Json |-> IF ~IsRecord(v) THEN {<< >>} ELSE CheckNode(v, f[n])]
    BY <1>1, <2>1 DEF CheckAt
  <2>5. g[n + 1] = [v \in Json |-> BrokenNode(v, g[n])]
    BY <1>1, <2>1 DEF BrokenAt
  <2>6. g[n + 1] \in [Json -> Places]
    BY <2>2, <2>5, BrokenNodeIsTyped
  <2>7. ASSUME NEW v \in Json PROVE Located(f[n + 1][v], g[n + 1][v])
    BY <2>2, <2>3, <2>4, <2>5, NodeIsLocated
  <2> QED BY <2>6, <2>7
<1>4. Nat \subseteq S
  <2> HIDE DEF S
  <2> QED BY <1>2, <1>3, NatSetInduction
<1>5. Good(MaxConditionDepth)
  BY <1>4, MaxConditionDepthAssumption
<1> QED BY <1>5

(* The issues of a condition are located at what is broken in it.          *)
LEMMA ConditionIsLocated ==
  ASSUME NEW v \in Json, NEW S, NEW path \in Seq(S)
  PROVE  Located(CheckCondition(v, path), {path \o node : node \in BrokenIn(v)})
<1> DEFINE f == CHOOSE f : IsCheck(f)
           g == CHOOSE g : IsBroken(g)
           N == MaxConditionDepth
<1>1. IsCheck(f) /\ IsBroken(g)
  BY CheckExists, BrokenExists
<1>2. CheckCondition(v, path) = {path \o place : place \in f[N][v]}
  BY DEF CheckCondition, IsCheck, CheckAt
<1>3. BrokenIn(v) = g[N][v]
  BY DEF BrokenIn, IsBroken, BrokenAt
<1> HIDE DEF f, g, N
<1>4. Located(f[N][v], g[N][v]) /\ g[N][v] \in Places
  BY <1>1, LevelsAreLocated DEF N
<1> DEFINE T == Segments \cup S
<1>5. path \in Seq(T) /\ g[N][v] \in SUBSET Seq(T)
  BY <1>4 DEF Places
<1> HIDE DEF T
<1>6. Located({path \o place : place \in f[N][v]}, {path \o node : node \in g[N][v]})
  BY ONLY <1>4, <1>5, LocatedInside
<1> QED BY <1>2, <1>3, <1>6

-----------------------------------------------------------------------------
(* Paths, and what is reported below them.                                 *)

Begins(short, long) == Len(short) <= Len(long) /\ \A n \in DOMAIN short : long[n] = short[n]

Below(place, issues) == \A issue \in issues : Begins(place, issue)

(* A path begins with itself, and its continuations begin with it.         *)
LEMMA PathsBegin ==
  ASSUME NEW S, NEW p \in Seq(S)
  PROVE  /\ Begins(p, p)
         /\ \A q \in Seq(S) : Begins(p, p \o q)
         /\ \A x : Begins(p, Append(p, x))
<1>1. Begins(p, p)
  BY DEF Begins
<1>2. ASSUME NEW q \in Seq(S) PROVE Begins(p, p \o q)
  BY DEF Begins
<1>3. ASSUME NEW x PROVE Begins(p, Append(p, x))
  <2>1. p \in Seq(S \cup {x}) /\ x \in S \cup {x}
    OBVIOUS
  <2> QED BY <2>1 DEF Begins
<1> QED BY <1>1, <1>2, <1>3

(* The paths of the entries of a list that are wrong.                      *)
Entries(path, bad) == {Append(path, Index[i]) : i \in bad}

(* They are below the list's path, and there are none if no entry is       *)
(* wrong.                                                                  *)
LEMMA EntriesAreReported ==
  ASSUME NEW S, NEW path \in Seq(S), NEW bad
  PROVE  Below(path, Entries(path, bad)) /\ (Entries(path, bad) = {} <=> bad = {})
<1>1. Below(path, Entries(path, bad))
  BY PathsBegin DEF Below, Entries
<1>2. CASE bad = {}
  BY <1>1, <1>2 DEF Entries
<1>3. CASE bad # {}
  <2>1. PICK i \in bad : TRUE
    BY <1>3
  <2>2. Append(path, Index[i]) \in Entries(path, bad)
    BY DEF Entries
  <2> QED BY <1>1, <1>3, <2>2
<1> QED BY <1>2, <1>3

-----------------------------------------------------------------------------
(* What is declared.                                                       *)

(* The names of a list that fits, and the entries that do not.             *)
LEMMA NamesAreRead ==
  ASSUME NEW v, NEW key
  PROVE  /\ ReadNameList(v, << key >>).names = NamesIn(v, Declarable)
         /\ Below(<< key >>, ReadNameList(v, << key >>).issues)
         /\ ReadNameList(v, << key >>).issues = {} <=>
              (Filled(v) /\ \A item \in ItemsOf(v) : Declarable(item))
<1> DEFINE read == ReadNameList(v, << key >>)
           bad == {i \in DOMAIN v.items : ~Declarable(v.items[i])}
<1>1. \A entry : (IsName(entry) /\ entry.text # "*") <=> Declarable(entry)
  BY DEF IsName, Declarable, NonEmpty
<1>2. CASE Filled(v)
  <2>1. read = [names |-> {v.items[i].text : i \in {j \in DOMAIN v.items : Declarable(v.items[j])}},
                issues |-> Entries(<< key >>, bad)]
    BY <1>1, <1>2 DEF ReadNameList, FilledList, Filled, Sifted, Entries
  <2>2. read.names = NamesIn(v, Declarable)
    BY <1>2, <2>1 DEF NamesIn, ItemsOf, Filled
  <2>3. << key >> \in Seq({key})
    OBVIOUS
  <2>4. Below(<< key >>, read.issues) /\ (read.issues = {} <=> bad = {})
    <3>1. Below(<< key >>, Entries(<< key >>, bad)) /\ (Entries(<< key >>, bad) = {} <=> bad = {})
      <4> HIDE DEF bad
      <4> QED BY <2>3, EntriesAreReported
    <3> QED BY <2>1, <3>1
  <2>5. bad = {} <=> \A item \in ItemsOf(v) : Declarable(item)
    BY DEF ItemsOf
  <2> QED BY <1>2, <2>2, <2>4, <2>5, Zenon
<1>3. CASE ~Filled(v)
  <2>1. read = [names |-> {}, issues |-> {<< key >>}]
    BY <1>3 DEF ReadNameList, FilledList, Filled, Nothing
  <2>2. NamesIn(v, Declarable) = {}
    BY <1>3 DEF NamesIn, Filled, ItemsOf
  <2>3. Begins(<< key >>, << key >>)
    BY DEF Begins
  <2> QED BY <1>3, <2>1, <2>2, <2>3 DEF Below
<1> QED BY <1>2, <1>3

(* Of a list: the names that are among some, and the places of the others. *)
WrongIn(items, names) == {i \in DOMAIN items : ~OneOf(items[i], names)}
RightIn(items, names) == {items[i].text : i \in {j \in DOMAIN items : OneOf(items[j], names)}}

(* A list holds finitely many texts.                                       *)
LEMMA ImageIsFinite ==
  ASSUME NEW U, NEW items \in Seq(U), NEW D, D \subseteq DOMAIN items
  PROVE  IsFiniteSet({items[i].text : i \in D})
<1> DEFINE T == {items[i].text : i \in D}
           f == [i \in D |-> items[i].text]
<1>1. IsFiniteSet(1 .. Len(items)) /\ DOMAIN items = 1 .. Len(items)
  BY FS_Interval
<1>2. IsFiniteSet(D)
  BY <1>1, FS_Subset
<1>3. f \in Surjection(D, T)
  BY DEF Surjection
<1> HIDE DEF f, T
<1>4. IsFiniteSet(T)
  BY <1>2, <1>3, FS_Surjection
<1> QED BY <1>4 DEF T

(* And so finitely many that are right.                                    *)
LEMMA RightIsFinite ==
  ASSUME NEW U, NEW items \in Seq(U), NEW names
  PROVE  IsFiniteSet(RightIn(items, names))
BY ImageIsFinite DEF RightIn

RolesIn(v) ==
  IF v.t = "record" THEN DOMAIN v.fields \ (Unwalkable \cup {""}) ELSE NamesIn(v, RoleName)

(* A path of two steps begins with the first of them, and so does what     *)
(* continues it.                                                           *)
LEMMA PairsBegin ==
  ASSUME NEW x, NEW y
  PROVE  /\ << x, y >> \in Seq({x, y})
         /\ Begins(<< x >>, << x, y >>)
         /\ \A z : Begins(<< x >>, Append(<< x, y >>, z))
<1>1. << x, y >> \in Seq({x, y})
  OBVIOUS
<1>2. Begins(<< x >>, << x, y >>)
  BY DEF Begins
<1>3. ASSUME NEW z PROVE Begins(<< x >>, Append(<< x, y >>, z))
  <2> DEFINE S == {x, y, z}
             p == << x, y >>
             q == Append(p, z)
  <2>1. p \in Seq(S) /\ z \in S
    OBVIOUS
  <2>0. Len(p) = 2 /\ p[1] = x
    OBVIOUS
  <2> HIDE DEF p, S
  <2>2. Len(q) = 3 /\ q[1] = p[1]
    <3>1. Len(q) = Len(p) + 1 /\ \A i \in 1 .. Len(p) : q[i] = p[i]
      BY <2>1, AppendProperties
    <3> QED BY <2>0, <3>1
  <2>3. Len(<< x >>) = 1 /\ DOMAIN << x >> = {1} /\ << x >>[1] = x
    OBVIOUS
  <2>4. Begins(<< x >>, q)
    BY <2>0, <2>2, <2>3 DEF Begins
  <2> QED BY <2>4 DEF p
<1> QED BY <1>1, <1>2, <1>3

(* What is found in each of some places.                                   *)
Together(found, keys, more) == (UNION {found[r] : r \in keys}) \cup more

(* Nothing is found in all of them if nothing is found in any, and what is *)
(* below a place in each is below it in all.                               *)
LEMMA FoundTogether ==
  ASSUME NEW found, NEW keys, NEW more
  PROVE  /\ Together(found, keys, more) = {} <=> more = {} /\ \A r \in keys : found[r] = {}
         /\ \A place : Below(place, Together(found, keys, more)) <=>
                       Below(place, more) /\ \A r \in keys : Below(place, found[r])
<1>1. \A x : x \in Together(found, keys, more) <=> x \in more \/ \E r \in keys : x \in found[r]
  BY DEF Together
<1> QED BY <1>1 DEF Below

(* The roles that are read, each with some of them, and what does not fit. *)
LEMMA RolesAreRead ==
  ASSUME NEW v, v = Undefined \/ v \in Json
  PROVE  /\ ReadRoles(v).graph \in [RolesIn(v) -> SUBSET RolesIn(v)]
         /\ \A r \in RolesIn(v) : IsFiniteSet(ReadRoles(v).graph[r])
         /\ Below(<< "roles" >>, ReadRoles(v).issues)
         /\ ReadRoles(v).issues = {} <=> RolesFit(v)
<1> DEFINE read == ReadRoles(v)
           here == << "roles" >>
<1>0. Undefined.t # "list" /\ Undefined.t # "record" /\ here \in Seq({"roles"})
  BY DEF Undefined
<1>a. Begins(here, here)
  BY <1>0, PathsBegin
<1>1. CASE v = Undefined
  <2>1. read = [graph |-> << >>, issues |-> {}]
    <3>1. v.t # "list" /\ v.t # "record"
      BY <1>0, <1>1
    <3> QED BY <1>1, <3>1 DEF ReadRoles, IsRecord
  <2>2. RolesIn(v) = {}
    BY <1>0, <1>1 DEF RolesIn, NamesIn
  <2>3. << >> \in [{} -> SUBSET {}]
    OBVIOUS
  <2> QED BY <1>1, <2>1, <2>2, <2>3 DEF Below, RolesFit
<1>2. CASE v.t = "list"
  <2> DEFINE bad == {i \in DOMAIN v.items : ~RoleName(v.items[i])}
             good == {v.items[i].text : i \in {j \in DOMAIN v.items : RoleName(v.items[j])}}
  <2>0. v # Undefined
    BY <1>0, <1>2
  <2>1. \A entry : (IsName(entry) /\ entry.text \notin ForbiddenSegments) <=> RoleName(entry)
    BY DEF IsName, RoleName, NonEmpty, ForbiddenSegments, Unwalkable
  <2>2. read = [graph |-> [r \in good |-> {}], issues |-> Entries(here, bad)]
    <3> HIDE <1>0
    <3> QED BY <1>2, <2>0, <2>1 DEF ReadRoles, Sifted, Entries, IsRecord
  <2>3. RolesIn(v) = good
    BY <1>2 DEF RolesIn, NamesIn, ItemsOf
  <2>4. Below(here, Entries(here, bad)) /\ (Entries(here, bad) = {} <=> bad = {})
    <3> HIDE DEF bad, here
    <3> QED BY <1>0, EntriesAreReported
  <2>5. RolesFit(v) <=> bad = {}
    BY <1>2, <2>0 DEF RolesFit, ItemsOf
  <2>6. read.graph \in [good -> SUBSET good]
    BY <2>2
  <2>7. \A r \in good : IsFiniteSet(read.graph[r])
    BY <2>2, FS_EmptySet
  <2> HIDE DEF good, bad, here
  <2>8. read.issues = Entries(here, bad)
    BY <2>2
  <2> QED BY <2>3, <2>4, <2>5, <2>6, <2>7, <2>8 DEF here
<1>3. CASE v.t = "record"
  <2> DEFINE usable == {r \in DOMAIN v.fields : r # "" /\ r \notin ForbiddenSegments}
             wrong(r) == WrongIn(v.fields[r].items, usable)
             parents(r) == IF v.fields[r].t = "list"
                           THEN [names |-> RightIn(v.fields[r].items, usable),
                                 issues |-> Entries(<< "roles", r >>, wrong(r))]
                           ELSE [names |-> {}, issues |-> {<< "roles", r >>}]
             spare == {IF r = "" THEN here ELSE << "roles", r >> : r \in DOMAIN v.fields \ usable}
  <2>0. v # Undefined /\ v.t # "list"
    BY <1>0, <1>3
  <2>1. RolesIn(v) = usable
    BY <1>3 DEF RolesIn, ForbiddenSegments, Unwalkable
  <2>2. \A r \in DOMAIN v.fields : Own(v, r) = v.fields[r]
    BY DEF Own, Has
  <2>3. read = [graph |-> [r \in usable |-> parents(r).names],
                issues |-> (UNION {parents(r).issues : r \in usable}) \cup spare]
    <3> DEFINE isRole(entry) == entry.t = "text" /\ entry.text \in usable
               found(r) == IF Own(v, r).t = "list" THEN Sifted(Own(v, r).items, << "roles", r >>, isRole)
                           ELSE Nothing({<< "roles", r >>})
    <3>1. ASSUME NEW r \in usable PROVE found(r) = parents(r)
      BY <2>2 DEF Sifted, Nothing, Entries, OneOf, RightIn, WrongIn
    <3>2. read = [graph |-> [r \in usable |-> found(r).names],
                  issues |-> (UNION {found(r).issues : r \in usable}) \cup spare]
      BY <1>3, <2>0 DEF ReadRoles, IsRecord
    <3> HIDE DEF found, parents, read, usable
    <3>3. /\ [r \in usable |-> found(r).names] = [r \in usable |-> parents(r).names]
          /\ {found(r).issues : r \in usable} = {parents(r).issues : r \in usable}
      BY <3>1
    <3> QED BY <3>2, <3>3
  <2>4. ASSUME NEW r \in usable
        PROVE  /\ parents(r).names \subseteq usable /\ IsFiniteSet(parents(r).names)
               /\ Below(here, parents(r).issues)
               /\ parents(r).issues = {} <=>
                    v.fields[r].t = "list" /\ \A item \in ItemsOf(v.fields[r]) : OneOf(item, usable)
    <3>1. << "roles", r >> \in Seq({"roles", r})
      BY PairsBegin
    <3>2. Begins(here, << "roles", r >>)
      BY PairsBegin
    <3>3. CASE v.fields[r].t = "list"
      <4>1. /\ Below(<< "roles", r >>, Entries(<< "roles", r >>, wrong(r)))
            /\ Entries(<< "roles", r >>, wrong(r)) = {} <=> wrong(r) = {}
        <5> HIDE DEF wrong
        <5> QED BY <3>1, EntriesAreReported
      <4>2. Below(here, Entries(<< "roles", r >>, wrong(r)))
        <5> HIDE DEF wrong
        <5>1. \A i : Begins(here, Append(<< "roles", r >>, Index[i]))
          BY PairsBegin
        <5> QED BY <5>1 DEF Below, Entries
      <4>3. parents(r).names \subseteq usable
        BY <3>3 DEF OneOf, RightIn
      <4>4. wrong(r) = {} <=> \A item \in ItemsOf(v.fields[r]) : OneOf(item, usable)
        BY DEF ItemsOf, WrongIn
      <4>6. IsFiniteSet(parents(r).names)
        <5>1. v.fields[r] \in Json
          BY <1>3, <2>0, InsideJson
        <5>2. v.fields[r].items \in Seq(Json)
          BY <3>3, <5>1, InsideJson
        <5>3. parents(r).names = RightIn(v.fields[r].items, usable)
          BY <3>3
        <5> HIDE DEF parents, usable
        <5> QED BY <5>2, <5>3, RightIsFinite
      <4>5. parents(r).issues = Entries(<< "roles", r >>, wrong(r))
        BY <3>3
      <4> HIDE DEF parents, wrong, usable
      <4> QED BY <3>3, <4>1, <4>2, <4>3, <4>4, <4>5, <4>6
    <3>4. CASE v.fields[r].t # "list"
      BY <3>2, <3>4, FS_EmptySet DEF Below
    <3> QED BY <3>3, <3>4
  <2>5. Below(here, spare) /\ (spare = {} <=> usable = DOMAIN v.fields)
    <3>1. \A r : Begins(here, << "roles", r >>)
      BY DEF Begins
    <3>2. Below(here, spare)
      BY <1>a, <3>1 DEF Below
    <3>3. CASE usable = DOMAIN v.fields
      BY <3>2, <3>3
    <3>4. CASE usable # DOMAIN v.fields
      <4>1. PICK r \in DOMAIN v.fields \ usable : TRUE
        BY <3>4
      <4>2. (IF r = "" THEN here ELSE << "roles", r >>) \in spare
        OBVIOUS
      <4> QED BY <3>2, <3>4, <4>2
    <3> QED BY <3>3, <3>4
  <2>6. RolesFit(v) <=>
          /\ usable = DOMAIN v.fields
          /\ \A r \in usable :
               v.fields[r].t = "list" /\ \A item \in ItemsOf(v.fields[r]) : OneOf(item, usable)
    <3>1. usable = DOMAIN v.fields <=> DOMAIN v.fields \cap (Unwalkable \cup {""}) = {}
      BY DEF ForbiddenSegments, Unwalkable
    <3>2. RolesFit(v) <=>
            /\ DOMAIN v.fields \cap (Unwalkable \cup {""}) = {}
            /\ \A r \in DOMAIN v.fields :
                 /\ v.fields[r].t = "list"
                 /\ \A item \in ItemsOf(v.fields[r]) : OneOf(item, DOMAIN v.fields)
      BY <1>3, <2>0 DEF RolesFit, Contents
    <3> HIDE DEF usable
    <3> QED BY <3>1, <3>2
  <2> DEFINE found == [r \in usable |-> parents(r).issues]
  <2>7. /\ read.graph \in [usable -> SUBSET usable]
        /\ \A r \in usable : IsFiniteSet(read.graph[r])
    <3> HIDE DEF usable, parents, read
    <3> QED BY <2>3, <2>4
  <2>8. read.issues = Together(found, usable, spare)
    <3> HIDE DEF usable, parents, read, spare
    <3> QED BY <2>3 DEF Together
  <2>9. \A r \in usable : found[r] = parents(r).issues
    OBVIOUS
  <2> HIDE DEF usable, parents, spare, here, read, found
  <2>10. Below(here, read.issues)
    BY <2>4, <2>5, <2>8, <2>9, FoundTogether
  <2>11. read.issues = {} <=> spare = {} /\ \A r \in usable : parents(r).issues = {}
    BY <2>8, <2>9, FoundTogether
  <2>12. read.issues = {} <=> RolesFit(v)
    BY <2>4, <2>5, <2>6, <2>11
  <2> QED BY <2>1, <2>7, <2>10, <2>12 DEF here, read
<1>4. CASE v # Undefined /\ v.t # "list" /\ v.t # "record"
  <2>1. read = [graph |-> << >>, issues |-> {here}]
    BY <1>4 DEF ReadRoles, IsRecord
  <2>2. RolesIn(v) = {}
    BY <1>4 DEF RolesIn, NamesIn
  <2>3. << >> \in [{} -> SUBSET {}]
    OBVIOUS
  <2>4. ~RolesFit(v)
    BY <1>4 DEF RolesFit
  <2> QED BY <1>a, <2>1, <2>2, <2>3, <2>4 DEF Below
<1> QED BY <1>1, <1>2, <1>3, <1>4

-----------------------------------------------------------------------------
(* The fields of a rule.                                                   *)

(* A path of three steps begins with the first two, and so does what       *)
(* continues it.                                                           *)
LEMMA TriplesBegin ==
  ASSUME NEW x, NEW y, NEW z
  PROVE  /\ << x, y >> \o << z >> = << x, y, z >>
         /\ << x, y, z >> \in Seq({x, y, z})
         /\ Begins(<< x, y, z >>, << x, y, z >>)
<1> DEFINE S == {x, y, z}
           p == << x, y >>
           q == << z >>
           r == << x, y, z >>
<1>1. p \in Seq(S) /\ q \in Seq(S) /\ r \in Seq(S)
  OBVIOUS
<1>2. Len(p) = 2 /\ Len(q) = 1 /\ Len(r) = 3 /\ p[1] = x /\ p[2] = y /\ q[1] = z
  OBVIOUS
<1>3. r[1] = x /\ r[2] = y /\ r[3] = z
  OBVIOUS
<1> HIDE DEF S, p, q, r
<1>4. /\ p \o q \in Seq(S) /\ Len(p \o q) = 3
      /\ (p \o q)[1] = x /\ (p \o q)[2] = y /\ (p \o q)[3] = z
  <2>1. /\ p \o q \in Seq(S) /\ Len(p \o q) = Len(p) + Len(q)
        /\ \A i \in 1 .. Len(p) + Len(q) :
             (p \o q)[i] = IF i <= Len(p) THEN p[i] ELSE q[i - Len(p)]
    BY <1>1, ConcatProperties
  <2>2. /\ 1 \in 1 .. 3 /\ 2 \in 1 .. 3 /\ 3 \in 1 .. 3 /\ 3 - 2 = 1
        /\ Len(p) + Len(q) = 3
    BY <1>2
  <2> QED BY <1>2, <2>1, <2>2
<1>5. p \o q = r
  <2>1. \A i \in 1 .. 3 : i = 1 \/ i = 2 \/ i = 3
    OBVIOUS
  <2>2. \A i \in 1 .. 3 : (p \o q)[i] = r[i]
    BY <1>3, <1>4, <2>1
  <2> QED BY <1>1, <1>2, <1>4, <2>2, SeqEqual
<1>6. Begins(r, r)
  BY <1>1, PathsBegin
<1> QED BY <1>1, <1>5, <1>6 DEF p, q, r, S

IsListOver(v, U) == v.t = "list" => v.items \in Seq(U)


(* A list selects from some names exactly if none of its entries is wrong. *)
LEMMA ListsAreSelections ==
  ASSUME NEW U, NEW v, IsListOver(v, U), Filled(v), NEW names
  PROVE  /\ WrongIn(v.items, names) = {} <=> Selection(v, names)
         /\ RightIn(v.items, names) \subseteq names
         /\ WrongIn(v.items, names) = {} => RightIn(v.items, names) # {}
<1>1. WrongIn(v.items, names) = {} <=> Selection(v, names)
  BY DEF WrongIn, Selection, ItemsOf
<1>2. RightIn(v.items, names) \subseteq names
  BY DEF RightIn, OneOf
<1>3. ASSUME WrongIn(v.items, names) = {} PROVE RightIn(v.items, names) # {}
  <2>1. 1 \in DOMAIN v.items
    BY DEF IsListOver, Filled
  <2>2. v.items[1].text \in RightIn(v.items, names)
    BY <1>3, <2>1 DEF WrongIn, RightIn
  <2> QED BY <2>2
<1> QED BY <1>1, <1>2, <1>3

(* What is read of a rule's actions or subjects is a selection of the      *)
(* names, or is reported where it is.                                      *)
LEMMA SelectorIsRead ==
  ASSUME NEW rule, NEW at, NEW key, NEW names, NEW U, IsListOver(Own(rule, key), U)
  PROVE  LET read == Selector(rule, << "rules", at >>, key, names) IN
         /\ Below(<< "rules", at, key >>, read.issues)
         /\ read.issues = {} <=> (OneOf(Own(rule, key), {"*"}) \/ Selection(Own(rule, key), names))
         /\ read.issues = {} => IsSelection(read.names, names)
         /\ IsFiniteSet(read.names)
<1> DEFINE v == Own(rule, key)
           read == Selector(rule, << "rules", at >>, key, names)
           place == << "rules", at, key >>
<1>1. << "rules", at >> \o << key >> = place /\ place \in Seq({"rules", at, key}) /\ Begins(place, place)
  BY TriplesBegin
<1>2. CASE OneOf(v, {"*"})
  <2>1. read = [names |-> Everything, issues |-> {}]
    BY <1>2 DEF Selector, OneOf, IsOneOf, Everything
  <2>2. IsFiniteSet(Everything)
    BY FS_Singleton DEF Everything
  <2> QED BY <1>2, <2>1, <2>2 DEF Below, IsSelection
<1>3. CASE ~OneOf(v, {"*"}) /\ Filled(v)
  <2>1. read = [names |-> RightIn(v.items, names), issues |-> Entries(place, WrongIn(v.items, names))]
    <3>1. ~IsOneOf(v, Everything) /\ FilledList(v)
      BY <1>3 DEF OneOf, IsOneOf, Everything, Filled, FilledList
    <3> HIDE DEF place
    <3> QED BY <1>1, <3>1 DEF Selector, Sifted, Entries, RightIn, WrongIn, OneOf
  <2>2. /\ Below(place, Entries(place, WrongIn(v.items, names)))
        /\ Entries(place, WrongIn(v.items, names)) = {} <=> WrongIn(v.items, names) = {}
    <3> HIDE DEF place
    <3> QED BY <1>1, EntriesAreReported
  <2>3. /\ WrongIn(v.items, names) = {} <=> Selection(v, names)
        /\ RightIn(v.items, names) \subseteq names
        /\ WrongIn(v.items, names) = {} => RightIn(v.items, names) # {}
    BY <1>3, ListsAreSelections
  <2>4. /\ read.names = RightIn(v.items, names)
        /\ read.issues = Entries(place, WrongIn(v.items, names))
    BY <2>1
  <2>5. IsFiniteSet(RightIn(v.items, names))
    BY <1>3, RightIsFinite DEF IsListOver, Filled
  <2> QED BY <1>3, <2>2, <2>3, <2>4, <2>5 DEF IsSelection
<1>4. CASE ~OneOf(v, {"*"}) /\ ~Filled(v)
  <2>1. read = [names |-> {}, issues |-> {place}]
    BY <1>1, <1>4 DEF Selector, OneOf, IsOneOf, Everything, Filled, FilledList, Nothing
  <2> QED BY <1>1, <1>4, <2>1, FS_EmptySet DEF Below, Selection
<1> QED BY <1>2, <1>3, <1>4

(* What is read of a rule's roles is some of the roles, or is reported     *)
(* where it is.                                                            *)
LEMMA RuleRolesAreRead ==
  ASSUME NEW rule, NEW at, NEW names, NEW U, IsListOver(Own(rule, "roles"), U)
  PROVE  LET read == RuleRoles(rule, << "rules", at >>, names) IN
         /\ Below(<< "rules", at, "roles" >>, read.issues)
         /\ read.issues = {} <=> (Has(rule, "roles") => Selection(Own(rule, "roles"), names))
         /\ (read.issues = {} /\ Has(rule, "roles")) => (read.names # {} /\ read.names \subseteq names)
         /\ IsFiniteSet(read.names)
<1> DEFINE v == Own(rule, "roles")
           read == RuleRoles(rule, << "rules", at >>, names)
           place == << "rules", at, "roles" >>
<1>1. /\ << "rules", at >> \o << "roles" >> = place /\ place \in Seq({"rules", at, "roles"})
      /\ Begins(place, place)
  BY TriplesBegin
<1>2. CASE ~Has(rule, "roles")
  <2>1. read = [names |-> {}, issues |-> {}]
    BY <1>2 DEF RuleRoles, Nothing
  <2> QED BY <1>2, <2>1, FS_EmptySet DEF Below
<1>3. CASE Has(rule, "roles") /\ Filled(v)
  <2>1. read = [names |-> RightIn(v.items, names), issues |-> Entries(place, WrongIn(v.items, names))]
    <3>1. FilledList(v)
      BY <1>3 DEF Filled, FilledList
    <3> HIDE DEF place
    <3> QED BY <1>1, <1>3, <3>1 DEF RuleRoles, Sifted, Entries, RightIn, WrongIn, OneOf
  <2>2. /\ Below(place, Entries(place, WrongIn(v.items, names)))
        /\ Entries(place, WrongIn(v.items, names)) = {} <=> WrongIn(v.items, names) = {}
    <3> HIDE DEF place
    <3> QED BY <1>1, EntriesAreReported
  <2>3. /\ WrongIn(v.items, names) = {} <=> Selection(v, names)
        /\ RightIn(v.items, names) \subseteq names
        /\ WrongIn(v.items, names) = {} => RightIn(v.items, names) # {}
    BY <1>3, ListsAreSelections
  <2>4. /\ read.names = RightIn(v.items, names)
        /\ read.issues = Entries(place, WrongIn(v.items, names))
    BY <2>1
  <2>5. IsFiniteSet(RightIn(v.items, names))
    BY <1>3, RightIsFinite DEF IsListOver, Filled
  <2> QED BY <1>3, <2>2, <2>3, <2>4, <2>5
<1>4. CASE Has(rule, "roles") /\ ~Filled(v)
  <2>1. read = [names |-> {}, issues |-> {place}]
    BY <1>1, <1>4 DEF RuleRoles, Filled, FilledList, Nothing
  <2> QED BY <1>1, <1>4, <2>1, FS_EmptySet DEF Below, Selection
<1> QED BY <1>2, <1>3, <1>4

(* A field of a document is one itself, if it is there.                    *)
LEMMA OwnIsJson ==
  ASSUME NEW v \in Json, v.t = "record", NEW key
  PROVE  /\ Own(v, key) = Undefined \/ Own(v, key) \in Json
         /\ Has(v, key) => Own(v, key) \in Json
         /\ IsListOver(Own(v, key), Json)
<1>1. ~Has(v, key) => Own(v, key) = Undefined
  BY DEF Own
<1>2. Has(v, key) => Own(v, key) \in Json
  BY InsideJson DEF Has
<1>3. Undefined.t # "list"
  BY DEF Undefined
<1>4. \A x \in Json : x.t = "list" => x.items \in Seq(Json)
  BY InsideJson
<1> QED BY <1>1, <1>2, <1>3, <1>4 DEF IsListOver

(* What is found in each of a rule's fields.                               *)
FoundAt(rule, at, key, d) ==
  LET path == << "rules", at >>
      here == {<< "rules", at, key >>}
      v == Own(rule, key)
  IN  CASE key = "actions" -> Selector(rule, path, key, d.actions).issues
        [] key = "subjects" -> Selector(rule, path, key, d.subjects).issues
        [] key = "roles" -> RuleRoles(rule, path, d.roles).issues
        [] key = "effect" -> IF OneOf(v, {"allow", "deny"}) THEN {} ELSE here
        [] key = "when" -> IF Has(rule, key) THEN CheckCondition(v, << "rules", at, key >>) ELSE {}
        [] key = "id" -> IF Has(rule, key) => NonEmpty(v) THEN {} ELSE here
        [] key = "description" -> IF Has(rule, key) => v.t = "text" THEN {} ELSE here

(* What is reported of a field is below it, and nothing is just if it      *)
(* fits.                                                                   *)
LEMMA FieldIsChecked ==
  ASSUME NEW rule \in Json, rule.t = "record", NEW at, NEW d, NEW key \in RuleKeys
  PROVE  /\ Below(<< "rules", at, key >>, FoundAt(rule, at, key, d))
         /\ FoundAt(rule, at, key, d) = {} <=> RuleFieldFits(rule, key, d)
<1> DEFINE v == Own(rule, key)
           place == << "rules", at, key >>
<1>1. Begins(place, place) /\ place \in Seq({"rules", at, key})
  BY TriplesBegin
<1>2. IsListOver(v, Json)
  BY OwnIsJson
<1>3. CASE key \in {"actions", "subjects"}
  <2>1. FoundAt(rule, at, key, d) = Selector(rule, << "rules", at >>, key, d[key]).issues
    BY <1>3 DEF FoundAt
  <2>2. RuleFieldFits(rule, key, d) <=> OneOf(v, {"*"}) \/ Selection(v, d[key])
    BY <1>3 DEF RuleFieldFits
  <2> QED BY <1>2, <2>1, <2>2, SelectorIsRead
<1>4. CASE key = "roles"
  <2>1. FoundAt(rule, at, key, d) = RuleRoles(rule, << "rules", at >>, d.roles).issues
    BY <1>4 DEF FoundAt
  <2>2. RuleFieldFits(rule, key, d) <=> (Has(rule, "roles") => Selection(Own(rule, "roles"), d.roles))
    BY <1>4 DEF RuleFieldFits
  <2> QED BY <1>2, <1>4, <2>1, <2>2, RuleRolesAreRead
<1>5. CASE key = "when"
  <2>1. FoundAt(rule, at, key, d) = IF Has(rule, key) THEN CheckCondition(v, place) ELSE {}
    BY <1>5 DEF FoundAt
  <2>2. RuleFieldFits(rule, key, d) <=> (Has(rule, key) => IsCondition(v))
    BY <1>5 DEF RuleFieldFits
  <2>3. CASE ~Has(rule, key)
    BY <2>1, <2>2, <2>3 DEF Below
  <2>4. CASE Has(rule, key)
    <3>1. v \in Json
      BY <2>4, OwnIsJson
    <3>2. PICK places \in Places : CheckCondition(v, place) = {place \o p : p \in places}
      BY <3>1, ConditionIsChecked
    <3>3. CheckCondition(v, place) = {} <=> IsCondition(v)
      BY <3>1, ConditionIsChecked
    <3>4. \A p \in places : Begins(place, place \o p)
      <4> DEFINE S == Segments \cup {"rules", at, key}
      <4>1. place \in Seq(S) /\ \A p \in places : p \in Seq(S)
        BY <1>1 DEF Places
      <4> HIDE DEF S, place
      <4> QED BY <4>1, PathsBegin
    <3>5. Below(place, CheckCondition(v, place))
      BY <3>2, <3>4 DEF Below
    <3> QED BY <2>1, <2>2, <2>4, <3>3, <3>5
  <2> QED BY <2>3, <2>4
<1>6. CASE key \in {"effect", "id", "description"}
  <2>1. FoundAt(rule, at, key, d) = IF RuleFieldFits(rule, key, d) THEN {} ELSE {place}
    BY <1>6 DEF FoundAt, RuleFieldFits
  <2> HIDE DEF place
  <2> QED BY <1>1, <2>1 DEF Below, place
<1> QED BY <1>3, <1>4, <1>5, <1>6 DEF RuleKeys

(* A rule is looked through field by field.                                *)
LEMMA RuleIsChecked ==
  ASSUME NEW rule, rule.t = "record", NEW at, NEW d
  PROVE  LET checked == CheckRule(rule, << "rules", at >>, d.actions, d.subjects, d.roles) IN
         /\ checked.issues =
              Together([key \in RuleKeys |-> FoundAt(rule, at, key, d)], RuleKeys,
                       IF DOMAIN rule.fields \subseteq RuleKeys THEN {} ELSE {<< "rules", at >>})
         /\ checked.rule =
              ReadRule(rule, Selector(rule, << "rules", at >>, "actions", d.actions).names,
                       Selector(rule, << "rules", at >>, "subjects", d.subjects).names,
                       RuleRoles(rule, << "rules", at >>, d.roles).names)
<1> DEFINE path == << "rules", at >>
           found == [key \in RuleKeys |-> FoundAt(rule, at, key, d)]
           more == IF DOMAIN rule.fields \subseteq RuleKeys THEN {} ELSE {path}
           checked == CheckRule(rule, path, d.actions, d.subjects, d.roles)
           elsewhere == found["effect"] \cup found["when"] \cup found["id"] \cup found["description"] \cup more
<1>1. \A key : path \o << key >> = << "rules", at, key >>
  BY TriplesBegin
<1>2. /\ found["actions"] = Selector(rule, path, "actions", d.actions).issues
      /\ found["subjects"] = Selector(rule, path, "subjects", d.subjects).issues
      /\ found["roles"] = RuleRoles(rule, path, d.roles).issues
      /\ found["effect"] = IF IsOneOf(Own(rule, "effect"), {"allow", "deny"}) THEN {} ELSE {path \o << "effect" >>}
      /\ found["when"] = IF Has(rule, "when") THEN CheckCondition(Own(rule, "when"), path \o << "when" >>) ELSE {}
      /\ found["id"] = IF Has(rule, "id") => IsName(Own(rule, "id")) THEN {} ELSE {path \o << "id" >>}
      /\ found["description"] =
           IF Has(rule, "description") => Own(rule, "description").t = "text"
           THEN {} ELSE {path \o << "description" >>}
  <2> HIDE DEF path
  <2> QED BY <1>1 DEF FoundAt, RuleKeys, OneOf, IsOneOf, IsName, NonEmpty, path
<1>3. Restricted = RuleKeys
  BY DEF Restricted, RuleKeys
<1>4. /\ checked.issues = found["actions"] \cup found["subjects"] \cup found["roles"] \cup elsewhere
      /\ checked.rule = ReadRule(rule, Selector(rule, path, "actions", d.actions).names,
                                 Selector(rule, path, "subjects", d.subjects).names,
                                 RuleRoles(rule, path, d.roles).names)
  <2> HIDE DEF found, path
  <2> QED BY <1>2, <1>3 DEF CheckRule, IsRecord
<1>5. found["actions"] \cup found["subjects"] \cup found["roles"] \cup elsewhere
        = Together(found, RuleKeys, more)
  <2> HIDE DEF found, more
  <2> QED BY DEF Together, RuleKeys
<1> QED BY <1>4, <1>5

Shaped(v, keys) == v.t = "record" /\ DOMAIN v.fields \subseteq keys

(* What is reported of a rule is what does not fit, where it is.           *)
RuleIsReported(issues, rule, at, d) ==
  /\ issues = {} <=> RuleFits(rule, d)
  /\ ~Shaped(rule, RuleKeys) => << "rules", at >> \in issues
  /\ rule.t = "record" =>
       \A key \in RuleKeys : ~RuleFieldFits(rule, key, d) =>
         \E issue \in issues : Begins(<< "rules", at, key >>, issue)
  /\ \A issue \in issues :
       \/ issue = << "rules", at >> /\ ~Shaped(rule, RuleKeys)
       \/ /\ rule.t = "record"
          /\ \E key \in RuleKeys :
               ~RuleFieldFits(rule, key, d) /\ Begins(<< "rules", at, key >>, issue)

(* CheckRule reports that.                                                 *)
LEMMA RuleIsJudged ==
  ASSUME NEW rule \in Json, NEW at, NEW d
  PROVE  RuleIsReported(CheckRule(rule, << "rules", at >>, d.actions, d.subjects, d.roles).issues,
                        rule, at, d)
<1> DEFINE path == << "rules", at >>
           issues == CheckRule(rule, path, d.actions, d.subjects, d.roles).issues
<1>1. CASE rule.t # "record"
  <2>1. issues = {path}
    BY <1>1 DEF CheckRule, IsRecord
  <2>2. ~RuleFits(rule, d) /\ ~Shaped(rule, RuleKeys)
    BY <1>1 DEF RuleFits, Shaped
  <2> HIDE DEF issues
  <2>3. RuleIsReported(issues, rule, at, d)
    BY <1>1, <2>1, <2>2 DEF RuleIsReported
  <2> QED BY <2>3 DEF issues
<1>2. CASE rule.t = "record"
  <2> DEFINE found == [key \in RuleKeys |-> FoundAt(rule, at, key, d)]
             more == IF DOMAIN rule.fields \subseteq RuleKeys THEN {} ELSE {path}
  <2>1. issues = Together(found, RuleKeys, more)
    BY <1>2, RuleIsChecked
  <2>2. ASSUME NEW key \in RuleKeys
        PROVE  /\ Below(<< "rules", at, key >>, found[key])
               /\ found[key] = {} <=> RuleFieldFits(rule, key, d)
    BY <1>2, FieldIsChecked
  <2>3. /\ more = {} <=> Shaped(rule, RuleKeys)
        /\ \A x \in more : x = path
        /\ ~Shaped(rule, RuleKeys) => path \in more
    BY <1>2 DEF Shaped
  <2> HIDE DEF found, more, issues, path
  <2>4. \A x : x \in issues <=> x \in more \/ \E key \in RuleKeys : x \in found[key]
    BY <2>1 DEF Together
  <2>5. issues = {} <=> RuleFits(rule, d)
    <3>1. issues = {} <=> more = {} /\ \A key \in RuleKeys : found[key] = {}
      BY <2>4
    <3> QED BY <1>2, <2>2, <2>3, <3>1 DEF RuleFits, Shaped
  <2>6. ASSUME NEW key \in RuleKeys, ~RuleFieldFits(rule, key, d)
        PROVE  \E issue \in issues : Begins(<< "rules", at, key >>, issue)
    <3>1. PICK issue \in found[key] : TRUE
      BY <2>2, <2>6
    <3>2. Begins(<< "rules", at, key >>, issue) /\ issue \in issues
      BY <2>2, <2>4 DEF Below
    <3> QED BY <3>2
  <2>7. ASSUME NEW issue \in issues
        PROVE  \/ issue = path /\ ~Shaped(rule, RuleKeys)
               \/ \E key \in RuleKeys :
                    ~RuleFieldFits(rule, key, d) /\ Begins(<< "rules", at, key >>, issue)
    <3>1. CASE issue \in more
      BY <2>3, <3>1
    <3>2. CASE issue \notin more
      <4>1. PICK key \in RuleKeys : issue \in found[key]
        BY <2>4, <3>2
      <4>2. ~RuleFieldFits(rule, key, d) /\ Begins(<< "rules", at, key >>, issue)
        BY <2>2, <4>1 DEF Below
      <4> QED BY <4>2
    <3> QED BY <3>1, <3>2
  <2>8. ~Shaped(rule, RuleKeys) => path \in issues
    BY <2>3, <2>4
  <2>9. RuleIsReported(issues, rule, at, d)
    BY <1>2, <2>5, <2>6, <2>7, <2>8 DEF RuleIsReported, path
  <2> QED BY <2>9 DEF issues, path
<1> QED BY <1>1, <1>2

(* A rule that fits is what the engine is given of it.                     *)
LEMMA RuleIsUsable ==
  ASSUME NEW rule \in Json, NEW at, NEW d, RuleFits(rule, d),
         NEW policy, policy.actions = d.actions, policy.subjects = d.subjects,
         DOMAIN policy.roles = d.roles
  PROVE  LET read == CheckRule(rule, << "rules", at >>, d.actions, d.subjects, d.roles).rule IN
         /\ IsRule(read, policy)
         /\ DOMAIN read = DOMAIN rule.fields
         /\ \A key \in DOMAIN rule.fields \ {"actions", "subjects", "roles"} :
              read[key] = rule.fields[key]
<1> DEFINE path == << "rules", at >>
           a == Selector(rule, path, "actions", d.actions)
           s == Selector(rule, path, "subjects", d.subjects)
           r == RuleRoles(rule, path, d.roles)
           read == CheckRule(rule, path, d.actions, d.subjects, d.roles).rule
           keys == DOMAIN rule.fields
<1>1. /\ rule.t = "record" /\ keys \subseteq RuleKeys
      /\ \A key \in RuleKeys : RuleFieldFits(rule, key, d)
  BY DEF RuleFits
<1>2. read = ReadRule(rule, a.names, s.names, r.names)
  BY <1>1, RuleIsChecked
<1>3. \A key \in keys : Own(rule, key) = rule.fields[key] /\ Has(rule, key)
  BY DEF Own, Has
<1>4. \A key : key \notin keys => Own(rule, key) = Undefined
  BY DEF Own, Has
<1>5. Undefined.t \notin {"text", "list"}
  BY DEF Undefined
<1>6. /\ RuleFieldFits(rule, "effect", d) /\ RuleFieldFits(rule, "actions", d)
      /\ RuleFieldFits(rule, "subjects", d) /\ RuleFieldFits(rule, "roles", d)
      /\ RuleFieldFits(rule, "when", d) /\ RuleFieldFits(rule, "id", d)
      /\ RuleFieldFits(rule, "description", d)
  BY <1>1 DEF RuleKeys
<1>7. /\ "effect" \in keys /\ OneOf(rule.fields["effect"], {"allow", "deny"})
  BY <1>3, <1>4, <1>5, <1>6 DEF RuleFieldFits, OneOf
<1>8. "actions" \in keys /\ IsSelection(a.names, d.actions)
  <2>1. OneOf(Own(rule, "actions"), {"*"}) \/ Selection(Own(rule, "actions"), d.actions)
    BY <1>6 DEF RuleFieldFits
  <2>2. a.issues = {} /\ IsSelection(a.names, d.actions)
    BY <1>1, <2>1, OwnIsJson, SelectorIsRead
  <2>3. "actions" \in keys
    BY <1>4, <1>5, <2>1 DEF OneOf, Selection, Filled
  <2> QED BY <2>2, <2>3
<1>9. "subjects" \in keys /\ IsSelection(s.names, d.subjects)
  <2>1. OneOf(Own(rule, "subjects"), {"*"}) \/ Selection(Own(rule, "subjects"), d.subjects)
    BY <1>6 DEF RuleFieldFits
  <2>2. s.issues = {} /\ IsSelection(s.names, d.subjects)
    BY <1>1, <2>1, OwnIsJson, SelectorIsRead
  <2>3. "subjects" \in keys
    BY <1>4, <1>5, <2>1 DEF OneOf, Selection, Filled
  <2> QED BY <2>2, <2>3
<1>10. "roles" \in keys => r.names # {} /\ r.names \subseteq d.roles
  <2>1. Has(rule, "roles") => Selection(Own(rule, "roles"), d.roles)
    BY <1>6 DEF RuleFieldFits
  <2>2. r.issues = {}
    BY <1>1, <2>1, OwnIsJson, RuleRolesAreRead
  <2> QED BY <1>1, <1>3, <2>2, OwnIsJson, RuleRolesAreRead
<1>11. /\ "when" \in keys => IsCondition(rule.fields["when"])
       /\ "id" \in keys => NonEmpty(rule.fields["id"])
       /\ "description" \in keys => rule.fields["description"].t = "text"
  BY <1>3, <1>6 DEF RuleFieldFits
<1> HIDE DEF a, s, r, keys, read
<1>12. /\ DOMAIN read = keys
       /\ "actions" \in keys => read["actions"] = a.names
       /\ "subjects" \in keys => read["subjects"] = s.names
       /\ "roles" \in keys => read["roles"] = r.names
       /\ \A key \in keys \ {"actions", "subjects", "roles"} : read[key] = rule.fields[key]
  BY <1>2, <1>3 DEF ReadRule, keys
<1>13. IsRule(read, policy)
  BY <1>1, <1>7, <1>8, <1>9, <1>10, <1>11, <1>12 DEF IsRule
<1> QED BY <1>12, <1>13 DEF read, keys

-----------------------------------------------------------------------------
(* A policy.                                                               *)

(* What is read of a policy's fields, but for its rules, is what it        *)
(* declares; what does not fit is reported where it is.                    *)
LEMMA FieldsAreRead ==
  ASSUME NEW document \in Json, document.t = "record"
  PROVE  /\ \A key \in {"actions", "subjects"} :
              LET read == ReadNameList(Own(document, key), << key >>) IN
              /\ read.names = Declared(document)[key]
              /\ Below(<< key >>, read.issues)
              /\ read.issues = {} <=> PolicyFieldFits(document, key)
         /\ LET read == ReadRoles(Own(document, "roles")) IN
            /\ read.graph \in [Declared(document).roles -> SUBSET Declared(document).roles]
            /\ \A r \in Declared(document).roles : IsFiniteSet(read.graph[r])
            /\ Below(<< "roles" >>, read.issues)
            /\ read.issues = {} <=> PolicyFieldFits(document, "roles")
         /\ PolicyFieldFits(document, "rules") <=> Own(document, "rules").t = "list"
<1>1. ASSUME NEW key \in {"actions", "subjects"}
      PROVE  /\ Declared(document)[key] = NamesIn(Own(document, key), Declarable)
             /\ PolicyFieldFits(document, key) <=>
                  Filled(Own(document, key)) /\ \A item \in ItemsOf(Own(document, key)) : Declarable(item)
  <2>1. CASE key = "actions"
    BY <2>1 DEF Declared, PolicyFieldFits
  <2>2. CASE key = "subjects"
    BY <2>2 DEF Declared, PolicyFieldFits
  <2> QED BY <2>1, <2>2
<1>2. /\ Declared(document).roles = RolesIn(Own(document, "roles"))
      /\ PolicyFieldFits(document, "roles") <=> RolesFit(Own(document, "roles"))
      /\ PolicyFieldFits(document, "rules") <=> Own(document, "rules").t = "list"
  BY DEF Declared, RolesIn, PolicyFieldFits
<1>3. \A key \in {"actions", "subjects"} :
        LET read == ReadNameList(Own(document, key), << key >>) IN
        /\ read.names = Declared(document)[key]
        /\ Below(<< key >>, read.issues)
        /\ read.issues = {} <=> PolicyFieldFits(document, key)
  BY <1>1, NamesAreRead
<1>4. LET read == ReadRoles(Own(document, "roles")) IN
      /\ read.graph \in [Declared(document).roles -> SUBSET Declared(document).roles]
      /\ \A r \in Declared(document).roles : IsFiniteSet(read.graph[r])
      /\ Below(<< "roles" >>, read.issues)
      /\ read.issues = {} <=> PolicyFieldFits(document, "roles")
  BY <1>2, OwnIsJson, RolesAreRead
<1> QED BY <1>2, <1>3, <1>4

(* A policy's rules are documents in a list.                               *)
LEMMA RulesOfIsList ==
  ASSUME NEW document \in Json
  PROVE  /\ RulesOf(document) \in Seq(Json)
         /\ \A i \in DOMAIN RulesOf(document) : i \in Nat /\ RulesOf(document)[i] \in Json
<1>1. RulesOf(document) \in Seq(Json)
  <2>1. CASE document.t = "record" /\ Own(document, "rules").t = "list"
    BY <2>1, OwnIsJson DEF RulesOf, IsListOver
  <2>2. CASE ~(document.t = "record" /\ Own(document, "rules").t = "list")
    BY <2>2 DEF RulesOf
  <2> QED BY <2>1, <2>2
<1> QED BY <1>1

MisfitOf(document, key) == document.t = "record" /\ ~PolicyFieldFits(document, key)

MisfitIn(document, i, key) ==
  LET rule == RulesOf(document)[i]
  IN  rule.t = "record" /\ ~RuleFieldFits(rule, key, Declared(document))

(* A rule has the name of one before.                                      *)
NamedIn(document, i) ==
  RuleFits(RulesOf(document)[i], Declared(document)) /\ Has(RulesOf(document)[i], "id")

NamedAgain(document, i) ==
  /\ NamedIn(document, i)
  /\ \E j \in DOMAIN RulesOf(document) :
       j < i /\ NamedIn(document, j) /\ Own(RulesOf(document)[j], "id") = Own(RulesOf(document)[i], "id")

(* The misfits, one by one.                                                *)
LEMMA MisfitsAre ==
  ASSUME NEW document, NEW place
  PROVE  place \in Misfits(document) <=>
           \/ \E key \in PolicyKeys : MisfitOf(document, key) /\ place = << key >>
           \/ \E i \in DOMAIN RulesOf(document), key \in RuleKeys :
                MisfitIn(document, i, key) /\ place = << "rules", Index[i], key >>
BY DEF Misfits, MisfitOf, MisfitIn

(* The strays, one by one.                                                 *)
LEMMA StraysAre ==
  ASSUME NEW document, NEW place
  PROVE  place \in Strays(document) <=>
           \/ ~Shaped(document, PolicyKeys) /\ place = << >>
           \/ \E i \in DOMAIN RulesOf(document) :
                ~Shaped(RulesOf(document)[i], RuleKeys) /\ place = << "rules", Index[i] >>
           \/ \E i \in DOMAIN RulesOf(document) :
                NamedAgain(document, i) /\ place = << "rules", Index[i], "id" >>
BY DEF Strays, Shaped, NamedIn, NamedAgain

(* What becomes of the rules, one by one.                                  *)
CheckedRule(document, i) ==
  LET d == Declared(document)
  IN  CheckRule(RulesOf(document)[i], << "rules", Index[i] >>, d.actions, d.subjects, d.roles)

(* CheckRules reports what is wrong with each rule, and the names that are *)
(* there twice.                                                            *)
LEMMA RulesAreChecked ==
  ASSUME NEW document \in Json, document.t = "record", Own(document, "rules").t = "list"
  PROVE  LET d == Declared(document)
             checked == CheckRules(Own(document, "rules"), d.actions, d.subjects, d.roles)
         IN  /\ checked.rules = [i \in DOMAIN RulesOf(document) |-> CheckedRule(document, i).rule]
             /\ \A issue : issue \in checked.issues <=>
                  \/ \E i \in DOMAIN RulesOf(document) : issue \in CheckedRule(document, i).issues
                  \/ \E i \in DOMAIN RulesOf(document) :
                       NamedAgain(document, i) /\ issue = << "rules", Index[i], "id" >>
<1> DEFINE d == Declared(document)
           rules == RulesOf(document)
           all == [i \in DOMAIN rules |-> CheckedRule(document, i)]
           checked == CheckRules(Own(document, "rules"), d.actions, d.subjects, d.roles)
           named == {i \in DOMAIN all : all[i].issues = {} /\ "id" \in DOMAIN all[i].rule}
           twice == {i \in named : \E j \in named : j < i /\ all[j].rule["id"] = all[i].rule["id"]}
<1>1. rules = Own(document, "rules").items
  BY DEF RulesOf
<1>2. checked = Collect(all)
  BY <1>1 DEF CheckRules, CheckedRule
<1>3. ASSUME NEW i \in DOMAIN rules
      PROVE  /\ all[i].issues = {} <=> RuleFits(rules[i], d)
             /\ i \in named <=> NamedIn(document, i)
             /\ i \in named => all[i].rule["id"] = Own(rules[i], "id")
  <2>1. rules[i] \in Json
    BY RulesOfIsList
  <2>2. all[i].issues = {} <=> RuleFits(rules[i], d)
    BY <2>1, RuleIsJudged DEF CheckedRule, RuleIsReported
  <2>3. ASSUME RuleFits(rules[i], d)
        PROVE  /\ DOMAIN all[i].rule = DOMAIN rules[i].fields
               /\ \A key \in DOMAIN rules[i].fields \ {"actions", "subjects", "roles"} :
                    all[i].rule[key] = rules[i].fields[key]
    <3> DEFINE policy == [actions |-> d.actions, subjects |-> d.subjects, roles |-> [r \in d.roles |-> r]]
    <3>1. policy.actions = d.actions /\ policy.subjects = d.subjects /\ DOMAIN policy.roles = d.roles
      OBVIOUS
    <3> HIDE DEF policy
    <3> QED BY <2>1, <2>3, <3>1, RuleIsUsable DEF CheckedRule
  <2>4. all[i].issues = {} => ("id" \in DOMAIN all[i].rule <=> Has(rules[i], "id"))
    BY <2>2, <2>3 DEF Has
  <2>5. ASSUME RuleFits(rules[i], d), Has(rules[i], "id")
        PROVE  all[i].rule["id"] = Own(rules[i], "id")
    BY <2>3, <2>5 DEF Has, Own
  <2>6. i \in named <=> all[i].issues = {} /\ "id" \in DOMAIN all[i].rule
    OBVIOUS
  <2> HIDE DEF all, named
  <2> QED BY <2>2, <2>4, <2>5, <2>6 DEF NamedIn
<1>4. \A i \in DOMAIN rules : i \in twice <=> NamedAgain(document, i)
  <2>1. named \subseteq DOMAIN rules
    OBVIOUS
  <2>2. \A i : i \in twice <=> i \in named /\ \E j \in named : j < i /\ all[j].rule["id"] = all[i].rule["id"]
    OBVIOUS
  <2> HIDE DEF named, all, twice
  <2> QED BY <1>3, <2>1, <2>2 DEF NamedAgain
<1>5. /\ checked.rules = [i \in DOMAIN all |-> all[i].rule]
      /\ checked.issues = (UNION {all[i].issues : i \in DOMAIN all})
                            \cup {<< "rules", Index[i], "id" >> : i \in twice}
  <2>1. Collect(all) = [rules |-> [i \in DOMAIN all |-> all[i].rule],
                        issues |-> (UNION {all[i].issues : i \in DOMAIN all})
                                     \cup {<< "rules", Index[i], "id" >> : i \in twice}]
    <3> HIDE DEF all
    <3> QED BY Zenon DEF Collect
  <2> HIDE DEF all, twice, checked
  <2> QED BY <1>2, <2>1
<1>6. twice \subseteq DOMAIN rules /\ DOMAIN all = DOMAIN rules
  OBVIOUS
<1>7. \A i \in DOMAIN rules : all[i] = CheckedRule(document, i)
  OBVIOUS
<1>8. \A issue : issue \in checked.issues <=>
        \/ \E i \in DOMAIN rules : issue \in all[i].issues
        \/ \E i \in DOMAIN rules : NamedAgain(document, i) /\ issue = << "rules", Index[i], "id" >>
  <2> HIDE DEF checked, all, rules, twice
  <2> QED BY <1>4, <1>5, <1>6
<1>9. checked.rules = [i \in DOMAIN rules |-> CheckedRule(document, i).rule]
  BY <1>5
<1> QED BY <1>7, <1>8, <1>9

(* What is reported of a document, and what is returned of it.             *)
FieldIssues(document, key) ==
  CASE key \in {"actions", "subjects"} -> ReadNameList(Own(document, key), << key >>).issues
    [] key = "roles" -> ReadRoles(Own(document, key)).issues
    [] key = "rules" -> IF Own(document, key).t = "list" THEN {} ELSE {<< "rules" >>}

PolicyOf(document) ==
  [actions |-> Declared(document).actions, subjects |-> Declared(document).subjects,
   roles |-> ReadRoles(Own(document, "roles")).graph,
   rules |-> [i \in DOMAIN RulesOf(document) |-> CheckedRule(document, i).rule]]

(* What is reported of a policy's field is below it, and nothing is just   *)
(* if it fits.                                                             *)
LEMMA FieldIsReported ==
  ASSUME NEW document \in Json, document.t = "record", NEW key \in PolicyKeys
  PROVE  /\ Below(<< key >>, FieldIssues(document, key))
         /\ FieldIssues(document, key) = {} <=> PolicyFieldFits(document, key)
<1>1. CASE key \in {"actions", "subjects"}
  <2>1. FieldIssues(document, key) = ReadNameList(Own(document, key), << key >>).issues
    BY <1>1 DEF FieldIssues
  <2> QED BY <1>1, <2>1, FieldsAreRead
<1>2. CASE key = "roles"
  <2>1. FieldIssues(document, key) = ReadRoles(Own(document, "roles")).issues
    BY <1>2 DEF FieldIssues
  <2> QED BY <1>2, <2>1, FieldsAreRead
<1>3. CASE key = "rules"
  <2>1. FieldIssues(document, key) = IF Own(document, "rules").t = "list" THEN {} ELSE {<< "rules" >>}
    BY <1>3 DEF FieldIssues
  <2>2. << key >> = << "rules" >> /\ Begins(<< "rules" >>, << "rules" >>)
    BY <1>3 DEF Begins
  <2>3. PolicyFieldFits(document, "rules") <=> Own(document, "rules").t = "list"
    BY FieldsAreRead
  <2> QED BY <1>3, <2>1, <2>2, <2>3 DEF Below
<1> QED BY <1>1, <1>2, <1>3 DEF PolicyKeys

(* ValidatePolicy reports what is wrong with each part, and returns what   *)
(* its parts are read as.                                                  *)
LEMMA PolicyIsValidated ==
  ASSUME NEW document \in Json, document.t = "record"
  PROVE  /\ \A issue : issue \in ValidatePolicy(document).issues <=>
              \/ ~Shaped(document, PolicyKeys) /\ issue = << >>
              \/ \E key \in PolicyKeys : issue \in FieldIssues(document, key)
              \/ \E i \in DOMAIN RulesOf(document) : issue \in CheckedRule(document, i).issues
              \/ \E i \in DOMAIN RulesOf(document) :
                   NamedAgain(document, i) /\ issue = << "rules", Index[i], "id" >>
         /\ Own(document, "rules").t = "list" => ValidatePolicy(document).policy = PolicyOf(document)
<1> DEFINE d == Declared(document)
           a == ReadNameList(Own(document, "actions"), << "actions" >>)
           s == ReadNameList(Own(document, "subjects"), << "subjects" >>)
           r == ReadRoles(Own(document, "roles"))
           rules == CheckRules(Own(document, "rules"), d.actions, d.subjects, d.roles)
           extra == DOMAIN document.fields \ {"actions", "subjects", "roles", "rules"}
           top == IF extra = {} THEN {} ELSE {<< >>}
           all == ValidatePolicy(document)
<1>1. a.names = d.actions /\ s.names = d.subjects /\ DOMAIN r.graph = d.roles
  BY FieldsAreRead
<1>2. all = [policy |-> [actions |-> a.names, subjects |-> s.names, roles |-> r.graph,
                         rules |-> rules.rules],
             issues |-> a.issues \cup s.issues \cup r.issues \cup rules.issues \cup top]
  <2> HIDE DEF a, s, r
  <2>1. CheckRules(Own(document, "rules"), a.names, s.names, DOMAIN r.graph) = rules
    BY <1>1
  <2> HIDE DEF rules
  <2> QED BY <2>1 DEF ValidatePolicy, IsRecord, a, s, r
<1>3. top = {} <=> Shaped(document, PolicyKeys)
  BY DEF Shaped, PolicyKeys
<1>4. \A issue : issue \in top <=> ~Shaped(document, PolicyKeys) /\ issue = << >>
  BY <1>3
<1>5. \A issue : (\E key \in PolicyKeys : issue \in FieldIssues(document, key)) <=>
        \/ issue \in a.issues \cup s.issues \cup r.issues
        \/ Own(document, "rules").t # "list" /\ issue = << "rules" >>
  <2>1. /\ FieldIssues(document, "actions") = a.issues
        /\ FieldIssues(document, "subjects") = s.issues
        /\ FieldIssues(document, "roles") = r.issues
        /\ FieldIssues(document, "rules") =
             IF Own(document, "rules").t = "list" THEN {} ELSE {<< "rules" >>}
    BY DEF FieldIssues
  <2> HIDE DEF a, s, r
  <2> QED BY <2>1 DEF PolicyKeys
<1>6. CASE Own(document, "rules").t = "list"
  <2>1. /\ rules.rules = [i \in DOMAIN RulesOf(document) |-> CheckedRule(document, i).rule]
        /\ \A issue : issue \in rules.issues <=>
             \/ \E i \in DOMAIN RulesOf(document) : issue \in CheckedRule(document, i).issues
             \/ \E i \in DOMAIN RulesOf(document) :
                  NamedAgain(document, i) /\ issue = << "rules", Index[i], "id" >>
    BY <1>6, RulesAreChecked
  <2> HIDE DEF a, s, r, rules, top, all, d
  <2>2. all.policy = PolicyOf(document)
    BY <1>1, <1>2, <2>1 DEF PolicyOf, d, r
  <2>3. all.issues = a.issues \cup s.issues \cup r.issues \cup rules.issues \cup top
    BY <1>2
  <2>4. \A issue : issue \in all.issues <=>
          \/ ~Shaped(document, PolicyKeys) /\ issue = << >>
          \/ \E key \in PolicyKeys : issue \in FieldIssues(document, key)
          \/ \E i \in DOMAIN RulesOf(document) : issue \in CheckedRule(document, i).issues
          \/ \E i \in DOMAIN RulesOf(document) :
               NamedAgain(document, i) /\ issue = << "rules", Index[i], "id" >>
    BY <1>4, <1>5, <1>6, <2>1, <2>3
  <2> QED BY <2>2, <2>4 DEF all
<1>7. CASE Own(document, "rules").t # "list"
  <2>1. rules.issues = {<< "rules" >>}
    BY <1>7 DEF CheckRules
  <2>2. DOMAIN RulesOf(document) = {}
    BY <1>7 DEF RulesOf
  <2> HIDE DEF a, s, r, rules, top, all, d
  <2>3. all.issues = a.issues \cup s.issues \cup r.issues \cup rules.issues \cup top
    BY <1>2
  <2>4. \A issue : issue \in all.issues <=>
          \/ ~Shaped(document, PolicyKeys) /\ issue = << >>
          \/ \E key \in PolicyKeys : issue \in FieldIssues(document, key)
    BY <1>4, <1>5, <1>7, <2>1, <2>3
  <2> QED BY <1>7, <2>2, <2>4 DEF all
<1> QED BY <1>6, <1>7

(* What is wrong is reported, where it is, and nothing else is.            *)
IsSearched(document, issues) ==
  /\ issues = {} <=> IsPolicyDefinition(document)
  /\ Strays(document) \subseteq issues
  /\ \A place \in Misfits(document) : \E issue \in issues : Begins(place, issue)
  /\ \A issue \in issues :
       issue \in Strays(document) \/ \E place \in Misfits(document) : Begins(place, issue)

(* ValidatePolicy reports that.                                            *)
LEMMA DocumentIsSearched ==
  ASSUME NEW document \in Json
  PROVE  IsSearched(document, ValidatePolicy(document).issues)
<1> DEFINE issues == ValidatePolicy(document).issues
           strays == Strays(document)
           misfits == Misfits(document)
           rules == RulesOf(document)
           d == Declared(document)
<1>1. CASE document.t # "record"
  <2>1. issues = {<< >>}
    BY <1>1 DEF ValidatePolicy, IsRecord
  <2>2. DOMAIN rules = {}
    BY <1>1 DEF RulesOf
  <2>3. misfits = {}
    BY <1>1, <2>2, MisfitsAre DEF MisfitOf
  <2>4. strays = {<< >>}
    <3>1. ~Shaped(document, PolicyKeys)
      BY <1>1 DEF Shaped
    <3>2. \A place : place \in strays <=> place = << >>
      BY <2>2, <3>1, StraysAre
    <3> QED BY <3>2
  <2> HIDE DEF issues, strays, misfits
  <2>5. IsSearched(document, issues)
    BY <2>1, <2>3, <2>4 DEF IsSearched, IsPolicyDefinition, strays, misfits
  <2> QED BY <2>5 DEF issues
<1>2. CASE document.t = "record"
  <2>1. \A issue : issue \in issues <=>
          \/ ~Shaped(document, PolicyKeys) /\ issue = << >>
          \/ \E key \in PolicyKeys : issue \in FieldIssues(document, key)
          \/ \E i \in DOMAIN rules : issue \in CheckedRule(document, i).issues
          \/ \E i \in DOMAIN rules : NamedAgain(document, i) /\ issue = << "rules", Index[i], "id" >>
    BY <1>2, PolicyIsValidated
  <2>2. \A i \in DOMAIN rules : RuleIsReported(CheckedRule(document, i).issues, rules[i], Index[i], d)
    BY RulesOfIsList, RuleIsJudged DEF CheckedRule
  <2> HIDE DEF issues
  <2>3. ASSUME NEW place \in strays PROVE place \in issues
    <3>1. CASE ~Shaped(document, PolicyKeys) /\ place = << >>
      BY <2>1, <3>1
    <3>2. ASSUME NEW i \in DOMAIN rules, ~Shaped(rules[i], RuleKeys), place = << "rules", Index[i] >>
          PROVE  place \in issues
      <4>1. place \in CheckedRule(document, i).issues
        BY <2>2, <3>2 DEF RuleIsReported
      <4> QED BY <2>1, <4>1
    <3>3. ASSUME NEW i \in DOMAIN rules, NamedAgain(document, i),
                 place = << "rules", Index[i], "id" >>
          PROVE  place \in issues
      BY <2>1, <3>3
    <3> QED BY <3>1, <3>2, <3>3, StraysAre
  <2>4. ASSUME NEW place \in misfits PROVE \E issue \in issues : Begins(place, issue)
    <3>1. ASSUME NEW key \in PolicyKeys, MisfitOf(document, key), place = << key >>
          PROVE  \E issue \in issues : Begins(place, issue)
      <4>1. FieldIssues(document, key) # {} /\ Below(<< key >>, FieldIssues(document, key))
        BY <1>2, <3>1, FieldIsReported DEF MisfitOf
      <4>2. PICK issue \in FieldIssues(document, key) : TRUE
        BY <4>1
      <4>3. issue \in issues /\ Begins(place, issue)
        BY <2>1, <3>1, <4>1, <4>2 DEF Below
      <4> QED BY <4>3
    <3>2. ASSUME NEW i \in DOMAIN rules, NEW key \in RuleKeys, MisfitIn(document, i, key),
                 place = << "rules", Index[i], key >>
          PROVE  \E issue \in issues : Begins(place, issue)
      <4>1. \E issue \in CheckedRule(document, i).issues : Begins(place, issue)
        BY <2>2, <3>2 DEF MisfitIn, RuleIsReported
      <4> QED BY <2>1, <4>1
    <3> QED BY <3>1, <3>2, MisfitsAre
  <2>5. ASSUME NEW issue \in issues
        PROVE  issue \in strays \/ \E place \in misfits : Begins(place, issue)
    <3>1. CASE ~Shaped(document, PolicyKeys) /\ issue = << >>
      BY <3>1, StraysAre
    <3>2. ASSUME NEW key \in PolicyKeys, issue \in FieldIssues(document, key)
          PROVE  \E place \in misfits : Begins(place, issue)
      <4>1. MisfitOf(document, key) /\ Begins(<< key >>, issue)
        BY <1>2, <3>2, FieldIsReported DEF MisfitOf, Below
      <4>2. << key >> \in misfits
        BY <4>1, MisfitsAre
      <4> QED BY <4>1, <4>2
    <3>3. ASSUME NEW i \in DOMAIN rules, issue \in CheckedRule(document, i).issues
          PROVE  issue \in strays \/ \E place \in misfits : Begins(place, issue)
      <4>1. CASE issue = << "rules", Index[i] >> /\ ~Shaped(rules[i], RuleKeys)
        BY <4>1, StraysAre
      <4>2. ASSUME rules[i].t = "record", NEW key \in RuleKeys, ~RuleFieldFits(rules[i], key, d),
                   Begins(<< "rules", Index[i], key >>, issue)
            PROVE  \E place \in misfits : Begins(place, issue)
        <5>1. << "rules", Index[i], key >> \in misfits
          BY <4>2, MisfitsAre DEF MisfitIn
        <5> QED BY <4>2, <5>1
      <4> QED BY <2>2, <3>3, <4>1, <4>2 DEF RuleIsReported
    <3>4. ASSUME NEW i \in DOMAIN rules, NamedAgain(document, i), issue = << "rules", Index[i], "id" >>
          PROVE  issue \in strays
      BY <3>4, StraysAre
    <3> QED BY <2>1, <3>1, <3>2, <3>3, <3>4
  <2>6. issues = {} <=> IsPolicyDefinition(document)
    BY <2>3, <2>4, <2>5 DEF IsPolicyDefinition
  <2>7. IsSearched(document, issues)
    BY <2>3, <2>4, <2>5, <2>6 DEF IsSearched
  <2> QED BY <2>7 DEF issues
<1> QED BY <1>1, <1>2

-----------------------------------------------------------------------------
(* Where it is reported, thing by thing.                                   *)

(* What is found of a rule's field, but for its condition, is what is      *)
(* wrong with it.                                                          *)
LEMMA RuleFieldIsExact ==
  ASSUME NEW rule \in Json, rule.t = "record", NEW at, NEW d, NEW key \in RuleKeys \ {"when"}
  PROVE  FoundAt(rule, at, key, d) = WrongInRule(rule, key, << "rules", at, key >>, d)
<1> DEFINE v == Own(rule, key)
           path == << "rules", at >>
           place == << "rules", at, key >>
<1>1. CASE RuleFieldFits(rule, key, d)
  BY <1>1, FieldIsChecked DEF WrongInRule
<1>2. CASE ~RuleFieldFits(rule, key, d)
  <2>1. path \o << key >> = place
    BY TriplesBegin
  <2>2. ASSUME key \in {"actions", "subjects", "roles"}
        PROVE  WrongInRule(rule, key, place, d) =
                 IF Filled(v) THEN Entries(place, WrongIn(v.items, d[key])) ELSE {place}
    <3> HIDE DEF place
    <3> QED BY <1>2, <2>2 DEF WrongInRule, WrongNames, WrongEntries, Entries, WrongIn
  <2>3. CASE key \in {"actions", "subjects"}
    <3>1. ~IsOneOf(v, Everything)
      BY <1>2, <2>3 DEF RuleFieldFits, OneOf, IsOneOf, Everything
    <3>2. FoundAt(rule, at, key, d) = Selector(rule, path, key, d[key]).issues
      BY <2>3 DEF FoundAt
    <3>3. Selector(rule, path, key, d[key]).issues =
            IF Filled(v) THEN Entries(place, WrongIn(v.items, d[key])) ELSE {place}
      <4> HIDE DEF place, path
      <4> QED BY <2>1, <3>1
          DEF Selector, Sifted, Nothing, FilledList, Filled, Entries, WrongIn, OneOf
    <3> QED BY <2>2, <2>3, <3>2, <3>3
  <2>4. CASE key = "roles"
    <3>1. Has(rule, "roles")
      BY <1>2, <2>4 DEF RuleFieldFits
    <3>2. FoundAt(rule, at, key, d) = RuleRoles(rule, path, d[key]).issues
      BY <2>4 DEF FoundAt
    <3>3. RuleRoles(rule, path, d[key]).issues =
            IF Filled(v) THEN Entries(place, WrongIn(v.items, d[key])) ELSE {place}
      <4> HIDE DEF place, path
      <4> QED BY <2>1, <2>4, <3>1
          DEF RuleRoles, Sifted, Nothing, FilledList, Filled, Entries, WrongIn, OneOf
    <3> QED BY <2>2, <2>4, <3>2, <3>3
  <2>5. CASE key \in {"effect", "id", "description"}
    <3>1. FoundAt(rule, at, key, d) = {place}
      BY <1>2, <2>5 DEF FoundAt, RuleFieldFits
    <3>2. WrongInRule(rule, key, place, d) = {place}
      BY <1>2, <2>5 DEF WrongInRule
    <3> QED BY <3>1, <3>2
  <2> QED BY <2>3, <2>4, <2>5 DEF RuleKeys
<1> QED BY <1>1, <1>2

(* What is found of roles that do not fit is what is wrong with them.      *)
LEMMA RolesAreExact ==
  ASSUME NEW v, v # Undefined
  PROVE  ReadRoles(v).issues = WrongRoles(v)
<1>1. CASE v.t = "list"
  <2>1. \A entry : (IsName(entry) /\ entry.text \notin ForbiddenSegments) <=> RoleName(entry)
    BY DEF IsName, RoleName, NonEmpty, ForbiddenSegments, Unwalkable
  <2>2. ReadRoles(v).issues =
          {Append(<< "roles" >>, Index[i]) : i \in {j \in DOMAIN v.items : ~RoleName(v.items[j])}}
    BY <1>1, <2>1 DEF ReadRoles, Sifted, IsRecord
  <2>3. WrongRoles(v) = WrongEntries(v, << "roles" >>, RoleName)
    BY <1>1 DEF WrongRoles
  <2> QED BY <2>2, <2>3 DEF WrongEntries
<1>2. CASE v.t = "record"
  <2> DEFINE usable == {r \in DOMAIN v.fields : r # "" /\ r \notin ForbiddenSegments}
             wrong(r) ==
               IF v.fields[r].t = "list"
               THEN Entries(<< "roles", r >>, {i \in DOMAIN v.fields[r].items : ~OneOf(v.fields[r].items[i], usable)})
               ELSE {<< "roles", r >>}
             others == {IF r = "" THEN << "roles" >> ELSE << "roles", r >> : r \in DOMAIN v.fields \ usable}
  <2>0. v # Undefined /\ v.t # "list"
    BY <1>2
  <2>1. usable = DOMAIN v.fields \ (Unwalkable \cup {""})
    BY DEF ForbiddenSegments, Unwalkable
  <2>2. \A r \in usable : Own(v, r) = v.fields[r]
    BY DEF Own, Has
  <2>3. ReadRoles(v).issues = (UNION {wrong(r) : r \in usable}) \cup others
    <3> DEFINE isRole(entry) == entry.t = "text" /\ entry.text \in usable
               found(r) == IF Own(v, r).t = "list" THEN Sifted(Own(v, r).items, << "roles", r >>, isRole)
                           ELSE Nothing({<< "roles", r >>})
    <3>1. ReadRoles(v).issues = (UNION {found(r).issues : r \in usable}) \cup others
      BY <1>2, <2>0 DEF ReadRoles, IsRecord
    <3>2. ASSUME NEW r \in usable PROVE found(r).issues = wrong(r)
      <4> HIDE DEF usable
      <4> QED BY <2>2 DEF Sifted, Nothing, Entries, OneOf
    <3> HIDE DEF found, wrong, usable, others
    <3>3. {found(r).issues : r \in usable} = {wrong(r) : r \in usable}
      BY <3>2
    <3> QED BY <3>1, <3>3
  <2>4. WrongRoles(v) = (UNION {wrong(r) : r \in usable}) \cup others
    <3> DEFINE free == DOMAIN v.fields \ (Unwalkable \cup {""})
               isRole(item) == OneOf(item, free)
               wrongIn(r) == IF v.fields[r].t = "list"
                             THEN WrongEntries(v.fields[r], << "roles", r >>, isRole)
                             ELSE {<< "roles", r >>}
               spare == {IF r = "" THEN << "roles" >> ELSE << "roles", r >> : r \in DOMAIN v.fields \ free}
    <3>1. WrongRoles(v) = (UNION {wrongIn(r) : r \in free}) \cup spare
      BY <1>2 DEF WrongRoles
    <3>2. ASSUME NEW r \in free PROVE wrongIn(r) = wrong(r)
      <4>1. free = usable
        BY <2>1
      <4> HIDE DEF usable, free
      <4> QED BY <4>1 DEF WrongEntries, Entries
    <3>3. free = usable /\ spare = others
      BY <2>1
    <3> HIDE DEF wrongIn, wrong, usable, free, spare, others
    <3>4. {wrongIn(r) : r \in free} = {wrong(r) : r \in free}
      BY <3>2
    <3> QED BY <3>1, <3>3, <3>4
  <2> QED BY <2>3, <2>4
<1>3. CASE v.t \notin {"list", "record"}
  BY <1>3 DEF ReadRoles, IsRecord, WrongRoles
<1> QED BY <1>1, <1>2, <1>3

(* What is found of a policy's field is what is wrong with it.             *)
LEMMA PolicyFieldIsExact ==
  ASSUME NEW document \in Json, document.t = "record", NEW key \in PolicyKeys
  PROVE  FieldIssues(document, key) = WrongInPolicy(document, key)
<1> DEFINE v == Own(document, key)
<1>1. CASE PolicyFieldFits(document, key)
  BY <1>1, FieldIsReported DEF WrongInPolicy
<1>2. CASE ~PolicyFieldFits(document, key)
  <2>1. CASE key \in {"actions", "subjects"}
    <3>1. \A entry : (IsName(entry) /\ entry.text # "*") <=> Declarable(entry)
      BY DEF IsName, Declarable, NonEmpty
    <3>2. FieldIssues(document, key) = ReadNameList(v, << key >>).issues
      BY <2>1 DEF FieldIssues
    <3>3. WrongInPolicy(document, key) = WrongNames(v, << key >>, Declarable)
      BY <1>2, <2>1 DEF WrongInPolicy
    <3>4. ReadNameList(v, << key >>).issues = WrongNames(v, << key >>, Declarable)
      BY <3>1 DEF ReadNameList, Sifted, Nothing, FilledList, Filled, WrongNames, WrongEntries
    <3> QED BY <3>2, <3>3, <3>4
  <2>2. CASE key = "roles"
    <3>1. v # Undefined
      BY <1>2, <2>2 DEF PolicyFieldFits, RolesFit
    <3>2. FieldIssues(document, key) = ReadRoles(v).issues
      BY <2>2 DEF FieldIssues
    <3>3. WrongInPolicy(document, key) = WrongRoles(v)
      BY <1>2, <2>2 DEF WrongInPolicy
    <3> QED BY <3>1, <3>2, <3>3, RolesAreExact
  <2>3. CASE key = "rules"
    <3>1. Own(document, "rules").t # "list"
      BY <1>2, <2>3 DEF PolicyFieldFits
    <3>2. FieldIssues(document, key) = {<< key >>}
      BY <2>3, <3>1 DEF FieldIssues
    <3>3. WrongInPolicy(document, key) = {<< key >>}
      BY <1>2, <2>3 DEF WrongInPolicy
    <3> QED BY <3>2, <3>3
  <2> QED BY <2>1, <2>2, <2>3 DEF PolicyKeys
<1> QED BY <1>1, <1>2

ConditionalRules(document) ==
  {i \in DOMAIN RulesOf(document) :
     RulesOf(document)[i].t = "record" /\ Has(RulesOf(document)[i], "when")}

ConditionIssues(document, i) ==
  CheckCondition(Own(RulesOf(document)[i], "when"), << "rules", Index[i], "when" >>)

(* What is found of a rule is what is wrong with its fields, and with its  *)
(* condition, or that it is none.                                          *)
LEMMA RuleIsExact ==
  ASSUME NEW document \in Json, NEW i \in DOMAIN RulesOf(document), NEW x
  PROVE  LET rule == RulesOf(document)[i] IN
         x \in CheckedRule(document, i).issues <=>
           \/ ~Shaped(rule, RuleKeys) /\ x = << "rules", Index[i] >>
           \/ /\ rule.t = "record"
              /\ \E key \in RuleKeys \ {"when"} :
                   x \in WrongInRule(rule, key, << "rules", Index[i], key >>, Declared(document))
           \/ i \in ConditionalRules(document) /\ x \in ConditionIssues(document, i)
<1> DEFINE rule == RulesOf(document)[i]
           at == Index[i]
           d == Declared(document)
           issues == CheckedRule(document, i).issues
           more == IF DOMAIN rule.fields \subseteq RuleKeys THEN {} ELSE {<< "rules", at >>}
<1>1. rule \in Json
  BY RulesOfIsList
<1>2. CASE rule.t # "record"
  <2>1. issues = {<< "rules", at >>}
    BY <1>2 DEF CheckedRule, CheckRule, IsRecord
  <2> QED BY <1>2, <2>1 DEF Shaped, ConditionalRules
<1>3. CASE rule.t = "record"
  <2> DEFINE found == [key \in RuleKeys |-> FoundAt(rule, at, key, d)]
  <2>1. issues = Together(found, RuleKeys, more)
    BY <1>3, RuleIsChecked DEF CheckedRule
  <2>2. x \in more <=> ~Shaped(rule, RuleKeys) /\ x = << "rules", at >>
    BY <1>3 DEF Shaped
  <2>3. \A key \in RuleKeys \ {"when"} :
          found[key] = WrongInRule(rule, key, << "rules", at, key >>, d)
    BY <1>1, <1>3, RuleFieldIsExact
  <2>4. "when" \in RuleKeys
    BY DEF RuleKeys
  <2>5. x \in found["when"] <=> i \in ConditionalRules(document) /\ x \in ConditionIssues(document, i)
    <3>1. FoundAt(rule, at, "when", d) =
            IF Has(rule, "when") THEN CheckCondition(Own(rule, "when"), << "rules", at, "when" >>) ELSE {}
      BY DEF FoundAt
    <3> QED BY <1>3, <2>4, <3>1 DEF ConditionalRules, ConditionIssues
  <2> HIDE DEF found, more, issues
  <2>6. x \in issues <=> x \in more \/ \E key \in RuleKeys : x \in found[key]
    BY <2>1 DEF Together
  <2> HIDE DEF rule, at, d
  <2> QED BY <1>3, <2>2, <2>3, <2>4, <2>5, <2>6 DEF issues, rule, at, d
<1> QED BY <1>2, <1>3

(* The misplaced, one by one.                                              *)
LEMMA MisplacedAre ==
  ASSUME NEW document, NEW x
  PROVE  x \in Misplaced(document) <=>
           \/ x \in Strays(document)
           \/ document.t = "record" /\ \E key \in PolicyKeys : x \in WrongInPolicy(document, key)
           \/ \E i \in DOMAIN RulesOf(document) :
                /\ RulesOf(document)[i].t = "record"
                /\ \E key \in RuleKeys \ {"when"} :
                     x \in WrongInRule(RulesOf(document)[i], key, << "rules", Index[i], key >>,
                                       Declared(document))
BY DEF Misplaced

(* The broken conditions, and what is reported of them.                    *)
LEMMA ConditionsAreLocated ==
  ASSUME NEW document \in Json,
         NEW found, \A x : x \in found <=>
                      \E i \in ConditionalRules(document) : x \in ConditionIssues(document, i)
  PROVE  Located(found, BrokenConditions(document))
<1> DEFINE I == ConditionalRules(document)
           place(i) == << "rules", Index[i], "when" >>
           nodes(i) == {place(i) \o node : node \in BrokenIn(Own(RulesOf(document)[i], "when"))}
           issues == [i \in I |-> ConditionIssues(document, i)]
           broken == [i \in I |-> nodes(i)]
<1>1. ASSUME NEW i \in I PROVE Located(issues[i], broken[i])
  <2> DEFINE v == Own(RulesOf(document)[i], "when")
             S == {"rules", Index[i], "when"}
  <2>1. v \in Json
    BY RulesOfIsList, OwnIsJson DEF ConditionalRules
  <2>2. place(i) \in Seq(S)
    OBVIOUS
  <2> HIDE DEF S
  <2>3. Located(CheckCondition(v, place(i)), {place(i) \o node : node \in BrokenIn(v)})
    <3> HIDE DEF place, v
    <3> QED BY <2>1, <2>2, ConditionIsLocated
  <2> QED BY <2>3 DEF ConditionIssues
<1>2. \A x : x \in found <=> \E i \in I : x \in issues[i]
  OBVIOUS
<1>3. BrokenConditions(document) = UNION {nodes(i) : i \in I}
  BY DEF BrokenConditions, ConditionalRules
<1>4. \A x : x \in BrokenConditions(document) <=> \E i \in I : x \in broken[i]
  <2>1. \A i \in I : broken[i] = nodes(i)
    OBVIOUS
  <2> HIDE DEF nodes, broken, I
  <2> QED BY <1>3, <2>1
<1> HIDE DEF I, issues, broken
<1> QED BY <1>1, <1>2, <1>4, LocatedTogether

(* What is misplaced is reported, and each condition that is broken, and   *)
(* nothing else.                                                           *)
IsReported(document, issues) ==
  /\ issues = {} <=> IsPolicyDefinition(document)
  /\ IsReportOf(issues, Misplaced(document), BrokenConditions(document))

(* ValidatePolicy reports that.                                            *)
LEMMA DocumentIsReported ==
  ASSUME NEW document \in Json
  PROVE  IsReported(document, ValidatePolicy(document).issues)
<1> DEFINE issues == ValidatePolicy(document).issues
           rules == RulesOf(document)
           found == UNION {ConditionIssues(document, i) : i \in ConditionalRules(document)}
           broken == BrokenConditions(document)
<1>1. issues = {} <=> IsPolicyDefinition(document)
  BY DocumentIsSearched DEF IsSearched
<1>2. ASSUME NEW x PROVE x \in issues <=> x \in Misplaced(document) \/ x \in found
  <2>1. CASE document.t # "record"
    <3>1. issues = {<< >>}
      BY <2>1 DEF ValidatePolicy, IsRecord
    <3>2. DOMAIN rules = {}
      BY <2>1 DEF RulesOf
    <3>3. ~Shaped(document, PolicyKeys)
      BY <2>1 DEF Shaped
    <3>4. x \in Strays(document) <=> x = << >>
      BY <3>2, <3>3, StraysAre
    <3>5. found = {}
      BY <3>2 DEF ConditionalRules
    <3> HIDE DEF issues, found, rules
    <3> QED BY <2>1, <3>1, <3>2, <3>4, <3>5, MisplacedAre DEF rules
  <2>2. CASE document.t = "record"
    <3>1. x \in issues <=>
            \/ ~Shaped(document, PolicyKeys) /\ x = << >>
            \/ \E key \in PolicyKeys : x \in FieldIssues(document, key)
            \/ \E i \in DOMAIN rules : x \in CheckedRule(document, i).issues
            \/ \E i \in DOMAIN rules : NamedAgain(document, i) /\ x = << "rules", Index[i], "id" >>
      BY <2>2, PolicyIsValidated
    <3>2. (\E key \in PolicyKeys : x \in FieldIssues(document, key)) <=>
            \E key \in PolicyKeys : x \in WrongInPolicy(document, key)
      BY <2>2, PolicyFieldIsExact
    <3>3. (\E i \in DOMAIN rules : x \in CheckedRule(document, i).issues) <=>
            \/ \E i \in DOMAIN rules : ~Shaped(rules[i], RuleKeys) /\ x = << "rules", Index[i] >>
            \/ \E i \in DOMAIN rules :
                 /\ rules[i].t = "record"
                 /\ \E key \in RuleKeys \ {"when"} :
                      x \in WrongInRule(rules[i], key, << "rules", Index[i], key >>, Declared(document))
            \/ \E i \in DOMAIN rules : i \in ConditionalRules(document) /\ x \in ConditionIssues(document, i)
      BY RuleIsExact
    <3>4. x \in found <=> \E i \in DOMAIN rules :
                            i \in ConditionalRules(document) /\ x \in ConditionIssues(document, i)
      BY DEF ConditionalRules
    <3> HIDE DEF issues, found, rules
    <3> QED BY <2>2, <3>1, <3>2, <3>3, <3>4, StraysAre, MisplacedAre DEF rules
  <2> QED BY <2>1, <2>2
<1>3. Located(found, broken)
  <2>1. \A x : x \in found <=>
          \E i \in ConditionalRules(document) : x \in ConditionIssues(document, i)
    OBVIOUS
  <2> HIDE DEF found
  <2> QED BY <2>1, ConditionsAreLocated
<1> HIDE DEF issues, found, broken
<1>4. Misplaced(document) \subseteq issues
  BY <1>2
<1>5. \A node \in broken : At(node) \cap issues # {}
  BY <1>2, <1>3 DEF Located
<1>6. issues \subseteq Misplaced(document) \cup UNION {At(node) : node \in broken}
  BY <1>2, <1>3 DEF Located
<1>7. IsReported(document, issues)
  BY <1>1, <1>4, <1>5, <1>6 DEF IsReported, IsReportOf, broken
<1> QED BY <1>7 DEF issues

-----------------------------------------------------------------------------
(* What definePolicy answers.                                              *)

(* An error of the toolkit carries the details it was made with.           *)
LEMMA DetailsAreKept ==
  ASSUME NEW name, NEW message, NEW code, NEW status, NEW details, NEW cause, IsSomeChain(cause),
         NEW e, e = AppError("ValidationError", name, message, code, status, details, cause)
  PROVE  e.links[1].details = details
<1>1. PICK link : link = [type |-> "app", kind |-> "ValidationError", name |-> name,
                          message |-> message,
                          code |-> IF code = None THEN ErrorConstructors["ValidationError"].code
                                   ELSE code,
                          httpStatus |-> IF status = None
                                         THEN ErrorConstructors["ValidationError"].httpStatus
                                         ELSE status,
                          details |-> details]
  OBVIOUS
<1>2. e = Because(link, cause)
  BY <1>1 DEF AppError
<1>3. e.links[1] = link
  BY <1>2, TopOfChain DEF TopIs
<1> QED BY <1>1, <1>3

(* The error that is thrown carries the issues.                            *)
LEMMA DetailsAreIssues ==
  ASSUME NEW issues
  PROVE  /\ ToValidationError(issues).links[1].details = issues
         /\ EnvValidationError(issues).links[1].details = issues
<1>1. IsSomeChain(NoCause)
  BY DEF IsSomeChain, NoCause
<1>2. PICK e, name, message, code :
        /\ e = ToValidationError(issues)
        /\ name = "ValidationError" /\ message = "invalid policy" /\ code = "INVALID_POLICY"
  OBVIOUS
<1>3. e = AppError("ValidationError", name, message, code, None, issues, NoCause)
  BY <1>2 DEF ToValidationError, ValidationError
<1>4. e.links[1].details = issues
  BY ONLY <1>1, <1>3, DetailsAreKept
<1>5. PICK f, title, text, key :
        /\ f = EnvValidationError(issues)
        /\ title = "EnvValidationError" /\ text = "invalid environment"
        /\ key = "ENV_VALIDATION_ERROR"
  OBVIOUS
<1>6. f = AppError("ValidationError", title, text, key, 500, issues, NoCause)
  BY <1>5 DEF EnvValidationError
<1>7. f.links[1].details = issues
  BY ONLY <1>1, <1>6, DetailsAreKept
<1> QED BY <1>2, <1>4, <1>5, <1>7

IsPolicyAnswer(answer, document) ==
  LET issues == ValidatePolicy(document).issues IN
  IF issues = {} THEN answer = [outcome |-> "returned", value |-> BrandPolicy(PolicyOf(document))]
  ELSE answer.outcome = "threw" /\ answer.error.links[1].details = issues

(* It is answered with the policy if there is no issue, and else with all  *)
(* of them.                                                                *)
LEMMA PolicyIsAnswered ==
  ASSUME NEW document \in Json
  PROVE  IsPolicyAnswer(DefinePolicy(document), document)
<1> DEFINE validated == ValidatePolicy(document)
           issues == validated.issues
<1>1. CASE issues = {}
  <2>1. IsPolicyDefinition(document)
    BY <1>1, DocumentIsSearched DEF IsSearched
  <2>2. Shaped(document, PolicyKeys)
    <3>1. << >> \notin Strays(document)
      BY <2>1 DEF IsPolicyDefinition
    <3> QED BY <3>1, StraysAre
  <2>3. document.t = "record"
    BY <2>2 DEF Shaped
  <2>4. Own(document, "rules").t = "list"
    <3>1. << "rules" >> \notin Misfits(document)
      BY <2>1 DEF IsPolicyDefinition
    <3>2. ~MisfitOf(document, "rules")
      BY <3>1, MisfitsAre DEF PolicyKeys
    <3> QED BY <2>3, <3>2, FieldsAreRead DEF MisfitOf
  <2>5. validated.policy = PolicyOf(document)
    BY <2>3, <2>4, PolicyIsValidated
  <2>6. ParsePolicy(document) = [ok |-> TRUE, value |-> BrandPolicy(PolicyOf(document))]
    <3> HIDE DEF validated
    <3> QED BY <1>1, <2>5 DEF ParsePolicy, validated
  <2>7. DefinePolicy(document) = [outcome |-> "returned", value |-> BrandPolicy(PolicyOf(document))]
    BY <2>6 DEF DefinePolicy
  <2> QED BY <1>1, <2>7 DEF IsPolicyAnswer
<1>2. CASE issues # {}
  <2>1. ParsePolicy(document) = [ok |-> FALSE, error |-> ToValidationError(issues)]
    <3> HIDE DEF validated
    <3> QED BY <1>2 DEF ParsePolicy, validated
  <2>2. DefinePolicy(document) = [outcome |-> "threw", error |-> ToValidationError(issues)]
    BY <2>1 DEF DefinePolicy
  <2> HIDE DEF validated
  <2>3. /\ DefinePolicy(document).outcome = "threw"
        /\ DefinePolicy(document).error = ToValidationError(issues)
    BY <2>2
  <2>4. DefinePolicy(document).error.links[1].details = issues
    BY <2>3, DetailsAreIssues
  <2> QED BY <1>2, <2>3, <2>4 DEF IsPolicyAnswer, validated
<1> QED BY <1>1, <1>2

(* All that a definition is made of has the type that it must have.        *)
LEMMA DefinitionFits ==
  ASSUME NEW document \in Json, IsPolicyDefinition(document)
  PROVE  /\ document.t = "record"
         /\ \A key \in PolicyKeys : PolicyFieldFits(document, key)
         /\ \A i \in DOMAIN RulesOf(document) :
              RulesOf(document)[i] \in Json /\ RuleFits(RulesOf(document)[i], Declared(document))
<1> DEFINE d == Declared(document)
           rules == RulesOf(document)
<1>1. document.t = "record" /\ \A key \in PolicyKeys : PolicyFieldFits(document, key)
  <2>1. Shaped(document, PolicyKeys)
    <3>1. << >> \notin Strays(document)
      BY DEF IsPolicyDefinition
    <3> QED BY <3>1, StraysAre
  <2>2. ASSUME NEW key \in PolicyKeys PROVE ~MisfitOf(document, key)
    <3>1. << key >> \notin Misfits(document)
      BY DEF IsPolicyDefinition
    <3> QED BY <3>1, MisfitsAre
  <2> QED BY <2>1, <2>2 DEF Shaped, MisfitOf
<1>2. \A i \in DOMAIN rules : RuleFits(rules[i], d)
  <2> SUFFICES ASSUME NEW i \in DOMAIN rules PROVE RuleFits(rules[i], d)
    OBVIOUS
  <2>1. Shaped(rules[i], RuleKeys)
    <3>1. << "rules", Index[i] >> \notin Strays(document)
      BY DEF IsPolicyDefinition
    <3> QED BY <3>1, StraysAre
  <2>2. ASSUME NEW key \in RuleKeys PROVE ~MisfitIn(document, i, key)
    <3>1. << "rules", Index[i], key >> \notin Misfits(document)
      BY DEF IsPolicyDefinition
    <3> QED BY <3>1, MisfitsAre
  <2> QED BY <2>1, <2>2 DEF Shaped, MisfitIn, RuleFits
<1>3. \A i \in DOMAIN rules : rules[i] \in Json
  BY RulesOfIsList
<1> QED BY <1>1, <1>2, <1>3

(* What is returned is a policy, with as many rules.                       *)
LEMMA ReturnedIsPolicy ==
  ASSUME NEW document \in Json, IsPolicyDefinition(document)
  PROVE  IsPolicy(PolicyOf(document))
<1> DEFINE policy == PolicyOf(document)
           d == Declared(document)
           rules == RulesOf(document)
<1>1. document.t = "record" /\ \A key \in PolicyKeys : PolicyFieldFits(document, key)
  BY DefinitionFits
<1>2. \A i \in DOMAIN rules : RuleFits(rules[i], d)
  BY DefinitionFits
<1>3. policy.actions = d.actions /\ policy.subjects = d.subjects
  BY DEF PolicyOf
<1>4. policy.roles \in [d.roles -> SUBSET d.roles] /\ DOMAIN policy.roles = d.roles
  BY <1>1, FieldsAreRead DEF PolicyOf
<1>5. ASSUME NEW key \in {"actions", "subjects"} PROVE d[key] # {} /\ "*" \notin d[key]
  <2> DEFINE v == Own(document, key)
  <2>1. d[key] = NamesIn(v, Declarable)
    <3>1. CASE key = "actions"
      BY <3>1 DEF Declared
    <3>2. CASE key = "subjects"
      BY <3>2 DEF Declared
    <3> QED BY <3>1, <3>2
  <2>2. Filled(v) /\ \A item \in ItemsOf(v) : Declarable(item)
    <3>1. PolicyFieldFits(document, key) <=> Filled(v) /\ \A item \in ItemsOf(v) : Declarable(item)
      <4>1. CASE key = "actions"
        BY <4>1 DEF PolicyFieldFits
      <4>2. CASE key = "subjects"
        BY <4>2 DEF PolicyFieldFits
      <4> QED BY <4>1, <4>2
    <3> QED BY <1>1, <3>1 DEF PolicyKeys
  <2>3. v.items \in Seq(Json)
    BY <1>1, <2>2, OwnIsJson DEF Filled, IsListOver
  <2> HIDE DEF v
  <2>4. v.items[1] \in ItemsOf(v)
    BY <2>2, <2>3 DEF Filled, ItemsOf
  <2> QED BY <2>1, <2>2, <2>4 DEF NamesIn, Filled, Declarable
<1>6. /\ DOMAIN policy.rules = DOMAIN rules
      /\ \A i \in DOMAIN rules : policy.rules[i] = CheckedRule(document, i).rule
  BY DEF PolicyOf
<1> HIDE DEF policy
<1>7. ASSUME NEW i \in DOMAIN rules
      PROVE  /\ IsRule(policy.rules[i], policy)
             /\ "id" \in DOMAIN policy.rules[i] <=> NamedIn(document, i)
             /\ NamedIn(document, i) => policy.rules[i]["id"] = Own(rules[i], "id")
  <2>1. rules[i] \in Json /\ RuleFits(rules[i], d)
    BY <1>2, RulesOfIsList
  <2>2. /\ IsRule(policy.rules[i], policy)
        /\ DOMAIN policy.rules[i] = DOMAIN rules[i].fields
        /\ \A key \in DOMAIN rules[i].fields \ {"actions", "subjects", "roles"} :
             policy.rules[i][key] = rules[i].fields[key]
    <3>1. policy.rules[i] =
            CheckRule(rules[i], << "rules", Index[i] >>, d.actions, d.subjects, d.roles).rule
      BY <1>6 DEF CheckedRule
    <3> HIDE DEF rules, d
    <3> QED BY <1>3, <1>4, <2>1, <3>1, RuleIsUsable
  <2> QED BY <2>1, <2>2 DEF NamedIn, Has, Own
<1>8. ASSUME NEW i \in DOMAIN rules, NEW j \in DOMAIN rules, NamedIn(document, i), NamedIn(document, j),
             policy.rules[i]["id"] = policy.rules[j]["id"]
      PROVE  i = j
  <2>1. Own(rules[i], "id") = Own(rules[j], "id")
    BY <1>7, <1>8
  <2>2. i \in Nat /\ j \in Nat
    BY RulesOfIsList
  <2>3. ASSUME NEW k \in DOMAIN rules PROVE ~NamedAgain(document, k)
    <3>1. << "rules", Index[k], "id" >> \notin Strays(document)
      BY DEF IsPolicyDefinition
    <3> QED BY <3>1, StraysAre
  <2>4. ~(i < j) /\ ~(j < i)
    BY <1>8, <2>1, <2>3 DEF NamedAgain
  <2> QED BY <2>2, <2>4
<1>9. policy.actions # {} /\ policy.subjects # {} /\ "*" \notin policy.actions \cup policy.subjects
  BY <1>3, <1>5
<1>10. \A i, j \in {k \in DOMAIN policy.rules : "id" \in DOMAIN policy.rules[k]} :
         policy.rules[i]["id"] = policy.rules[j]["id"] => i = j
  BY <1>6, <1>7, <1>8
<1>11. \A i \in DOMAIN policy.rules : IsRule(policy.rules[i], policy)
  BY <1>6, <1>7
<1>12. IsPolicy(policy)
  BY <1>4, <1>9, <1>10, <1>11 DEF IsPolicy
<1> QED BY <1>12 DEF policy

-----------------------------------------------------------------------------
(* What JSON makes of names.                                               *)

(* The sequence that lists a finite set has all of it and nothing else.    *)
LEMMA SequenceListsSet ==
  ASSUME NEW S, IsFiniteSet(S)
  PROVE  /\ SetToSeq(S) \in Seq(S)
         /\ \A x \in S : \E i \in DOMAIN SetToSeq(S) : SetToSeq(S)[i] = x
<1> DEFINE n == Cardinality(S)
           f == SetToSeq(S)
<1>1. n \in Nat /\ ExistsBijection(1 .. n, S)
  BY FS_CardinalityType
<1>2. PICK g \in Bijection(1 .. n, S) : TRUE
  BY <1>1 DEF ExistsBijection
<1>3. g \in [1 .. n -> S] /\ IsInjective(g)
  BY <1>2 DEF Bijection, Injection, IsInjective
<1>4. f \in [1 .. n -> S] /\ IsInjective(f)
  BY <1>3 DEF SetToSeq
<1> HIDE DEF f
<1>5. f \in Injection(1 .. n, S)
  BY <1>4 DEF Injection, IsInjective
<1>6. Cardinality(1 .. n) = n
  BY <1>1, FS_Interval
<1>7. f \in Surjection(1 .. n, S)
  BY <1>5, <1>6, FS_Injection
<1>8. \A x \in S : \E i \in 1 .. n : f[i] = x
  BY <1>7 DEF Surjection
<1>9. f \in Seq(S) /\ DOMAIN f = 1 .. n
  BY <1>1, <1>4
<1> QED BY <1>8, <1>9 DEF f

(* A list of texts has the names, and nothing else.                        *)
ListsNames(v, names) ==
  /\ v.t = "list" /\ v.items \in Seq({Text(n) : n \in names})
  /\ \A n \in names : \E i \in DOMAIN v.items : v.items[i] = Text(n)

(* Names on the wire are listed.                                           *)
LEMMA NamesAreListed ==
  ASSUME NEW names, IsFiniteSet(names)
  PROVE  ListsNames(NamesOnTheWire(names), names)
<1> DEFINE listed == SetToSeq(names)
           items == [i \in DOMAIN listed |-> Text(listed[i])]
           v == NamesOnTheWire(names)
<1>1. /\ listed \in Seq(names)
      /\ \A n \in names : \E i \in DOMAIN listed : listed[i] = n
  BY SequenceListsSet
<1> HIDE DEF listed
<1>2. v.t = "list" /\ v.items = items
  BY DEF NamesOnTheWire, ListOf, listed
<1>3. items \in Seq({Text(n) : n \in names})
  <2>1. PICK m \in Nat : DOMAIN listed = 1 .. m
    BY <1>1
  <2>2. \A i \in 1 .. m : listed[i] \in names
    BY <1>1, <2>1
  <2>3. items \in [1 .. m -> {Text(n) : n \in names}]
    BY <2>1, <2>2
  <2> QED BY <2>3
<1>4. ASSUME NEW n \in names PROVE \E i \in DOMAIN items : items[i] = Text(n)
  BY <1>1
<1> QED BY <1>2, <1>3, <1>4 DEF ListsNames

(* What is in such a list.                                                 *)
LEMMA ListedNames ==
  ASSUME NEW v, NEW names, ListsNames(v, names)
  PROVE  /\ \A i \in DOMAIN v.items : v.items[i].t = "text" /\ v.items[i].text \in names
         /\ \A n \in names : \E i \in DOMAIN v.items : v.items[i].text = n
         /\ Filled(v) <=> names # {}
         /\ IsListOver(v, {Text(n) : n \in names})
<1>1. \A i \in DOMAIN v.items : v.items[i] \in {Text(n) : n \in names}
  BY DEF ListsNames
<1>2. \A n : Text(n).t = "text" /\ Text(n).text = n
  BY DEF Text
<1>3. Filled(v) <=> names # {}
  <2>1. ASSUME names # {} PROVE v.items # << >>
    <3>1. PICK i \in DOMAIN v.items : TRUE
      BY <2>1 DEF ListsNames
    <3> QED BY <3>1
  <2>2. ASSUME v.items # << >> PROVE names # {}
    <3>1. 1 \in DOMAIN v.items
      BY <2>2 DEF ListsNames
    <3> QED BY <1>1, <3>1
  <2> QED BY <2>1, <2>2 DEF Filled, ListsNames
<1>4. \A i \in DOMAIN v.items : v.items[i].t = "text" /\ v.items[i].text \in names
  <2> SUFFICES ASSUME NEW i \in DOMAIN v.items
               PROVE  v.items[i].t = "text" /\ v.items[i].text \in names
    OBVIOUS
  <2>1. PICK n \in names : v.items[i] = Text(n)
    BY <1>1
  <2> QED BY <1>2, <2>1
<1>5. ASSUME NEW n \in names PROVE \E i \in DOMAIN v.items : v.items[i].text = n
  <2>1. PICK i \in DOMAIN v.items : v.items[i] = Text(n)
    BY DEF ListsNames
  <2> QED BY <1>2, <2>1
<1>6. IsListOver(v, {Text(n) : n \in names})
  BY DEF ListsNames, IsListOver
<1> QED BY <1>3, <1>4, <1>5, <1>6

(* Read again, they are the same.                                          *)
LEMMA NamesAreReadAgain ==
  ASSUME NEW v, NEW names, ListsNames(v, names), names # {},
         \A n \in names : n # "" /\ n # "*", NEW key
  PROVE  ReadNameList(v, << key >>) = [names |-> names, issues |-> {}]
<1> DEFINE right(entry) == IsName(entry) /\ entry.text # "*"
<1>1. \A i \in DOMAIN v.items : right(v.items[i])
  BY ListedNames DEF IsName
<1>2. {v.items[i].text : i \in {j \in DOMAIN v.items : right(v.items[j])}} = names
  <2> DEFINE read == {v.items[i].text : i \in {j \in DOMAIN v.items : right(v.items[j])}}
  <2>1. \A x : x \in read <=> \E i \in DOMAIN v.items : x = v.items[i].text
    BY <1>1
  <2>2. \A i \in DOMAIN v.items : v.items[i].text \in names
    BY ListedNames
  <2>3. \A n \in names : \E i \in DOMAIN v.items : v.items[i].text = n
    BY ListedNames
  <2>4. \A x : x \in read <=> x \in names
    <3> HIDE DEF read
    <3>1. ASSUME NEW x \in read PROVE x \in names
      BY <2>1, <2>2
    <3>2. ASSUME NEW x \in names PROVE x \in read
      <4>1. PICK i \in DOMAIN v.items : v.items[i].text = x
        BY <2>3
      <4> QED BY <2>1, <4>1
    <3> QED BY <3>1, <3>2
  <2> QED BY <2>4
<1>3. {Append(<< key >>, Index[i]) : i \in {j \in DOMAIN v.items : ~right(v.items[j])}} = {}
  BY <1>1
<1>4. ReadNameList(v, << key >>) = Sifted(v.items, << key >>, right)
  BY ListedNames DEF ReadNameList, Filled, FilledList
<1>5. Sifted(v.items, << key >>, right) =
        [names |-> {v.items[i].text : i \in {j \in DOMAIN v.items : right(v.items[j])}},
         issues |-> {Append(<< key >>, Index[i]) : i \in {j \in DOMAIN v.items : ~right(v.items[j])}}]
  BY DEF Sifted
<1> QED BY <1>2, <1>3, <1>4, <1>5

(* Of names that were selected, all are read again.                        *)
LEMMA SelectionIsReadAgain ==
  ASSUME NEW v, NEW names, ListsNames(v, names), NEW declared, names \subseteq declared
  PROVE  /\ RightIn(v.items, declared) = names
         /\ WrongIn(v.items, declared) = {}
         /\ Filled(v) <=> names # {}
<1>1. /\ \A i \in DOMAIN v.items : v.items[i].t = "text" /\ v.items[i].text \in names
      /\ \A n \in names : \E i \in DOMAIN v.items : v.items[i].text = n
      /\ Filled(v) <=> names # {}
  BY ListedNames
<1>2. \A i \in DOMAIN v.items : OneOf(v.items[i], declared)
  BY <1>1 DEF OneOf
<1>3. WrongIn(v.items, declared) = {}
  BY <1>2 DEF WrongIn
<1>4. \A x : x \in RightIn(v.items, declared) <=> \E i \in DOMAIN v.items : x = v.items[i].text
  BY <1>2 DEF RightIn
<1>5. \A x : x \in RightIn(v.items, declared) <=> x \in names
  BY <1>1, <1>4
<1> QED BY <1>1, <1>3, <1>5

-----------------------------------------------------------------------------
(* What JSON makes of a value.                                             *)

CopyAt(f, n) == [w \in Json |-> IF n = 0 THEN w ELSE CopyOf(w, f[n - 1])]

IsCopy(f, n) == f = [m \in 0 .. n |-> CopyAt(f, m)]

HoldsAt(f, n) ==
  [w \in Json |-> w = NaN \/ (n # 0 /\ \E part \in Inside(w) : f[n - 1][part])]

IsHeld(f, n) == f = [m \in 0 .. n |-> HoldsAt(f, m)]

(* However deep a value is, there is a copy of it.                         *)
LEMMA CopyExists == \A n \in Nat : \E f : IsCopy(f, n)
<1> DEFINE S == {n \in Nat : \E f : IsCopy(f, n)}
<1>1. 0 \in S
  <2> DEFINE f == [m \in 0 .. 0 |-> CopyAt(<< >>, 0)]
  <2>1. CopyAt(f, 0) = CopyAt(<< >>, 0)
    BY DEF CopyAt
  <2>2. \A m \in 0 .. 0 : m = 0
    OBVIOUS
  <2>3. f = [m \in 0 .. 0 |-> CopyAt(f, m)]
    <3>1. \A m \in 0 .. 0 : f[m] = CopyAt(f, m)
      <4>1. f[0] = CopyAt(<< >>, 0)
        OBVIOUS
      <4> HIDE DEF f
      <4> QED BY <2>1, <2>2, <4>1
    <3>2. f = [m \in 0 .. 0 |-> f[m]]
      OBVIOUS
    <3> HIDE DEF f
    <3> QED BY <3>1, <3>2
  <2> HIDE DEF f
  <2> QED BY <2>3 DEF IsCopy
<1>2. ASSUME NEW n \in Nat, n \in S PROVE n + 1 \in S
  <2>1. PICK f : IsCopy(f, n)
    BY <1>2
  <2> DEFINE g == [m \in 0 .. n + 1 |-> IF m = n + 1 THEN CopyAt(f, m) ELSE f[m]]
  <2>2. ASSUME NEW m \in 0 .. n + 1 PROVE g[m] = CopyAt(g, m)
    <3>1. CopyAt(g, m) = CopyAt(f, m)
      <4>1. CASE m = 0
        BY <4>1 DEF CopyAt
      <4>2. CASE m # 0
        <5>1. g[m - 1] = f[m - 1]
          BY <4>2
        <5> HIDE DEF g
        <5> QED BY <5>1 DEF CopyAt
      <4> QED BY <4>1, <4>2
    <3>2. CASE m = n + 1
      BY <3>1, <3>2
    <3>3. CASE m # n + 1
      <4>1. m \in 0 .. n
        BY <3>3
      <4>2. f[m] = CopyAt(f, m)
        BY <2>1, <4>1 DEF IsCopy
      <4> QED BY <3>1, <3>3, <4>2
    <3> QED BY <3>2, <3>3
  <2>3. g = [m \in 0 .. n + 1 |-> g[m]]
    OBVIOUS
  <2>4. IsCopy(g, n + 1)
    <3> HIDE DEF g
    <3> QED BY <2>2, <2>3 DEF IsCopy
  <2> QED BY <2>4
<1>3. Nat \subseteq S
  <2> HIDE DEF S
  <2> QED BY <1>1, <1>2, NatSetInduction
<1> QED BY <1>3

(* However deep a value is, NaN is in it or is not.                        *)
LEMMA HeldExists == \A n \in Nat : \E f : IsHeld(f, n)
<1> DEFINE T == [Json -> BOOLEAN]
           first == [w \in Json |-> w = NaN]
           next(below) == [w \in Json |-> w = NaN \/ \E part \in Inside(w) : below[part]]
           step == [below \in T |-> next(below)]
<1>1. first \in T /\ step \in [T -> T]
  OBVIOUS
<1> HIDE DEF first, step, T
<1> SUFFICES ASSUME NEW n \in Nat PROVE \E f : IsHeld(f, n)
  OBVIOUS
<1>2. PICK f \in [0 .. n -> T] : f[0] = first /\ \A m \in 1 .. n : f[m] = step[f[m - 1]]
  <2>1. \E f : IsLevels(n, f, T, first, step)
    BY <1>1, LevelsExist
  <2> QED BY <2>1 DEF IsLevels
<1>3. ASSUME NEW m \in 0 .. n PROVE f[m] = HoldsAt(f, m)
  <2>1. CASE m = 0
    BY <1>2, <2>1 DEF HoldsAt, first
  <2>2. CASE m # 0
    <3>1. m \in 1 .. n /\ m - 1 \in 0 .. n
      BY <2>2
    <3>2. f[m - 1] \in T /\ f[m] = step[f[m - 1]]
      BY <1>2, <3>1
    <3>3. f[m] = next(f[m - 1])
      BY <3>2 DEF step
    <3> QED BY <2>2, <3>3 DEF HoldsAt
  <2> QED BY <2>1, <2>2
<1>4. f = [m \in 0 .. n |-> f[m]]
  BY <1>2
<1> QED BY <1>3, <1>4 DEF IsHeld

(* Without NaN in it, a copy is the same.                                  *)
LEMMA CopyIsSame ==
  ASSUME NEW N \in Nat, NEW f, IsCopy(f, N), NEW g, IsHeld(g, N)
  PROVE  \A w \in Json : ~g[N][w] => f[N][w] = w
<1> DEFINE S == {n \in Nat : n <= N => \A w \in Json : ~g[n][w] => f[n][w] = w}
<1>1. \A n \in 0 .. N : f[n] = CopyAt(f, n) /\ g[n] = HoldsAt(g, n)
  BY DEF IsCopy, IsHeld
<1>2. 0 \in S
  <2>1. f[0] = CopyAt(f, 0) /\ g[0] = HoldsAt(g, 0)
    BY <1>1
  <2> QED BY <2>1 DEF CopyAt
<1>3. ASSUME NEW n \in Nat, n \in S PROVE n + 1 \in S
  <2> SUFFICES ASSUME n + 1 <= N, NEW w \in Json, ~g[n + 1][w] PROVE f[n + 1][w] = w
    OBVIOUS
  <2>1. n \in 0 .. N /\ n + 1 \in 0 .. N /\ n + 1 # 0 /\ (n + 1) - 1 = n
    OBVIOUS
  <2>2. f[n + 1] = CopyAt(f, n + 1) /\ g[n + 1] = HoldsAt(g, n + 1)
    BY <1>1, <2>1
  <2>3. w # NaN /\ \A part \in Inside(w) : ~g[n][part]
    BY <2>1, <2>2 DEF HoldsAt
  <2>4. Inside(w) \subseteq Json
    BY JsonAssumption DEF Encoded
  <2>5. \A part \in Inside(w) : f[n][part] = part
    BY <1>3, <2>1, <2>3, <2>4
  <2>6. f[n + 1][w] = CopyOf(w, f[n])
    BY <2>1, <2>2 DEF CopyAt
  <2>7. CASE w.t = "list"
    <3>1. f[n + 1][w] = ListOf([i \in DOMAIN w.items |-> f[n][w.items[i]]])
      BY <2>3, <2>6, <2>7 DEF CopyOf
    <3>2. \A i \in DOMAIN w.items : f[n][w.items[i]] = w.items[i]
      BY <2>5, <2>7 DEF Inside, ItemsOf
    <3>3. w = ListOf(w.items) /\ w.items \in Seq(Json)
      BY <2>7, InsideJson
    <3>4. [i \in DOMAIN w.items |-> f[n][w.items[i]]] = w.items
      BY <3>2, <3>3
    <3> QED BY <3>1, <3>3, <3>4
  <2>8. CASE w.t = "record"
    <3>1. f[n + 1][w] = Record([key \in DOMAIN w.fields |-> f[n][w.fields[key]]])
      BY <2>3, <2>6, <2>8 DEF CopyOf
    <3>2. \A key \in DOMAIN w.fields : f[n][w.fields[key]] = w.fields[key]
      BY <2>5, <2>8 DEF Inside, Contents
    <3>3. w = Record(w.fields) /\ w.fields \in [DOMAIN w.fields -> Contents(w)]
      BY <2>8, JsonAssumption DEF Encoded
    <3>4. [key \in DOMAIN w.fields |-> f[n][w.fields[key]]] = w.fields
      BY <3>2, <3>3
    <3> QED BY <3>1, <3>3, <3>4
  <2>9. CASE w.t # "list" /\ w.t # "record"
    BY <2>3, <2>6, <2>9 DEF CopyOf
  <2> QED BY <2>7, <2>8, <2>9
<1>4. Nat \subseteq S
  <2> HIDE DEF S
  <2> QED BY <1>2, <1>3, NatSetInduction
<1> QED BY <1>4

(* And so is what JSON makes of a value.                                   *)
LEMMA CopiedIsSame ==
  ASSUME NEW v \in Json, ~HoldsNaN(v)
  PROVE  Copied(v) = v
<1> DEFINE f == CHOOSE f : IsCopy(f, Depth)
           g == CHOOSE g : IsHeld(g, Depth)
<1>1. Depth \in Nat
  BY MaxConditionDepthAssumption DEF Depth
<1>2. IsCopy(f, Depth) /\ IsHeld(g, Depth)
  BY <1>1, CopyExists, HeldExists
<1>3. Copied(v) = f[Depth][v]
  BY DEF Copied, IsCopy, CopyAt
<1>4. HoldsNaN(v) <=> g[Depth][v]
  BY DEF HoldsNaN, IsHeld, HoldsAt
<1> HIDE DEF f, g
<1> QED BY <1>1, <1>2, <1>3, <1>4, CopyIsSame

-----------------------------------------------------------------------------
(* A policy that is read again.                                            *)

(* A rule that was read, with what it takes to write it.                   *)
RuleIsSound(rule, policy) ==
  /\ IsRule(rule, policy)
  /\ rule = [key \in DOMAIN rule |-> rule[key]]
  /\ IsFiniteSet(rule["actions"]) /\ IsFiniteSet(rule["subjects"])
  /\ "roles" \in DOMAIN rule => IsFiniteSet(rule["roles"])
  /\ "when" \in DOMAIN rule => rule["when"] \in Json

(* A rule that fits is read as such a rule.                                *)
LEMMA ReadRuleIsSound ==
  ASSUME NEW rule \in Json, NEW at, NEW d, RuleFits(rule, d),
         NEW policy, policy.actions = d.actions, policy.subjects = d.subjects,
         DOMAIN policy.roles = d.roles
  PROVE  RuleIsSound(CheckRule(rule, << "rules", at >>, d.actions, d.subjects, d.roles).rule, policy)
<1> DEFINE path == << "rules", at >>
           a == Selector(rule, path, "actions", d.actions)
           s == Selector(rule, path, "subjects", d.subjects)
           r == RuleRoles(rule, path, d.roles)
           read == CheckRule(rule, path, d.actions, d.subjects, d.roles).rule
           keys == DOMAIN rule.fields
<1>1. rule.t = "record"
  BY DEF RuleFits
<1>2. read = ReadRule(rule, a.names, s.names, r.names)
  BY <1>1, RuleIsChecked
<1>3. /\ IsRule(read, policy) /\ DOMAIN read = keys
      /\ \A key \in keys \ {"actions", "subjects", "roles"} : read[key] = rule.fields[key]
  BY RuleIsUsable
<1>4. \A key : IsListOver(Own(rule, key), Json)
  BY <1>1, OwnIsJson
<1>5. IsFiniteSet(a.names) /\ IsFiniteSet(s.names) /\ IsFiniteSet(r.names)
  BY <1>4, SelectorIsRead, RuleRolesAreRead
<1>6. "when" \in keys => rule.fields["when"] \in Json
  BY <1>1, InsideJson
<1> HIDE DEF a, s, r, read, keys
<1>7. /\ read = [key \in DOMAIN read |-> read[key]]
      /\ "actions" \in keys => read["actions"] = a.names
      /\ "subjects" \in keys => read["subjects"] = s.names
      /\ "roles" \in keys => read["roles"] = r.names
  BY <1>2 DEF ReadRule, keys
<1>8. "actions" \in keys /\ "subjects" \in keys
  BY <1>3 DEF IsRule
<1>9. RuleIsSound(read, policy)
  BY <1>3, <1>5, <1>6, <1>7, <1>8 DEF RuleIsSound
<1> QED BY <1>9 DEF read

(* The actions and the subjects of a rule are read again as they were.     *)
LEMMA SelectorIsReadAgain ==
  ASSUME NEW rule, NEW at, NEW key, NEW names, NEW declared,
         IsSelection(names, declared), IsFiniteSet(names),
         Own(rule, key) = IF names = Everything THEN Text("*") ELSE NamesOnTheWire(names)
  PROVE  LET read == Selector(rule, << "rules", at >>, key, declared)
         IN  read.names = names /\ read.issues = {}
<1> DEFINE v == Own(rule, key)
           read == Selector(rule, << "rules", at >>, key, declared)
           place == << "rules", at, key >>
<1>1. << "rules", at >> \o << key >> = place
  BY TriplesBegin
<1>2. CASE names = Everything
  <2>1. IsOneOf(v, Everything)
    BY <1>2 DEF IsOneOf, Text, Everything
  <2>2. read = [names |-> Everything, issues |-> {}]
    BY <2>1 DEF Selector
  <2> QED BY <1>2, <2>2
<1>3. CASE names # Everything
  <2>1. ListsNames(v, names) /\ names # {} /\ names \subseteq declared
    BY <1>3, NamesAreListed DEF IsSelection
  <2>2. /\ RightIn(v.items, declared) = names /\ WrongIn(v.items, declared) = {}
        /\ v.t = "list" /\ Filled(v)
    BY <2>1, SelectionIsReadAgain DEF ListsNames
  <2> HIDE DEF v, place
  <2>3. read = [names |-> RightIn(v.items, declared), issues |-> Entries(place, WrongIn(v.items, declared))]
    <3>1. ~IsOneOf(v, Everything) /\ FilledList(v)
      BY <2>2 DEF IsOneOf, Filled, FilledList
    <3> QED BY <1>1, <3>1 DEF Selector, Sifted, Entries, RightIn, WrongIn, OneOf, v
  <2>4. Entries(place, {}) = {}
    BY DEF Entries
  <2> QED BY <2>2, <2>3, <2>4
<1> QED BY <1>2, <1>3

(* And so are its roles.                                                   *)
LEMMA RuleRolesAreReadAgain ==
  ASSUME NEW rule, NEW at, NEW names, NEW declared, Has(rule, "roles"),
         names # {}, names \subseteq declared, IsFiniteSet(names),
         Own(rule, "roles") = NamesOnTheWire(names)
  PROVE  LET read == RuleRoles(rule, << "rules", at >>, declared)
         IN  read.names = names /\ read.issues = {}
<1> DEFINE v == Own(rule, "roles")
           read == RuleRoles(rule, << "rules", at >>, declared)
           place == << "rules", at, "roles" >>
<1>1. << "rules", at >> \o << "roles" >> = place
  BY TriplesBegin
<1>2. ListsNames(v, names)
  BY NamesAreListed
<1>3. /\ RightIn(v.items, declared) = names /\ WrongIn(v.items, declared) = {}
      /\ FilledList(v)
  BY <1>2, SelectionIsReadAgain DEF Filled, FilledList
<1>4. read = [names |-> RightIn(v.items, declared), issues |-> Entries(place, WrongIn(v.items, declared))]
  <2> HIDE DEF place
  <2> QED BY <1>1, <1>3 DEF RuleRoles, Sifted, Entries, RightIn, WrongIn, OneOf
<1>5. Entries(place, {}) = {}
  BY DEF Entries
<1> HIDE DEF read, v, place
<1>6. read.names = names /\ read.issues = {}
  BY <1>3, <1>4, <1>5
<1> QED BY <1>6 DEF read

(* Without NaN, a rule is read again as it was.                            *)
LEMMA RuleIsReadAgain ==
  ASSUME NEW policy, NEW rule, RuleIsSound(rule, policy), IsPortable(rule), NEW at
  PROVE  LET read == CheckRule(RuleOnTheWire(rule), << "rules", at >>, policy.actions,
                               policy.subjects, DOMAIN policy.roles)
         IN  read.rule = rule /\ read.issues = {}
<1> DEFINE wire == RuleOnTheWire(rule)
           path == << "rules", at >>
           d == [actions |-> policy.actions, subjects |-> policy.subjects,
                 roles |-> DOMAIN policy.roles]
           keys == DOMAIN rule
           a == Selector(wire, path, "actions", d.actions)
           s == Selector(wire, path, "subjects", d.subjects)
           r == RuleRoles(wire, path, d.roles)
           read == CheckRule(wire, path, d.actions, d.subjects, d.roles)
<1>1. /\ {"effect", "actions", "subjects"} \subseteq keys /\ keys \subseteq RuleKeys
      /\ OneOf(rule["effect"], {"allow", "deny"})
      /\ IsSelection(rule["actions"], d.actions) /\ IsSelection(rule["subjects"], d.subjects)
      /\ "roles" \in keys => rule["roles"] # {} /\ rule["roles"] \subseteq d.roles
      /\ "when" \in keys => IsCondition(rule["when"])
      /\ "id" \in keys => NonEmpty(rule["id"])
      /\ "description" \in keys => rule["description"].t = "text"
  BY DEF RuleIsSound, IsRule
<1>2. wire.t = "record" /\ DOMAIN wire.fields = keys
  BY DEF RuleOnTheWire, Record
<1>3. \A key \in keys : Has(wire, key) /\ Own(wire, key) = wire.fields[key]
  BY <1>2 DEF Has, Own
<1>4. \A key : key \notin keys => ~Has(wire, key)
  BY <1>2 DEF Has
<1>5. ASSUME NEW key \in keys
      PROVE  wire.fields[key] =
               CASE key \in {"actions", "subjects"} ->
                      IF rule[key] = Everything THEN Text("*") ELSE NamesOnTheWire(rule[key])
                 [] key = "roles" -> NamesOnTheWire(rule[key])
                 [] key = "when" -> Copied(rule[key])
                 [] OTHER -> rule[key]
  BY DEF RuleOnTheWire, Record
<1> HIDE DEF wire
<1>6. "when" \in keys => Own(wire, "when") = rule["when"] /\ rule["when"] \in Json
  <2> SUFFICES ASSUME "when" \in keys
               PROVE  Own(wire, "when") = rule["when"] /\ rule["when"] \in Json
    OBVIOUS
  <2>1. rule["when"] \in Json /\ ~HoldsNaN(rule["when"])
    BY DEF RuleIsSound, IsPortable
  <2>2. Copied(rule["when"]) = rule["when"]
    BY <2>1, CopiedIsSame
  <2>3. Own(wire, "when") = Copied(rule["when"])
    BY <1>3, <1>5
  <2> QED BY <2>1, <2>2, <2>3
<1>7. \A key \in keys \ {"actions", "subjects", "roles", "when"} : Own(wire, key) = rule[key]
  BY <1>3, <1>5
<1>8. a.names = rule["actions"] /\ a.issues = {}
  <2>1. Own(wire, "actions") = IF rule["actions"] = Everything THEN Text("*")
                               ELSE NamesOnTheWire(rule["actions"])
    BY <1>1, <1>3, <1>5
  <2>2. IsSelection(rule["actions"], d.actions) /\ IsFiniteSet(rule["actions"])
    BY <1>1 DEF RuleIsSound
  <2> HIDE DEF d
  <2> QED BY <2>1, <2>2, SelectorIsReadAgain
<1>9. s.names = rule["subjects"] /\ s.issues = {}
  <2>1. Own(wire, "subjects") = IF rule["subjects"] = Everything THEN Text("*")
                                ELSE NamesOnTheWire(rule["subjects"])
    BY <1>1, <1>3, <1>5
  <2>2. IsSelection(rule["subjects"], d.subjects) /\ IsFiniteSet(rule["subjects"])
    BY <1>1 DEF RuleIsSound
  <2> HIDE DEF d
  <2> QED BY <2>1, <2>2, SelectorIsReadAgain
<1>10. r.issues = {} /\ ("roles" \in keys => r.names = rule["roles"])
  <2>1. CASE "roles" \in keys
    <3>1. Has(wire, "roles") /\ Own(wire, "roles") = NamesOnTheWire(rule["roles"])
      BY <1>3, <1>5, <2>1
    <3>2. IsFiniteSet(rule["roles"])
      BY <2>1 DEF RuleIsSound
    <3> QED BY <1>1, <2>1, <3>1, <3>2, RuleRolesAreReadAgain
  <2>2. CASE "roles" \notin keys
    BY <1>4, <2>2 DEF RuleRoles, Nothing
  <2> QED BY <2>1, <2>2
<1> DEFINE found == [key \in RuleKeys |-> FoundAt(wire, at, key, d)]
           more == IF DOMAIN wire.fields \subseteq RuleKeys THEN {} ELSE {path}
<1>11. read.issues = Together(found, RuleKeys, more) /\ read.rule = ReadRule(wire, a.names, s.names, r.names)
  BY <1>2, RuleIsChecked
<1>12. ASSUME NEW key \in RuleKeys PROVE FoundAt(wire, at, key, d) = {}
  <2>1. CASE key = "actions"
    BY <1>8, <2>1 DEF FoundAt
  <2>2. CASE key = "subjects"
    BY <1>9, <2>2 DEF FoundAt
  <2>3. CASE key = "roles"
    BY <1>10, <2>3 DEF FoundAt
  <2>4. CASE key = "effect"
    <3>1. OneOf(Own(wire, "effect"), {"allow", "deny"})
      BY <1>1, <1>7
    <3> QED BY <2>4, <3>1 DEF FoundAt
  <2>5. CASE key = "when"
    <3>1. FoundAt(wire, at, key, d) =
            IF Has(wire, "when") THEN CheckCondition(Own(wire, "when"), << "rules", at, "when" >>) ELSE {}
      BY <2>5 DEF FoundAt
    <3>2. Has(wire, "when") => CheckCondition(Own(wire, "when"), << "rules", at, "when" >>) = {}
      BY <1>1, <1>4, <1>6, ConditionIsChecked
    <3> QED BY <3>1, <3>2
  <2>6. CASE key = "id"
    <3>1. Has(wire, "id") => NonEmpty(Own(wire, "id"))
      BY <1>1, <1>4, <1>7
    <3> QED BY <2>6, <3>1 DEF FoundAt
  <2>7. CASE key = "description"
    <3>1. Has(wire, "description") => Own(wire, "description").t = "text"
      BY <1>1, <1>4, <1>7
    <3> QED BY <2>7, <3>1 DEF FoundAt
  <2> QED BY <2>1, <2>2, <2>3, <2>4, <2>5, <2>6, <2>7 DEF RuleKeys
<1>13. read.issues = {}
  <2>1. more = {} /\ \A key \in RuleKeys : found[key] = {}
    BY <1>1, <1>2, <1>12
  <2> HIDE DEF more, found, read
  <2> QED BY <1>11, <2>1, FoundTogether
<1>14. read.rule = rule
  <2>1. rule = [key \in keys |-> rule[key]]
    BY DEF RuleIsSound
  <2> HIDE DEF a, s, r, read
  <2>2. ASSUME NEW key \in keys
        PROVE  rule[key] = CASE key = "actions" -> a.names
                             [] key = "subjects" -> s.names
                             [] key = "roles" -> r.names
                             [] OTHER -> Own(wire, key)
    BY <1>6, <1>7, <1>8, <1>9, <1>10
  <2>3. read.rule = [key \in keys |-> CASE key = "actions" -> a.names
                                        [] key = "subjects" -> s.names
                                        [] key = "roles" -> r.names
                                        [] OTHER -> Own(wire, key)]
    BY <1>2, <1>11 DEF ReadRule
  <2> QED BY <2>1, <2>2, <2>3
<1>15. read = CheckRule(RuleOnTheWire(rule), path, policy.actions, policy.subjects, DOMAIN policy.roles)
  BY DEF wire
<1> QED BY <1>13, <1>14, <1>15

(* A policy that was read, with what it takes to write it.                 *)
PolicyIsSound(policy) ==
  /\ IsPolicy(policy)
  /\ policy = [actions |-> policy.actions, subjects |-> policy.subjects,
               roles |-> policy.roles, rules |-> policy.rules]
  /\ \A names \in {policy.actions, policy.subjects} : IsFiniteSet(names) /\ "" \notin names
  /\ DOMAIN policy.roles \cap (Unwalkable \cup {""}) = {}
  /\ \A r \in DOMAIN policy.roles : IsFiniteSet(policy.roles[r])
  /\ policy.rules = [i \in DOMAIN policy.rules |-> policy.rules[i]]
  /\ DOMAIN policy.rules \subseteq Nat
  /\ \A i \in DOMAIN policy.rules : RuleIsSound(policy.rules[i], policy)

(* What definePolicy returns is such a policy.                             *)
LEMMA ReturnedIsSound ==
  ASSUME NEW document \in Json, IsPolicyDefinition(document)
  PROVE  PolicyIsSound(PolicyOf(document))
<1> DEFINE policy == PolicyOf(document)
           d == Declared(document)
           rules == RulesOf(document)
<1>1. IsPolicy(policy)
  BY ReturnedIsPolicy
<1>2. /\ policy.actions = d.actions /\ policy.subjects = d.subjects
      /\ policy.roles = ReadRoles(Own(document, "roles")).graph
      /\ policy.rules = [i \in DOMAIN rules |-> CheckedRule(document, i).rule]
      /\ policy = [actions |-> policy.actions, subjects |-> policy.subjects,
                   roles |-> policy.roles, rules |-> policy.rules]
  BY DEF PolicyOf
<1>3. document.t = "record"
  BY DefinitionFits
<1> HIDE DEF policy
<1>4. /\ DOMAIN policy.roles = d.roles
      /\ \A r \in DOMAIN policy.roles : IsFiniteSet(policy.roles[r])
  BY <1>2, <1>3, FieldsAreRead
<1>5. d.roles \cap (Unwalkable \cup {""}) = {}
  <2>1. d.roles = RolesIn(Own(document, "roles"))
    BY DEF Declared, RolesIn
  <2> QED BY <2>1 DEF RolesIn, NamesIn, RoleName, NonEmpty
<1>6. ASSUME NEW key \in {"actions", "subjects"} PROVE IsFiniteSet(d[key]) /\ "" \notin d[key]
  <2> DEFINE v == Own(document, key)
             kept == {i \in DOMAIN v.items : Declarable(v.items[i])}
  <2>1. d[key] = NamesIn(v, Declarable)
    <3>1. CASE key = "actions"
      BY <3>1 DEF Declared
    <3>2. CASE key = "subjects"
      BY <3>2 DEF Declared
    <3> QED BY <3>1, <3>2
  <2>2. v.t = "list" => v.items \in Seq(Json)
    BY <1>3, OwnIsJson DEF IsListOver
  <2>3. v.t = "list" => d[key] = {v.items[i].text : i \in kept}
    BY <2>1 DEF NamesIn, ItemsOf
  <2>4. kept \subseteq DOMAIN v.items
    OBVIOUS
  <2>5. v.t # "list" => d[key] = {}
    BY <2>1 DEF NamesIn
  <2>6. "" \notin d[key]
    BY <2>1 DEF NamesIn, Declarable, NonEmpty
  <2> HIDE DEF v, kept
  <2>7. CASE v.t = "list"
    <3>1. IsFiniteSet({v.items[i].text : i \in kept})
      BY <2>2, <2>4, <2>7, ImageIsFinite
    <3> QED BY <2>3, <2>6, <2>7, <3>1
  <2>8. CASE v.t # "list"
    BY <2>5, <2>6, <2>8, FS_EmptySet
  <2> QED BY <2>7, <2>8
<1>7. /\ DOMAIN policy.rules = DOMAIN rules /\ DOMAIN rules \subseteq Nat
      /\ policy.rules = [i \in DOMAIN policy.rules |-> policy.rules[i]]
  BY <1>2, RulesOfIsList
<1>8. ASSUME NEW i \in DOMAIN rules PROVE RuleIsSound(policy.rules[i], policy)
  <2>1. rules[i] \in Json /\ RuleFits(rules[i], d)
    BY DefinitionFits
  <2>2. policy.rules[i] = CheckRule(rules[i], << "rules", Index[i] >>, d.actions, d.subjects, d.roles).rule
    BY <1>2 DEF CheckedRule
  <2> HIDE DEF rules, d
  <2> QED BY <1>2, <1>4, <2>1, <2>2, ReadRuleIsSound
<1>9. \A names \in {policy.actions, policy.subjects} : IsFiniteSet(names) /\ "" \notin names
  BY <1>2, <1>6
<1>10. PolicyIsSound(policy)
  BY <1>1, <1>2, <1>4, <1>5, <1>7, <1>8, <1>9 DEF PolicyIsSound
<1> QED BY <1>10 DEF policy

(* The roles of a policy are read again as they were.                      *)
LEMMA RolesAreReadAgain ==
  ASSUME NEW graph, NEW D, graph \in [D -> SUBSET D], D \cap (Unwalkable \cup {""}) = {},
         \A r \in D : IsFiniteSet(graph[r])
  PROVE  ReadRoles(Record([r \in DOMAIN graph |-> NamesOnTheWire(graph[r])])) =
           [graph |-> graph, issues |-> {}]
<1> DEFINE v == Record([r \in DOMAIN graph |-> NamesOnTheWire(graph[r])])
           at(r) == << "roles", r >>
           usable == {r \in DOMAIN v.fields : r # "" /\ r \notin ForbiddenSegments}
           isRole(entry) == entry.t = "text" /\ entry.text \in usable
           parents(r) == IF Own(v, r).t = "list" THEN Sifted(Own(v, r).items, at(r), isRole)
                         ELSE Nothing({at(r)})
           spare == {IF r = "" THEN << "roles" >> ELSE at(r) : r \in DOMAIN v.fields \ usable}
<1>1. /\ v.t = "record" /\ DOMAIN v.fields = D /\ v # Undefined
      /\ \A r \in D : Own(v, r) = NamesOnTheWire(graph[r])
  BY DEF Record, Undefined, Own, Has
<1>2. ReadRoles(v) = [graph |-> [r \in usable |-> parents(r).names],
                      issues |-> (UNION {parents(r).issues : r \in usable}) \cup spare]
  <2> HIDE DEF v
  <2> QED BY <1>1 DEF ReadRoles, IsRecord
<1> HIDE DEF v
<1>3. usable = D
  BY <1>1 DEF ForbiddenSegments, Unwalkable
<1>4. spare = {}
  BY <1>1, <1>3
<1>5. ASSUME NEW r \in D PROVE parents(r) = [names |-> graph[r], issues |-> {}]
  <2> DEFINE listed == NamesOnTheWire(graph[r])
  <2>1. graph[r] \subseteq D /\ ListsNames(listed, graph[r])
    BY NamesAreListed
  <2>2. RightIn(listed.items, D) = graph[r] /\ WrongIn(listed.items, D) = {} /\ listed.t = "list"
    <3> HIDE DEF listed
    <3> QED BY <2>1, SelectionIsReadAgain DEF ListsNames
  <2>3. Own(v, r) = listed
    BY <1>1
  <2> HIDE DEF listed, usable
  <2>4. parents(r) = [names |-> RightIn(listed.items, D),
                      issues |-> Entries(at(r), WrongIn(listed.items, D))]
    BY <1>3, <2>2, <2>3 DEF Sifted, Entries, RightIn, WrongIn, OneOf
  <2>5. Entries(at(r), {}) = {}
    BY DEF Entries
  <2> QED BY <2>2, <2>4, <2>5
<1>6. /\ [r \in D |-> parents(r).names] = [r \in D |-> graph[r]]
      /\ {parents(r).issues : r \in D} = {{} : r \in D}
  <2>1. ASSUME NEW r \in D, NEW p, p = [names |-> graph[r], issues |-> {}]
        PROVE  p.names = graph[r] /\ p.issues = {}
    BY <2>1
  <2>2. \A r \in D : parents(r).names = graph[r]
    BY <1>5, <2>1, Zenon
  <2>3. \A r \in D : parents(r).issues = {}
    BY <1>5, <2>1, Zenon
  <2> QED BY <2>2, <2>3, Zenon
<1> HIDE DEF parents
<1>7. [r \in usable |-> parents(r).names] = graph
  <2>1. graph = [r \in D |-> graph[r]]
    OBVIOUS
  <2> QED BY <1>3, <1>6, <2>1
<1>8. UNION {parents(r).issues : r \in usable} = {}
  <2>1. UNION {{} : r \in D} = {}
    OBVIOUS
  <2> HIDE DEF usable
  <2> QED BY <1>3, <1>6, <2>1
<1> HIDE DEF usable, spare
<1> QED BY <1>2, <1>4, <1>7, <1>8 DEF v

(* Without NaN, the rules of a policy are read again as they were.         *)
LEMMA RulesAreReadAgain ==
  ASSUME NEW policy, PolicyIsSound(policy),
         \A i \in DOMAIN policy.rules : IsPortable(policy.rules[i])
  PROVE  CheckRules(ListOf([i \in DOMAIN policy.rules |-> RuleOnTheWire(policy.rules[i])]),
                    policy.actions, policy.subjects, DOMAIN policy.roles) =
           [rules |-> policy.rules, issues |-> {}]
<1> DEFINE rules == policy.rules
           v == ListOf([i \in DOMAIN rules |-> RuleOnTheWire(rules[i])])
           checked == [i \in DOMAIN rules |->
             CheckRule(RuleOnTheWire(rules[i]), << "rules", Index[i] >>,
                       policy.actions, policy.subjects, DOMAIN policy.roles)]
           named == {i \in DOMAIN checked : checked[i].issues = {} /\ "id" \in DOMAIN checked[i].rule}
           twice == {i \in named : \E j \in named : j < i /\ checked[j].rule["id"] = checked[i].rule["id"]}
           all == CheckRules(v, policy.actions, policy.subjects, DOMAIN policy.roles)
<1>1. all = Collect(checked)
  <2>1. /\ v.t = "list" /\ DOMAIN v.items = DOMAIN rules
        /\ \A i \in DOMAIN rules : v.items[i] = RuleOnTheWire(rules[i])
    BY DEF ListOf
  <2>2. [i \in DOMAIN v.items |->
           CheckRule(v.items[i], << "rules", Index[i] >>,
                     policy.actions, policy.subjects, DOMAIN policy.roles)] = checked
    <3> HIDE DEF v, rules
    <3> QED BY <2>1
  <2> HIDE DEF v, checked, rules
  <2> QED BY <2>1, <2>2 DEF CheckRules
<1>2. ASSUME NEW i \in DOMAIN rules PROVE checked[i].rule = rules[i] /\ checked[i].issues = {}
  <2>1. RuleIsSound(rules[i], policy) /\ IsPortable(rules[i])
    BY DEF PolicyIsSound
  <2> DEFINE read == CheckRule(RuleOnTheWire(rules[i]), << "rules", Index[i] >>,
                               policy.actions, policy.subjects, DOMAIN policy.roles)
  <2>2. checked[i] = read
    OBVIOUS
  <2> HIDE DEF checked, rules
  <2>3. read.rule = rules[i] /\ read.issues = {}
    BY <2>1, RuleIsReadAgain
  <2> QED BY <2>2, <2>3
<1>3. DOMAIN checked = DOMAIN rules
  OBVIOUS
<1>4. Collect(checked) = [rules |-> [i \in DOMAIN checked |-> checked[i].rule],
                          issues |-> (UNION {checked[i].issues : i \in DOMAIN checked})
                                       \cup {<< "rules", Index[i], "id" >> : i \in twice}]
  <2> HIDE DEF checked
  <2> QED BY Zenon DEF Collect
<1> HIDE DEF checked
<1>5. twice = {}
  <2>1. \A i, j \in named : rules[i]["id"] = rules[j]["id"] => i = j
    <3>1. \A i \in named : i \in DOMAIN rules /\ "id" \in DOMAIN rules[i]
      BY <1>2, <1>3
    <3> HIDE DEF named
    <3> QED BY <3>1 DEF PolicyIsSound, IsPolicy
  <2>2. \A i \in DOMAIN rules : ~(i < i)
    <3>1. DOMAIN rules \subseteq Nat
      BY DEF PolicyIsSound
    <3> HIDE DEF rules
    <3> QED BY <3>1
  <2> QED BY <1>2, <1>3, <2>1, <2>2
<1>6. [i \in DOMAIN checked |-> checked[i].rule] = rules
  <2>1. rules = [i \in DOMAIN rules |-> rules[i]]
    BY DEF PolicyIsSound
  <2> QED BY <1>2, <1>3, <2>1
<1>7. UNION {checked[i].issues : i \in DOMAIN checked} = {}
  BY <1>2, <1>3
<1> HIDE DEF all, rules, twice
<1>8. all = [rules |-> rules, issues |-> {}]
  BY <1>1, <1>4, <1>5, <1>6, <1>7
<1> QED BY <1>8 DEF all, rules

(* Without NaN, a policy is read again as it was.                          *)
LEMMA PolicyIsReadAgain ==
  ASSUME NEW policy, PolicyIsSound(policy),
         \A i \in DOMAIN policy.rules : IsPortable(policy.rules[i])
  PROVE  ParsePolicy(OnTheWire(policy)) = [ok |-> TRUE, value |-> BrandPolicy(policy)]
<1> DEFINE input == OnTheWire(policy)
           a == ReadNameList(Own(input, "actions"), << "actions" >>)
           s == ReadNameList(Own(input, "subjects"), << "subjects" >>)
           r == ReadRoles(Own(input, "roles"))
           rules == CheckRules(Own(input, "rules"), a.names, s.names, DOMAIN r.graph)
           read == ValidatePolicy(input)
<1>1. /\ input.t = "record" /\ DOMAIN input.fields = {"actions", "subjects", "roles", "rules"}
      /\ Own(input, "actions") = NamesOnTheWire(policy.actions)
      /\ Own(input, "subjects") = NamesOnTheWire(policy.subjects)
      /\ Own(input, "roles") = Record([x \in DOMAIN policy.roles |-> NamesOnTheWire(policy.roles[x])])
      /\ Own(input, "rules") = ListOf([i \in DOMAIN policy.rules |-> RuleOnTheWire(policy.rules[i])])
  BY DEF OnTheWire, Record, Own, Has
<1> HIDE DEF input
<1>2. a = [names |-> policy.actions, issues |-> {}]
  <2>1. IsFiniteSet(policy.actions) /\ policy.actions # {} /\ \A n \in policy.actions : n # "" /\ n # "*"
    BY DEF PolicyIsSound, IsPolicy
  <2> QED BY <1>1, <2>1, NamesAreListed, NamesAreReadAgain
<1>3. s = [names |-> policy.subjects, issues |-> {}]
  <2>1. IsFiniteSet(policy.subjects) /\ policy.subjects # {} /\ \A n \in policy.subjects : n # "" /\ n # "*"
    BY DEF PolicyIsSound, IsPolicy
  <2> QED BY <1>1, <2>1, NamesAreListed, NamesAreReadAgain
<1>4. r = [graph |-> policy.roles, issues |-> {}]
  BY <1>1, RolesAreReadAgain DEF PolicyIsSound, IsPolicy
<1> HIDE DEF a, s, r
<1>5. rules = [rules |-> policy.rules, issues |-> {}]
  BY <1>1, <1>2, <1>3, <1>4, RulesAreReadAgain
<1>6. read = [policy |-> [actions |-> a.names, subjects |-> s.names, roles |-> r.graph,
                          rules |-> rules.rules],
              issues |-> a.issues \cup s.issues \cup r.issues \cup rules.issues]
  <2>1. DOMAIN input.fields \ {"actions", "subjects", "roles", "rules"} = {}
    BY <1>1
  <2> QED BY <1>1, <2>1 DEF ValidatePolicy, IsRecord, a, s, r
<1> HIDE DEF rules, read
<1>7. policy = [actions |-> policy.actions, subjects |-> policy.subjects,
                roles |-> policy.roles, rules |-> policy.rules]
  BY DEF PolicyIsSound
<1>8. read.policy = policy /\ read.issues = {}
  <2>1. read.policy = [actions |-> policy.actions, subjects |-> policy.subjects,
                       roles |-> policy.roles, rules |-> policy.rules]
    BY <1>2, <1>3, <1>4, <1>5, <1>6
  <2>2. read.issues = {}
    BY <1>2, <1>3, <1>4, <1>5, <1>6
  <2> QED BY <1>7, <2>1, <2>2
<1> QED BY <1>8 DEF ParsePolicy, read, input

-----------------------------------------------------------------------------
(* The environment.                                                        *)

IsSetIn(source, v) == v \in DOMAIN source /\ source[v].text # ""
ReadIn(spec, source, v) == Parse(spec[v].parser, source[v])
FallbackOf(var) == IF var.hasDefault THEN var.defaultValue ELSE None

DefectsIn(spec, source) ==
  {v \in DOMAIN spec :
     IF IsSetIn(source, v) THEN ReadIn(spec, source, v) = Invalid
     ELSE ~spec[v].hasDefault /\ ~spec[v].isOptional}

(* What is reported of the environment is what is wrong with it, and each  *)
(* variable has its value, or its default.                                 *)
LEMMA EnvironmentIsRead ==
  ASSUME NEW spec, NEW source \in Sources
  PROVE  /\ Evaluate(spec, source).issues =
              {Issue(v, IF IsSetIn(source, v) THEN "invalid" ELSE "missing") :
                 v \in DefectsIn(spec, source)}
         /\ Evaluate(spec, source).issues = {} <=> DefectsIn(spec, source) = {}
         /\ \A v \in DOMAIN spec :
              Evaluate(spec, source).entries[v] =
                IF IsSetIn(source, v) THEN ReadIn(spec, source, v) ELSE FallbackOf(spec[v])
<1> DEFINE raw(v) == ReadRaw(source, v)
           unset == {v \in DOMAIN spec : raw(v) = None}
           defaulted == {v \in unset : spec[v].hasDefault}
           missing == {v \in unset \ defaulted : ~spec[v].isOptional}
           invalid == {v \in DOMAIN spec \ unset : Parse(spec[v].parser, raw(v)) = Invalid}
           found == {Issue(v, "missing") : v \in missing} \cup {Issue(v, "invalid") : v \in invalid}
           entries == [v \in DOMAIN spec |->
                         IF v \in defaulted THEN spec[v].defaultValue
                         ELSE IF v \in unset THEN None
                         ELSE Parse(spec[v].parser, raw(v))]
           defects == DefectsIn(spec, source)
           reported == {Issue(v, IF IsSetIn(source, v) THEN "invalid" ELSE "missing") : v \in defects}
<1>1. /\ Evaluate(spec, source).issues = found
      /\ Evaluate(spec, source).entries = entries
  BY DEF Evaluate
<1>2. \A v : /\ raw(v) = None <=> ~IsSetIn(source, v)
             /\ IsSetIn(source, v) => raw(v) = source[v]
  BY SourcesAssumption DEF ReadRaw, IsSetIn
<1>3. \A v \in DOMAIN spec :
        /\ v \in unset <=> ~IsSetIn(source, v)
        /\ v \in defaulted <=> ~IsSetIn(source, v) /\ spec[v].hasDefault
        /\ v \in missing <=> v \in defects /\ ~IsSetIn(source, v)
        /\ v \in invalid <=> v \in defects /\ IsSetIn(source, v)
  BY <1>2 DEF DefectsIn, ReadIn
<1>4. missing \subseteq DOMAIN spec /\ invalid \subseteq DOMAIN spec /\ defects \subseteq DOMAIN spec
  BY DEF DefectsIn
<1>5. ASSUME NEW v \in DOMAIN spec
      PROVE  entries[v] = IF IsSetIn(source, v) THEN ReadIn(spec, source, v) ELSE FallbackOf(spec[v])
  <2>1. entries[v] = IF v \in defaulted THEN spec[v].defaultValue
                     ELSE IF v \in unset THEN None
                     ELSE Parse(spec[v].parser, raw(v))
    OBVIOUS
  <2> HIDE DEF entries, defaulted, unset
  <2> QED BY <1>2, <1>3, <2>1 DEF FallbackOf, ReadIn
<1>6. \A issue : issue \in found <=>
        \/ \E v \in missing : issue = Issue(v, "missing")
        \/ \E v \in invalid : issue = Issue(v, "invalid")
  OBVIOUS
<1>7. \A issue : issue \in reported <=>
        \E v \in defects : issue = Issue(v, IF IsSetIn(source, v) THEN "invalid" ELSE "missing")
  OBVIOUS
<1> HIDE DEF missing, invalid, found, entries, defects, unset, defaulted, reported
<1>8. found = reported
  <2>1. ASSUME NEW issue \in found PROVE issue \in reported
    <3>1. ASSUME NEW v \in missing, issue = Issue(v, "missing") PROVE issue \in reported
      BY <1>3, <1>4, <1>7, <3>1
    <3>2. ASSUME NEW v \in invalid, issue = Issue(v, "invalid") PROVE issue \in reported
      BY <1>3, <1>4, <1>7, <3>2
    <3> QED BY <1>6, <3>1, <3>2
  <2>2. ASSUME NEW issue \in reported PROVE issue \in found
    <3>1. PICK v \in defects : issue = Issue(v, IF IsSetIn(source, v) THEN "invalid" ELSE "missing")
      BY <1>7
    <3> QED BY <1>3, <1>4, <1>6, <3>1
  <2> QED BY <2>1, <2>2
<1>9. found = {} <=> defects = {}
  <2>1. ASSUME NEW v \in defects PROVE found # {}
    BY <1>7, <1>8
  <2>2. ASSUME NEW issue \in found PROVE defects # {}
    BY <1>7, <1>8
  <2> QED BY <2>1, <2>2
<1> QED BY <1>1, <1>5, <1>8, <1>9 DEF defects, reported

(* What EnvironmentIsJudged says of the call.                              *)
IsEnvironmentAnswer(spec, source, loaded, answer) ==
  /\ loaded.ok <=> DefectsIn(spec, source) = {}
  /\ answer.outcome = "returned" <=> DefectsIn(spec, source) = {}
  /\ ~loaded.ok =>
       /\ answer.error = loaded.error
       /\ loaded.error.links[1].details =
            {Issue(v, IF IsSetIn(source, v) THEN "invalid" ELSE "missing") :
               v \in DefectsIn(spec, source)}
  /\ loaded.ok =>
       /\ answer.value = loaded.value
       /\ \A v \in DOMAIN spec :
            loaded.value[v] = IF IsSetIn(source, v) THEN ReadIn(spec, source, v)
                              ELSE FallbackOf(spec[v])

(* It says it of what the call was given, and of nothing else.             *)
LEMMA JudgedIsAnswer ==
  /\ EnvironmentIsJudged <=> IsEnvironmentAnswer(call.spec, call.source, call.loaded, call.answer)
  /\ EnvironmentIsJudged' <=>
       IsEnvironmentAnswer(call'.spec, call'.source, call'.loaded, call'.answer)
BY Zenon DEF EnvironmentIsJudged, IsEnvironmentAnswer, DefectsIn, IsSetIn, ReadIn, FallbackOf

(* The two loaders answer that, and nothing but that.                      *)
LEMMA EnvironmentStep == LoadsEnvironment => EnvironmentIsJudged'
<1> SUFFICES ASSUME LoadsEnvironment PROVE EnvironmentIsJudged'
  OBVIOUS
<1>1. PICK spec \in Specs, source \in Sources, exits \in BOOLEAN :
        call' = [op |-> "environment", spec |-> spec, source |-> source,
                 loaded |-> LoadEnv(spec, source), answer |-> RequireEnv(spec, source, exits)]
  BY DEF LoadsEnvironment
<1> DEFINE read == Evaluate(spec, source)
           loaded == LoadEnv(spec, source)
           answer == RequireEnv(spec, source, exits)
<1>2. /\ call'.spec = spec /\ call'.source = source
      /\ call'.loaded = loaded /\ call'.answer = answer
  BY <1>1
<1>3. /\ read.issues =
           {Issue(v, IF IsSetIn(source, v) THEN "invalid" ELSE "missing") : v \in DefectsIn(spec, source)}
      /\ read.issues = {} <=> DefectsIn(spec, source) = {}
      /\ \A v \in DOMAIN spec :
           read.entries[v] = IF IsSetIn(source, v) THEN ReadIn(spec, source, v) ELSE FallbackOf(spec[v])
  BY EnvironmentIsRead
<1> HIDE DEF read
<1>4. CASE read.issues = {}
  <2>1. loaded = [ok |-> TRUE, value |-> read.entries]
    BY <1>4 DEF LoadEnv, read
  <2>2. answer.outcome = "returned" /\ answer.value = read.entries
    BY <1>4 DEF RequireEnv, read
  <2> HIDE DEF loaded, answer
  <2>3. loaded.ok = TRUE /\ loaded.value = read.entries
    BY <2>1
  <2>4. IsEnvironmentAnswer(spec, source, loaded, answer)
    BY <1>3, <1>4, <2>2, <2>3 DEF IsEnvironmentAnswer
  <2> QED BY <1>2, <2>4, JudgedIsAnswer
<1>5. CASE read.issues # {}
  <2>1. loaded = [ok |-> FALSE, error |-> EnvValidationError(read.issues)]
    BY <1>5 DEF LoadEnv, read
  <2>2. answer.outcome # "returned" /\ answer.error = EnvValidationError(read.issues)
    BY <1>5 DEF RequireEnv, read
  <2> HIDE DEF loaded, answer
  <2>3. loaded.ok = FALSE /\ loaded.error = EnvValidationError(read.issues)
    BY <2>1
  <2>4. loaded.error.links[1].details = read.issues
    BY <2>3, DetailsAreIssues
  <2>5. IsEnvironmentAnswer(spec, source, loaded, answer)
    BY <1>3, <1>5, <2>2, <2>3, <2>4 DEF IsEnvironmentAnswer
  <2> QED BY <1>2, <2>5, JudgedIsAnswer
<1> QED BY <1>4, <1>5

(* What a policy's document is answered with is judged as the types say,   *)
(* and can be used.                                                        *)
LEMMA PolicyStep == ReadsPolicy => (PolicyIsJudged /\ PolicyIsUsable)'
<1> SUFFICES ASSUME ReadsPolicy PROVE PolicyIsJudged' /\ PolicyIsUsable'
  OBVIOUS
<1>1. PICK document \in Documents :
        call' = [op |-> "policy", document |-> document, answer |-> DefinePolicy(document),
                 again |-> IF DefinePolicy(document).outcome = "returned"
                           THEN ParsePolicy(OnTheWire(DefinePolicy(document).value.policy)) ELSE None]
  BY DEF ReadsPolicy
<1>2. document \in Json
  BY DocumentsAssumption
<1> DEFINE issues == ValidatePolicy(document).issues
           answer == DefinePolicy(document)
           policy == PolicyOf(document)
<1>3. IsReported(document, issues) /\ IsPolicyAnswer(answer, document)
  BY <1>2, DocumentIsReported, PolicyIsAnswered
<1>4. /\ call'.document = document /\ call'.answer = answer
      /\ answer.outcome = "returned" => call'.again = ParsePolicy(OnTheWire(answer.value.policy))
  BY <1>1
<1> HIDE DEF answer, issues, policy
<1>5. CASE issues = {}
  <2>1. answer = [outcome |-> "returned", value |-> BrandPolicy(policy)]
    BY <1>3, <1>5 DEF IsPolicyAnswer, issues, policy
  <2>2. answer.outcome = "returned" /\ answer.value = BrandPolicy(policy)
    BY <2>1
  <2>3. BrandPolicy(policy).policy = policy
    BY DEF BrandPolicy
  <2>4. IsPolicyDefinition(document)
    BY <1>3, <1>5 DEF IsReported
  <2>5. PolicyIsSound(policy)
    BY <1>2, <2>4, ReturnedIsSound DEF policy
  <2>6. (\A i \in DOMAIN policy.rules : IsPortable(policy.rules[i])) =>
          call'.again = [ok |-> TRUE, value |-> call'.answer.value]
    BY <1>4, <2>2, <2>3, <2>5, PolicyIsReadAgain
  <2>7. PolicyIsJudged'
    BY <1>4, <2>2, <2>4 DEF PolicyIsJudged
  <2>8. PolicyIsUsable'
    BY <1>4, <2>2, <2>3, <2>5, <2>6 DEF PolicyIsUsable, PolicyIsSound
  <2> QED BY <2>7, <2>8
<1>6. CASE issues # {}
  <2>1. answer.outcome = "threw" /\ answer.error.links[1].details = issues
    BY <1>3, <1>6 DEF IsPolicyAnswer, issues
  <2>2. PolicyIsJudged'
    BY <1>3, <1>4, <1>6, <2>1 DEF PolicyIsJudged, IsReported
  <2>3. PolicyIsUsable'
    BY <1>4, <2>1 DEF PolicyIsUsable
  <2> QED BY <2>2, <2>3
<1> QED BY <1>5, <1>6

(* validate.ts:18, policy.ts:84 and env.ts:238: for every environment,      *)
(* every variable that is wrong is reported; for every document, every      *)
(* name, entry, field and rule that is wrong outside of conditions, at its  *)
(* place, and every condition that is broken by itself, at it or at one of  *)
(* its fields (which need not be all that is wrong with it); nothing else   *)
(* is reported.  An id that is used again counts only if both rules are     *)
(* right otherwise.  What is returned is what the engine counts on, and a   *)
(* policy without NaN is read again as it was after JSON has been made of   *)
(* it.                                                                      *)
THEOREM DefectsAreFound == CallsSpec => []DefectsAreReported
<1>1. call = None => DefectsAreReported
  BY DEF DefectsAreReported, Is
<1>2. DefectsAreReported /\ UNCHANGED call => DefectsAreReported'
  <2>1. PolicyIsJudged /\ UNCHANGED call => PolicyIsJudged'
    BY DEF PolicyIsJudged
  <2>2. PolicyIsUsable /\ UNCHANGED call => PolicyIsUsable'
    BY DEF PolicyIsUsable
  <2>3. EnvironmentIsJudged /\ UNCHANGED call => EnvironmentIsJudged'
    BY JudgedIsAnswer
  <2> QED BY <2>1, <2>2, <2>3 DEF DefectsAreReported, Is
<1>3. ASSUME LoadsEnvironment PROVE DefectsAreReported'
  <2>1. call'.op = "environment"
    BY <1>3 DEF LoadsEnvironment
  <2> QED BY <1>3, <2>1, EnvironmentStep DEF DefectsAreReported, Is
<1>4. ASSUME ReadsPolicy PROVE DefectsAreReported'
  <2>1. call'.op = "policy"
    BY <1>4 DEF ReadsPolicy
  <2> QED BY <1>4, <2>1, PolicyStep DEF DefectsAreReported, Is
<1>5. ASSUME ExchangesNext PROVE DefectsAreReported'
  <2>1. call'.op \notin {"policy", "environment"}
    BY <1>5 DEF ExchangesNext, ChecksToken, AnswersFailure, AnswersRequest, WritesLog
  <2> QED BY <2>1 DEF DefectsAreReported, Is
<1>6. DefectsAreReported /\ [CallNext]_call => DefectsAreReported'
  BY <1>2, <1>3, <1>4, <1>5 DEF CallNext
<1> QED BY <1>1, <1>6, PTL DEF CallsSpec
=============================================================================
