----------------------------- MODULE LoginsProps -----------------------------
(* What Logins promises.                                                   *)
EXTENDS Logins

Counters == {None} \cup [count : Nat \ {0}, resetAt : Nat]
Pcs == {"idle", "admitted", "verifying", "failed", "passed", "upgrading", "done"}

LoginsTypeOK ==
  /\ maxAttempts \in Nat \ {0}
  /\ onStoreError \in {"deny", "allow"}
  /\ now \in Nat
  /\ counter \in Counters
  /\ pc \in [Callers -> Pcs]
  /\ peak \in Nat

Counted == IF counter = None THEN 0 ELSE counter.count

(* rate-limit.ts:200: check and recordFailure are two calls, so logins that *)
(* overlap are all let in on one count.  The counter, with the logins still *)
(* to be counted, exceeds maxAttempts - 1 by no more than the most logins   *)
(* that were under way at once, unless it was told to fail open.  This      *)
(* bounds what is counted.  An increment that the store loses is not, and   *)
(* lets one login more be tried in its place.                               *)
OverrunIsOverlap ==
  onStoreError = "deny" =>
    Counted + Cardinality(UnderWay) <= maxAttempts - 1 + peak

(* stores.ts:98 and 106: the counter is what fixed windows make of the      *)
(* failures counted since the last reset, at every moment: a window is      *)
(* opened by the first failure that is in none, and is never extended.      *)
CounterIsTheWindow ==
  LET opener[i \in DOMAIN recorded] ==
        IF i = 1 THEN 1
        ELSE IF recorded[i] >= recorded[opener[i - 1]] + Window THEN i
        ELSE opener[i - 1]
      last == Len(recorded)
      resetAt == recorded[opener[last]] + Window
  IN  Live = IF last = 0 \/ now >= resetAt THEN None
             ELSE [count |-> last - opener[last] + 1, resetAt |-> resetAt]

(* README.md of auth-utils: "an attacker timing failures either side of a   *)
(* boundary gets up to 2 x maxAttempts in quick succession".  No more than  *)
(* two windows' worth of failures fall into any span of a window's length,  *)
(* each window's worth being what OverrunIsOverlap says.                    *)
TwiceAtMost ==
  onStoreError = "deny" =>
    \A i, j \in DOMAIN recorded :
      i <= j /\ recorded[j] - recorded[i] < Window =>
        j - i + 1 <= 2 * (maxAttempts - 1 + peak)

(* password.ts:240 and 291: for a password that can be hashed, an account   *)
(* that does not exist, a hash that is no PHC string or whose identifier    *)
(* does not start with "argon2", and a digest at the target cost all take a *)
(* derivation at the target cost, as long as the store has not failed and   *)
(* every derivation could run (faults = 0).  The rows left out are those    *)
(* that the code does not equalise: an identifier that starts with "argon2" *)
(* and is no variant of it, a digest that argon2 cannot use, and one at     *)
(* another cost.  The first two answer without a derivation, although       *)
(* password.ts:196 has an unusable stored hash cost a full one.             *)
SameWork ==
  \A l \in Callers :
    LET exempt ==
          /\ stored[l] # None /\ stored[l].phc /\ stored[l].id \in Argon2Ids
          /\ \/ stored[l].id \notin Argon2Variants
             \/ ~stored[l].usable
             \/ CostOf(stored[l]) # ResolveParams(Params)
    IN  pc[l] \in {"passed", "failed"} /\ faults = 0 /\ ~exempt => work[l] = ResolveParams(Params)
=============================================================================
