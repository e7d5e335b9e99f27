------------------------- MODULE RefreshTokensProps -------------------------
(***************************************************************************)
(* What must hold of RefreshTokens, and the abstract session it implements.*)
(***************************************************************************)
EXTENDS RefreshTokens

PC == {"idle", "create", "read", "decide", "cas", "revokeRead", "revokeCas", "done"}

Outcome ==
  {"none", "ok", "void", "malformed", "unknown_family", "unknown_token",
   "expired", "family_expired", "revoked", "reused", "store_error"}

Link == [token : Tokens, from : Tokens \cup {Forged, None}]

\* The variables have the shapes the code's declarations give them.
TypeOK ==
  /\ now \in Nat
  /\ store \in [Families -> Entry]
  /\ pc \in [Calls -> PC]
  /\ req \in [Calls -> Request]
  /\ attempt \in [Calls -> 0 .. MaxRetries - 1]
  /\ sawReuse \in [Calls -> BOOLEAN]
  /\ snap \in [Calls -> Entry]
  /\ next \in [Calls -> Family]
  /\ result \in [Calls -> Outcome]
  /\ issued \in [Families -> Seq(Link)]
  /\ faults \in Nat

-----------------------------------------------------------------------------
\* A token is good for exactly one exchange (README of auth-utils, "each
\* token is good for exactly one exchange"): however many calls present it at
\* once, at most one successor is ever stored for it.
NoFork ==
  \A f \in Families : \A i, j \in DOMAIN issued[f] :
    issued[f][i].from = issued[f][j].from => i = j

\* A replay is recognised up to maxChainLength rotations back, and retention
\* costs no more than that: every token retired at most MaxChainLength
\* rotations ago is among usedHashes, which the logout path relies on too.
DetectionWindow ==
  \A f \in Families : Present(f) =>
    LET family == store[f].family
        last   == Len(issued[f])
    IN /\ \A i \in 1 .. last :
            (last - i <= MaxChainLength /\ issued[f][i].token # family.current)
               => issued[f][i].token \in Range(family.usedHashes)
       /\ Len(family.usedHashes) <= MaxChainLength + (IF Revoked(family) THEN 1 ELSE 0)

\* No false alarm: `reused` is only ever answered to a call that presented a
\* token of that family which had really been exchanged for a later one,
\* never for a lost race, a guess or a token of a logged-out session.
AlertsAreReal ==
  \A c \in Calls : result[c] = "reused" =>
    \E i, j \in DOMAIN issued[req[c].family] :
      /\ i < j
      /\ issued[req[c].family][i].token = req[c].token

\* Token t of family f was exchanged for a later one.
Superseded(f, t) ==
  \E i, j \in DOMAIN issued[f] : i < j /\ issued[f][i].token = t

\* Call c may end session f: it names the family, it logs out with a token
\* that the family issued, or it replays one that was exchanged.
MayEnd(c, f) ==
  /\ req[c].family = f
  /\ \/ req[c].kind = "revokeFamily"
     \/ req[c].kind = "revoke" /\ req[c].token \in IssuedTokens(f)
     \/ req[c].kind = "rotate" /\ Superseded(f, req[c].token)

\* Sending a string is not ending a session: the very call whose write
\* revokes a family is one that may, whatever was rotated, pruned, replayed
\* or logged out before it.  A guess, or another family's token, revokes
\* nothing at any point of a session's life.
GuessEndsNoSession ==
  [][ \A f \in Families :
        ~ Revoked(store[f].family) /\ Revoked(store'[f].family) =>
          \E c \in Calls : pc[c] # "done" /\ pc'[c] = "done" /\ MayEnd(c, f) ]_vars

\* Rotation slides a token's expiry but never the family's: nothing is
\* accepted past the ceiling fixed when the session began.
SessionCeiling ==
  \A f \in Families : Present(f) =>
    LET family == store[f].family IN
    /\ family.absoluteExpiresAt = family.createdAt + AbsoluteTtl
    /\ family.expiresAt <= family.absoluteExpiresAt

\* A session that ended stays ended: no write in flight revives a revoked
\* family, changes why it was revoked, or brings back an evicted one.
RevocationIsFinal ==
  [][ \A f \in Families :
        /\ Present(f) /\ Revoked(store[f].family) =>
             \/ ~ Present(f)'
             \/ store'[f].family.revokedReason = store[f].family.revokedReason
        /\ issued[f] # << >> /\ ~ Present(f) => ~ Present(f)' ]_vars

\* Every call of the service settles, whatever the other calls do: the retry
\* loops are bounded and nothing waits for another call.
EveryCallReturns == \A c \in Calls : pc[c] # "idle" ~> pc[c] = "done"

\* The maxRetries option: "Only genuinely pathological contention exhausts
\* this."  With as many attempts as there are writers of a family, and while
\* the store does not fail, no call ends in a store error.
ContentionIsAbsorbed ==
  faults = 0 => \A c \in Calls : result[c] # "store_error"

-----------------------------------------------------------------------------
(* Refinement: the chain is the history, the status is read off the store. *)

SessionStatus(f) ==
  IF issued[f] = << >> THEN "none"
  ELSE IF ~ Present(f) THEN "gone"
  ELSE IF Revoked(store[f].family) THEN "revoked"
  ELSE "live"

Session == INSTANCE SessionChain WITH
  chain <- issued,
  status <- [f \in Families |-> SessionStatus(f)]

\* Interleaved, retried and failing calls still act on each session as if
\* every exchange and revocation were one atomic step.
ImplementsSession == Session!Spec
=============================================================================
