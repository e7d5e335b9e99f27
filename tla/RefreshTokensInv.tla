-------------------------- MODULE RefreshTokensInv --------------------------
(***************************************************************************)
(* The inductive invariant behind the theorems about RefreshTokens.  The   *)
(* safety properties alone do not carry over a step: they say nothing of   *)
(* what a suspended call holds, which is what its next write depends on.   *)
(***************************************************************************)
EXTENDS RefreshTokensProps, FiniteSets

Suspended == {"create", "read", "decide", "cas", "revokeRead", "revokeCas"}

\* What a call was asked, and what it holds, fits the await it is at.
FitsAwait(c) ==
  /\ pc[c] \in Suspended => req[c].family \in Families
  /\ pc[c] = "idle" => req[c] = NoRequest
  /\ pc[c] \in {"read", "decide", "cas"} =>
       req[c].kind = "rotate" /\ req[c].token \in Tokens \cup {Forged}
  /\ pc[c] = "create" =>
       /\ req[c].kind = "issue" /\ req[c].token = None
       /\ snap[c] = Absent
       /\ next[c].current \in Tokens /\ ~ Revoked(next[c])
  /\ pc[c] \in {"revokeRead", "revokeCas"} => req[c].kind # "issue"
  /\ result[c] = "ok" => pc[c] = "done" /\ next[c].current \in Tokens
  /\ pc[c] \in {"idle", "read", "decide", "revokeRead"} => next[c].current = None
  /\ pc[c] \in {"idle", "read", "revokeRead"} => snap[c] = Absent
  /\ pc[c] = "done" /\ result[c] # "ok" => next[c].current = None

CallShape == \A c \in Calls : FitsAwait(c)

\* A family id is drawn once: until its call creates it, it does not exist.
OneIssue ==
  /\ \A c, d \in Calls :
       req[c].kind = "issue" /\ req[d].kind = "issue"
       /\ req[c].family = req[d].family => c = d
  /\ \A c \in Calls :
       pc[c] = "create" => issued[req[c].family] = << >>
  /\ \A f \in Families : Present(f) => issued[f] # << >>
  /\ \A f \in Families :
       issued[f] # << >> =>
         \E c \in Calls : req[c].kind = "issue" /\ req[c].family = f

\* The revision tells the truth: if it has not moved since a call read the
\* family, the family is the one the call read.
ReadTruly(c) ==
  pc[c] \in {"decide", "cas", "revokeCas"} =>
    LET f == req[c].family IN
    /\ snap[c].revision # 0
    /\ issued[f] # << >>
    /\ Present(f) => snap[c].revision <= store[f].revision
    /\ store[f].revision = snap[c].revision => store[f].family = snap[c].family

SnapshotTruth == \A c \in Calls : ReadTruly(c)

\* What a call is about to write follows from what it read.
FollowsRead(c) ==
  /\ pc[c] \in {"cas", "revokeCas"} => ~ Revoked(snap[c].family)
  /\ pc[c] = "cas" =>
       \/ Revoked(next[c]) /\ next[c].current = None
       \/ /\ ~ Revoked(next[c]) /\ next[c].current \in Tokens
          /\ req[c].token = snap[c].family.current
  /\ pc[c] = "revokeCas" => Revoked(next[c]) /\ next[c].current = None

WriteFollowsRead == \A c \in Calls : FollowsRead(c)

\* Each family's history is one line, ending in its live token.
Linked(f) ==
  /\ issued[f] # << >> => issued[f][1].from = None
  /\ \A i \in 1 .. Len(issued[f]) - 1 :
       issued[f][i + 1].from = issued[f][i].token
  /\ Present(f) /\ ~ Revoked(store[f].family) =>
       store[f].family.current = issued[f][Len(issued[f])].token

ChainLinked == \A f \in Families : Linked(f)

\* No token is drawn twice: a stored one is stored once, and one that a call
\* is about to store is nowhere else.
StoredOnce ==
  \A f, g \in Families : \A i \in DOMAIN issued[f], j \in DOMAIN issued[g] :
    issued[f][i].token = issued[g][j].token => f = g /\ i = j

HeldOnce(c) ==
  pc[c] \in {"create", "cas"} =>
    /\ \A f \in Families : next[c].current \notin IssuedTokens(f)
    /\ \A d \in Calls :
         next[d].current = next[c].current /\ next[c].current # None => d = c

TokensDistinct == StoredOnce /\ \A c \in Calls : HeldOnce(c)

IInv ==
  /\ TypeOK
  /\ CallShape
  /\ OneIssue
  /\ SnapshotTruth
  /\ WriteFollowsRead
  /\ ChainLinked
  /\ TokensDistinct
-----------------------------------------------------------------------------
(* The rest says what a record contains and why: with it, alerts, logouts, *)
(* the detection window and the ceiling follow.                            *)

\* A call writes what the code computes from the record that it read.
Computed(c) ==
  /\ pc[c] = "create" =>
       \E t \in Tokens, n \in Nat : next[c] = NewFamily(t, n, AbsoluteTtl)
  /\ pc[c] = "cas" =>
       \/ sawReuse[c] /\ next[c] = Revoke(snap[c].family, "reuse_detected")
       \/ \E t \in Tokens, n \in Nat : next[c] = Rotate(snap[c].family, t, n)
  /\ pc[c] = "revokeCas" => next[c] = Revoke(snap[c].family, RevokeReason(c))

\* How far back a record remembers: a live one all but the token in use, and
\* a revoked one that token too, which joined without a slice.
Kept(f, family) ==
  LET exchanged == Earlier(Len(issued[f]) - 1, MaxChainLength) IN
  IF Revoked(family) THEN exchanged + 1 ELSE exchanged

Newer(family) == IF Revoked(family) THEN 0 ELSE 1

\* usedHashes is that stretch of the history, in order.
Remembers(f) ==
  Present(f) =>
    LET family == store[f].family
        first  == Len(issued[f]) - Newer(family) - Kept(f, family)
    IN /\ Len(family.usedHashes) = Kept(f, family)
       /\ \A k \in 1 .. Kept(f, family) :
            family.usedHashes[k] = issued[f][first + k].token

\* However old what a call read is: a used hash in it was exchanged.
KnowsUsed(c) ==
  pc[c] = "decide" /\ ~ Revoked(snap[c].family) =>
    \A t \in Range(snap[c].family.usedHashes) : Superseded(req[c].family, t)

\* A call that suspects a replay has seen one, and only such a call ends a
\* session, or answers, on account of it.
Suspects(c) ==
  /\ pc[c] = "idle" => ~ sawReuse[c]
  /\ sawReuse[c] =>
       req[c].family \in Families /\ Superseded(req[c].family, req[c].token)
  /\ req[c].kind = "rotate" /\ pc[c] \in {"revokeRead", "revokeCas"} => sawReuse[c]
  /\ result[c] = "reused" => sawReuse[c]

\* Whoever is about to revoke a family was asked to, by id or with a token
\* of that family.
Mandated(c) ==
  /\ pc[c] \in {"revokeRead", "revokeCas"} => req[c].kind # "none"
  /\ pc[c] = "revokeCas" =>
       req[c].kind = "revokeFamily" \/ req[c].token \in IssuedTokens(req[c].family)

RecordInv ==
  /\ IInv
  /\ \A c \in Calls : Computed(c) /\ KnowsUsed(c) /\ Suspects(c) /\ Mandated(c)
  /\ \A f \in Families : Remembers(f)
  /\ SessionCeiling
-----------------------------------------------------------------------------
(* The rest says what a lost write costs: with it, contention is absorbed. *)

\* The calls that are over, but for the ones that issued: a call changes a
\* family that others have read only as its last act.
Settled == {d \in Calls : pc[d] = "done" /\ req[d].kind # "issue"}

\* Every attempt that a call has lost, or is bound to lose, was lost to a call
\* of its own that is over.
Spent(c) ==
  /\ pc[c] = "idle" => attempt[c] = 0
  /\ pc[c] \in Suspended => attempt[c] <= Cardinality(Settled)
  /\ pc[c] \in {"decide", "cas", "revokeCas"} /\ ~ Matches(c) =>
       attempt[c] + 1 <= Cardinality(Settled)

RetryInv ==
  /\ IInv
  /\ \A c \in Calls : Spent(c)
  /\ ContentionIsAbsorbed
=============================================================================
