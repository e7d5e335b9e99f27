---------------------------- MODULE TokenFamily ----------------------------
(***************************************************************************)
(* The rotation state machine of one refresh-token family, as the pure     *)
(* functions of auth-utils/src/internal/refresh-state.ts.  A token is      *)
(* identified with its SHA-256 digest (equal digests, equal tokens), so    *)
(* hashesMatch is equality.  Of a family record only what decides a        *)
(* rotation is kept: id and subject never change and are left out, and     *)
(* revokedAt is merged with revokedReason (both are undefined, or neither).*)
(*                                                                         *)
(* A definition marked "Faulty" is not the code: it is a plausible mistake *)
(* in the definition that follows, which some property must catch.         *)
(***************************************************************************)
EXTENDS Naturals, Sequences, Functions

CONSTANTS
  Tokens,         \* digests of the secrets mintToken can produce
  None,           \* the code's undefined
  Ttl,            \* ttlMs: how long one token is accepted
  MaxChainLength  \* how many rotated-away digests a family retains

ASSUME NoneAssumption == None \notin Tokens
ASSUME TtlAssumption == Ttl \in Nat \ {0}
ASSUME MaxChainAssumption == MaxChainLength \in Nat \ {0}

RevocationReason == {"reuse_detected", "revoked"}

Family ==
  [ createdAt         : Nat,
    absoluteExpiresAt : Nat,
    current           : Tokens \cup {None},
    expiresAt         : Nat,
    usedHashes        : Seq(Tokens),
    revokedReason     : RevocationReason \cup {"none"} ]

Revoked(family) == family.revokedReason # "none"

\* Math.min of two deadlines.
Earlier(a, b) == IF a <= b THEN a ELSE b

\* Faulty: the slice keeps the other end.
OldestFirst(hashes) ==
  IF Len(hashes) > MaxChainLength THEN SubSeq(hashes, 1, MaxChainLength) ELSE hashes

\* usedHashes.slice(length - maxChainLength), when it is longer than that.
Newest(hashes) ==
  IF Len(hashes) > MaxChainLength
    THEN SubSeq(hashes, Len(hashes) - MaxChainLength + 1, Len(hashes))
    ELSE hashes

\* The record store.create is given for a first token.
NewFamily(token, now, absoluteTtl) ==
  [ createdAt         |-> now,
    absoluteExpiresAt |-> now + absoluteTtl,
    current           |-> token,
    expiresAt         |-> Earlier(now + Ttl, now + absoluteTtl),
    usedHashes        |-> << >>,
    revokedReason     |-> "none" ]

\* revoke: the live token joins the used ones; a revoked family is returned
\* as it is, so the first reason stands.
Revoke(family, reason) ==
  IF Revoked(family) THEN family
  ELSE [ family EXCEPT
           !.current       = None,
           !.usedHashes    = IF family.current = None THEN @
                             ELSE Append(@, family.current),
           !.revokedReason = reason ]

\* familyIssued: the possession proof behind logout.
FamilyIssued(family, token) ==
  token = family.current \/ token \in Range(family.usedHashes)

\* Faulty: the deadline slides past the family's own.
RotateUncapped(family, minted, now) ==
  [ family EXCEPT
      !.current    = minted,
      !.expiresAt  = now + Ttl,
      !.usedHashes = Newest(Append(@, family.current)) ]

\* decideRotation, step 6: one object carries the retirement of the
\* presented token and the issue of its successor.
Rotate(family, minted, now) ==
  [ family EXCEPT
      !.current    = minted,
      !.expiresAt  = Earlier(now + Ttl, family.absoluteExpiresAt),
      !.usedHashes = Newest(Append(@, family.current)) ]

\* Faulty: whatever is not the current token counts as a replay.
VerdictByIdentity(family, token, now) ==
  IF Revoked(family) THEN "revoked"
  ELSE IF token # family.current THEN "reuse"
  ELSE IF now >= family.expiresAt THEN "expired"
  ELSE "rotated"

\* decideRotation: which check of the ordered list answers.  The order is
\* the code's: revocation, reuse, family expiry, identity, token expiry.
Verdict(family, token, now) ==
  IF Revoked(family) THEN "revoked"
  ELSE IF token \in Range(family.usedHashes) THEN "reuse"
  ELSE IF now >= family.absoluteExpiresAt THEN "family_expired"
  ELSE IF token # family.current THEN "unknown_token"
  ELSE IF now >= family.expiresAt THEN "expired"
  ELSE "rotated"
=============================================================================
