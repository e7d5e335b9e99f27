--------------------------------- MODULE Jwt ---------------------------------
(***************************************************************************)
(* createJwtSigner and createJwtVerifier (auth-utils/src/jwt.ts,           *)
(* internal/jwt-algorithms.ts, jwt-header.ts, jwt-errors.ts).  Options are *)
(* judged once, when a signer or verifier is made; a token is what its     *)
(* three segments decode to.  jose is external.                            *)
(*                                                                         *)
(* A key is its shape and what the code reads off it.  `material` names    *)
(* what a signature depends on: the two halves of a pair have the same.    *)
(* The clock counts Ticks per second.  A definition marked "Faulty" is a   *)
(* plausible mistake in the next one.                                      *)
(***************************************************************************)
EXTENDS Errors, Functions

CONSTANTS
  Refused,  \* an AuthConfigurationError was thrown
  Ticks     \* bound: the clock's steps in a second

ASSUME TicksAssumption == Ticks \in Nat \ {0}

MaxClockToleranceSeconds == 300

Symmetric == {"HS256", "HS384", "HS512"}
Asymmetric ==
  {"RS256", "RS384", "RS512", "PS256", "PS384", "PS512", "ES256", "ES384", "ES512", "EdDSA"}

IsJwtAlgorithm(value) == value \in Symmetric \cup Asymmetric

AlgorithmFamily(algorithm) == IF algorithm \in Symmetric THEN "symmetric" ELSE "asymmetric"

MinimumSecretBytes == [HS256 |-> 32, HS384 |-> 48, HS512 |-> 64]

IsNonEmptyString(value) == value \in STRING /\ value # ""
IsPositiveInteger(value) == value \in Nat \ {0}

-----------------------------------------------------------------------------
(* Algorithms and keys.                                                    *)

ClassifyKey(key) ==
  CASE key.shape = "bytes" -> "secret"
    [] key.shape = "typed" -> IF key.type \in {"secret", "public", "private"} THEN key.type ELSE None
    [] key.shape = "jwk" ->
         IF key.kty = None THEN None
         ELSE IF key.kty = "oct" THEN "secret"
         ELSE IF key.d THEN "private" ELSE "public"
    [] OTHER -> None

ResolveAllowlist(algorithms) ==
  IF \/ algorithms = << >>
     \/ \E i \in DOMAIN algorithms : ~IsJwtAlgorithm(algorithms[i])
     \/ \E i, j \in DOMAIN algorithms : AlgorithmFamily(algorithms[i]) # AlgorithmFamily(algorithms[j])
  THEN Refused
  ELSE [algorithms |-> Range(algorithms), family |-> AlgorithmFamily(algorithms[1])]

\* The length of a secret, where it can be seen.  A JWK has four characters
\* for three bytes.
SecretBytes(key) ==
  IF key.shape = "jwk" THEN IF key.length = None THEN None ELSE (key.length * 3) \div 4
  ELSE key.length

LooksLikePem(key) == key.shape = "bytes" /\ key.pem

SecretIsStrong(key, algorithms) ==
  /\ ~LooksLikePem(key)
  /\ SecretBytes(key) # None =>
       \A a \in algorithms : SecretBytes(key) >= MinimumSecretBytes[a]

\* Faulty: any secret will do for an HMAC.
AnySecretMatches(key, allowlist, direction) ==
  LET role == ClassifyKey(key) IN
    IF allowlist.family = "symmetric" THEN role = "secret"
    ELSE role = IF direction = "sign" THEN "private" ELSE "public"

KeyMatchesAllowlist(key, allowlist, direction) ==
  LET role == ClassifyKey(key) IN
    IF allowlist.family = "symmetric"
    THEN role = "secret" /\ SecretIsStrong(key, allowlist.algorithms)
    ELSE role = IF direction = "sign" THEN "private" ELSE "public"

-----------------------------------------------------------------------------
(* Signing.                                                                *)

SignerOwnedClaims == {"sub", "iss", "aud", "exp", "iat", "jti", "nbf"}

AudienceIsUsable(audience) == audience # {} /\ \A a \in audience : IsNonEmptyString(a)

CreateJwtSigner(options) ==
  LET allowlist == ResolveAllowlist(<< options.algorithm >>) IN
    IF /\ allowlist # Refused
       /\ KeyMatchesAllowlist(options.key, allowlist, "sign")
       /\ IsNonEmptyString(options.issuer)
       /\ AudienceIsUsable(options.audience)
       /\ IsPositiveInteger(options.ttlSeconds)
       /\ IsNonEmptyString(options.typ)
    THEN options ELSE Refused

Seconds(time) == time \div Ticks

\* What jose's SignJWT makes of a header and a payload, with a key.
Jws(alg, typ, payload, material) ==
  [segments |-> 3, signed |-> TRUE, header |-> [alg |-> alg, typ |-> typ],
   payload |-> payload, by |-> [alg |-> alg, material |-> material]]

\* Faulty: what the caller says of a claim is kept.
SignMerged(signer, claims, time) ==
  LET issuedAt == Seconds(time)
      owned == [sub |-> claims.sub, iss |-> signer.issuer, aud |-> signer.audience,
                iat |-> issuedAt, exp |-> issuedAt + signer.ttlSeconds]
      payload == [c \in DOMAIN owned \cup DOMAIN claims |->
                    IF c \in DOMAIN claims THEN claims[c] ELSE owned[c]]
  IN  Jws(signer.algorithm, signer.typ, payload, signer.key.material)

\* `claims.sub` is not an empty string.
Sign(signer, claims, time) ==
  LET issuedAt == Seconds(time)
      owned ==
        [sub |-> claims.sub, iss |-> signer.issuer, aud |-> signer.audience,
         iat |-> issuedAt, exp |-> issuedAt + signer.ttlSeconds, jti |-> None]
      stamped == IF signer.includeJti THEN owned ELSE Restrict(owned, DOMAIN owned \ {"jti"})
      rest == Restrict(claims, DOMAIN claims \ SignerOwnedClaims)
      payload == [c \in DOMAIN stamped \cup DOMAIN rest |->
                    IF c \in DOMAIN stamped THEN stamped[c] ELSE rest[c]]
  IN  Jws(signer.algorithm, signer.typ, payload, signer.key.material)

-----------------------------------------------------------------------------
(* Verifying.                                                              *)

\* What jose throws, of which claim, and what a token is said to be refused for.
JoseErrors ==
  {"JWTExpired", "JWTClaimValidationFailed", "JWSSignatureVerificationFailed", "TypeError"}
ClaimNames == {"iss", "aud", "sub", "exp", "iat", "nbf", "other"}
JwtReasons ==
  {"malformed", "algorithm_not_allowed", "type_mismatch", "untrusted_header", "signature_invalid",
   "expired", "not_yet_valid", "too_old", "issuer_mismatch", "audience_mismatch",
   "claims_invalid", "verification_failed"}

CreateJwtVerifier(options) ==
  LET allowlist == ResolveAllowlist(options.algorithms) IN
    IF /\ allowlist # Refused
       /\ KeyMatchesAllowlist(options.key, allowlist, "verify")
       /\ AudienceIsUsable(options.issuers)
       /\ AudienceIsUsable(options.audience)
       /\ options.toleranceSeconds \in 0 .. MaxClockToleranceSeconds
       /\ options.maxAgeSeconds = None \/ IsPositiveInteger(options.maxAgeSeconds)
       /\ \A c \in options.requiredClaims : IsNonEmptyString(c)
    THEN [options EXCEPT
            !.requiredClaims =
               @ \cup {"sub"} \cup IF options.requireExpiration THEN {"exp"} ELSE {}]
    ELSE Refused

KeyResolutionHeaders == {"jwk", "jku", "x5u", "x5c", "x5t", "x5t#S256"}

Field(record, name) == IF name \in DOMAIN record THEN record[name] ELSE None

\* The reason a token is turned away before its signature is looked at, or None.
InspectProtectedHeader(token, verifier) ==
  LET header == token.header
      alg == Field(header, "alg")
  IN  IF token.segments # 3 THEN "malformed"
      ELSE IF ~token.signed THEN "algorithm_not_allowed"
      ELSE IF header = None THEN "malformed"
      ELSE IF ~IsJwtAlgorithm(alg) THEN "algorithm_not_allowed"
      ELSE IF alg \notin Range(verifier.algorithms) THEN "algorithm_not_allowed"
      ELSE IF DOMAIN header \cap (KeyResolutionHeaders \cup {"crit"}) # {} THEN "untrusted_header"
      ELSE IF verifier.expectedTyp # None /\ Field(header, "typ") # verifier.expectedTyp
           THEN "type_mismatch"
      ELSE None

\* What jose's jwtVerify throws, as an error and the claim it names, or None.
JwtVerify(token, verifier, time) ==
  LET claim(c) == Field(token.payload, c)
      missing ==
        (verifier.requiredClaims \cup {"iss", "aud"}
           \cup IF verifier.maxAgeSeconds = None THEN {} ELSE {"iat"}) \ DOMAIN token.payload
      now == Seconds(time)
      tolerance == verifier.toleranceSeconds
      age == now - claim("iat")
      failed(c) == [error |-> "JWTClaimValidationFailed", claim |-> c]
      expired(c) == [error |-> "JWTExpired", claim |-> c]
  IN  IF token.header.alg \notin verifier.key.serves THEN [error |-> "TypeError", claim |-> None]
      ELSE IF token.by # [alg |-> token.header.alg, material |-> verifier.key.material]
           THEN [error |-> "JWSSignatureVerificationFailed", claim |-> None]
      ELSE IF missing # {}
           THEN IF "iss" \in missing THEN failed("iss")
                ELSE IF "aud" \in missing THEN failed("aud")
                ELSE IF "iat" \in missing THEN failed("iat")
                ELSE IF "sub" \in missing THEN failed("sub")
                ELSE IF "exp" \in missing THEN failed("exp")
                ELSE failed("other")
      ELSE IF claim("iss") \notin verifier.issuers THEN failed("iss")
      ELSE IF claim("aud") \cap verifier.audience = {} THEN failed("aud")
      ELSE IF claim("nbf") # None /\ claim("nbf") > now + tolerance THEN failed("nbf")
      ELSE IF claim("exp") # None /\ claim("exp") <= now - tolerance THEN expired("exp")
      ELSE IF verifier.maxAgeSeconds # None /\ age - tolerance > verifier.maxAgeSeconds
           THEN expired("iat")
      ELSE IF verifier.maxAgeSeconds # None /\ age < 0 - tolerance THEN failed("iat")
      ELSE None

ClaimReason(claim) ==
  CASE claim = "nbf" -> "not_yet_valid"
    [] claim = "exp" -> "expired"
    [] claim = "iat" -> "too_old"
    [] claim = "iss" -> "issuer_mismatch"
    [] claim = "aud" -> "audience_mismatch"
    [] OTHER -> "claims_invalid"

\* Faulty: whatever has expired is reported as expired.
ExpiredIsExpired(cause) ==
  IF cause.error = "JWTExpired" THEN "expired"
  ELSE IF cause.error = "JWSSignatureVerificationFailed" THEN "signature_invalid"
  ELSE IF cause.error = "TypeError" THEN "algorithm_not_allowed"
  ELSE ClaimReason(cause.claim)

ToVerificationError(cause) ==
  CASE cause.error \in {"JWTExpired", "JWTClaimValidationFailed"} -> ClaimReason(cause.claim)
    [] cause.error = "JOSEAlgNotAllowed" -> "algorithm_not_allowed"
    [] cause.error = "JWSSignatureVerificationFailed" -> "signature_invalid"
    [] cause.error \in {"JWTInvalid", "JWSInvalid", "JOSENotSupported"} -> "malformed"
    [] cause.error = "TypeError" -> "algorithm_not_allowed"
    [] OTHER -> "verification_failed"

\* None if the token is accepted, and otherwise the reason it is not.
Verify(verifier, token, time) ==
  LET inspected == InspectProtectedHeader(token, verifier) IN
    IF inspected # None THEN inspected
    ELSE LET cause == JwtVerify(token, verifier, time) IN
      IF cause # None THEN ToVerificationError(cause)
      ELSE IF ~IsNonEmptyString(token.payload.sub) THEN "claims_invalid"
      ELSE None
=============================================================================
