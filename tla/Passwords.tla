------------------------------ MODULE Passwords ------------------------------
(***************************************************************************)
(* Password hashing (auth-utils/src/password.ts, internal/phc.ts).  A      *)
(* stored hash is what can be read off its PHC string: the identifier, the *)
(* version and the three cost parameters, each a number or None; and       *)
(* whether argon2 can use it, and of which password it is.  argon2 is      *)
(* external: `derives` says whether a derivation can run, and the work a   *)
(* call does is the parameters it derives with.                            *)
(***************************************************************************)
EXTENDS Errors, TLC

DefaultArgon2Params == [memoryCost |-> 19456, timeCost |-> 2, parallelism |-> 1]
MaxPasswordBytes == 1024
Argon2id == "argon2id"
Argon2Variants == {"argon2id", "argon2i", "argon2d"}

\* The identifiers that start with "argon2": the variants, and "argon2x",
\* which stands for every other one.
Argon2Ids == Argon2Variants \cup {"argon2x"}

Version13 == 19

\* None where the code throws an AuthConfigurationError.
ResolveParams(params) ==
  LET resolved == params @@ DefaultArgon2Params IN
    IF \A name \in DOMAIN resolved : resolved[name] \in Nat \ {0} THEN resolved ELSE None

IsHashable(password) == password.bytes \in 1 .. MaxPasswordBytes

\* The identifier and the cost parameters of a digest, or None.
ParsePhc(stored) ==
  IF stored = None \/ ~stored.phc THEN None
  ELSE [id |-> stored.id, version |-> stored.version, memoryCost |-> stored.memoryCost,
        timeCost |-> stored.timeCost, parallelism |-> stored.parallelism]

Digest(id, version, params, password) ==
  [phc |-> TRUE, id |-> id, version |-> version, memoryCost |-> params.memoryCost,
   timeCost |-> params.timeCost, parallelism |-> params.parallelism, usable |-> TRUE,
   of |-> password]

CostOf(stored) ==
  [memoryCost |-> stored.memoryCost, timeCost |-> stored.timeCost,
   parallelism |-> stored.parallelism]

BindingError == Foreign("Error", "out of memory", NoCause)

Answers(value, work) == [ok |-> TRUE, value |-> value, work |-> work]
Throws(error) == [ok |-> FALSE, error |-> error, work |-> None]

HashPassword(password, params, derives) ==
  IF ~IsHashable(password) \/ ResolveParams(params) = None
  THEN Throws(AuthConfigurationError("password"))
  ELSE IF ~derives THEN Throws(PasswordHashError(BindingError))
  ELSE Answers(Digest(Argon2id, Version13, ResolveParams(params), password.text),
               ResolveParams(params))

\* A derivation whose outcome is thrown away, with whatever it throws.
BurnEquivalentWork(params, derives) == IF derives THEN params ELSE None

\* Faulty: an unusable hash is answered at once.
VerifyAtOnce(stored, password, params, derives) ==
  LET parsed == ParsePhc(stored) IN
    IF ~IsHashable(password) THEN Throws(AuthConfigurationError("password"))
    ELSE IF parsed # None /\ parsed.id \in Argon2Variants /\ stored.usable /\ derives
    THEN Answers(stored.of = password.text, CostOf(stored))
    ELSE Answers(FALSE, None)

\* argon2.verify answers false at once for a variant it does not know, and
\* throws, which is answered false, for a digest that it cannot use.
VerifyPassword(stored, password, params, derives) ==
  LET parsed == ParsePhc(stored) IN
    IF ~IsHashable(password) THEN Throws(AuthConfigurationError("password"))
    ELSE IF parsed = None \/ parsed.id \notin Argon2Ids
    THEN IF ResolveParams(params) = None THEN Throws(AuthConfigurationError("params"))
         ELSE Answers(FALSE, BurnEquivalentWork(ResolveParams(params), derives))
    ELSE IF parsed.id \in Argon2Variants /\ stored.usable /\ derives
    THEN Answers(stored.of = password.text, CostOf(stored))
    ELSE Answers(FALSE, None)

VerifyPasswordDecoy(password, params, derives) ==
  IF ~IsHashable(password) \/ ResolveParams(params) = None
  THEN Throws(AuthConfigurationError("password"))
  ELSE Answers(FALSE, BurnEquivalentWork(ResolveParams(params), derives))

PasswordNeedsRehash(stored, params) ==
  LET target == ResolveParams(params)
      parsed == ParsePhc(stored)
      below(name) == parsed[name] = None \/ parsed[name] < target[name]
  IN  \/ parsed = None
      \/ parsed.id # Argon2id
      \/ parsed.version = None \/ parsed.version < Version13
      \/ \E name \in DOMAIN target : below(name)
=============================================================================
