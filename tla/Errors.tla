-------------------------------- MODULE Errors --------------------------------
(***************************************************************************)
(* The errors of core (core/src/errors.ts) and the ones auth-utils and     *)
(* bootstrap build from them.  A thrown value is the chain of its causes,  *)
(* outermost first: `links` one by one, and whether the last one's cause   *)
(* is an earlier one again.  Messages are names.                           *)
(***************************************************************************)
EXTENDS Integers, Sequences, FiniteSetsExt

CONSTANTS
  None,
  MaxCauseDepth  \* 16 in the code; smaller in an instance

ASSUME MaxCauseDepthAssumption == MaxCauseDepth \in Nat

\* The code and status that each class gives an error if its caller does not.
AppErrorDefaults == [code |-> "INTERNAL_ERROR", httpStatus |-> 500]
ValidationDefaults == [code |-> "VALIDATION_ERROR", httpStatus |-> 400]
NotFoundDefaults == [code |-> "NOT_FOUND", httpStatus |-> 404]
ForbiddenDefaults == [code |-> "FORBIDDEN", httpStatus |-> 403]
UnauthorizedDefaults == [code |-> "UNAUTHORIZED", httpStatus |-> 401]
ConflictDefaults == [code |-> "CONFLICT", httpStatus |-> 409]
NetworkDefaults == [code |-> "NETWORK_ERROR", httpStatus |-> 503]

ErrorConstructors ==
  [AppError |-> AppErrorDefaults, ValidationError |-> ValidationDefaults,
   NotFoundError |-> NotFoundDefaults, ForbiddenError |-> ForbiddenDefaults,
   UnauthorizedError |-> UnauthorizedDefaults, ConflictError |-> ConflictDefaults,
   NetworkError |-> NetworkDefaults]

NoCause == [links |-> << >>, again |-> FALSE]

Because(link, cause) == [links |-> << link >> \o cause.links, again |-> cause.again]

\* An Error, or a value that is none, that some library throws.
Foreign(name, message, cause) ==
  Because([type |-> "error", name |-> name, message |-> message], cause)
Thrown(value) == [links |-> << [type |-> "primitive", value |-> value] >>, again |-> FALSE]

AppError(kind, name, message, code, httpStatus, details, cause) ==
  Because(
    [type |-> "app", kind |-> kind, name |-> name, message |-> message,
     code |-> IF code = None THEN ErrorConstructors[kind].code ELSE code,
     httpStatus |-> IF httpStatus = None THEN ErrorConstructors[kind].httpStatus ELSE httpStatus,
     details |-> details],
    cause)

ValidationError(message, code, details, cause) ==
  AppError("ValidationError", "ValidationError", message, code, None, details, cause)

IsAppError(error) == error.links[1].type = "app"

-----------------------------------------------------------------------------
(* The errors of auth-utils and bootstrap.                                 *)

JwtVerificationError(reason) ==
  AppError("UnauthorizedError", "JwtVerificationError", reason, reason, None, reason, NoCause)

AuthConfigurationError(message) ==
  AppError("AppError", "AuthConfigurationError", message, "AUTH_CONFIGURATION_ERROR", 500,
           None, NoCause)

PasswordHashError(cause) ==
  AppError("AppError", "PasswordHashError", "hashing failed", "PASSWORD_HASH_ERROR", 500,
           None, cause)

RateLimitStoreError(cause) ==
  AppError("AppError", "RateLimitStoreError", "attempt store failed", "RATE_LIMIT_STORE_ERROR",
           503, None, cause)

EnvValidationError(issues) ==
  AppError("ValidationError", "EnvValidationError", "invalid environment",
           "ENV_VALIDATION_ERROR", 500, issues, NoCause)

-----------------------------------------------------------------------------
(* toJSON and fromJSON.  What is on the wire is a chain of links without   *)
(* types: an object, and `cause` in it.                                    *)

SerializeLink(link) ==
  CASE link.type = "primitive" -> [name |-> "NonError", message |-> link.value]
    [] link.type = "error" -> [name |-> link.name, message |-> link.message]
    [] link.type = "app" ->
         [name |-> link.name, message |-> link.message, kind |-> link.kind, code |-> link.code,
          httpStatus |-> link.httpStatus, details |-> link.details]

\* Faulty: one link too few.
ToJSONShort(error) ==
  [i \in 1 .. Min({Len(error.links), MaxCauseDepth}) |-> SerializeLink(error.links[i])]

\* A cause that was met before ends the chain, as does its depth.
ToJSON(error) ==
  [i \in 1 .. Min({Len(error.links), MaxCauseDepth + 1}) |-> SerializeLink(error.links[i])]

ReviveLink(json) ==
  IF {"code", "httpStatus"} \subseteq DOMAIN json
  THEN LET kind == IF "kind" \in DOMAIN json THEN json.kind ELSE None IN
    [type |-> "app", name |-> json.name, message |-> json.message,
     kind |-> IF kind \in DOMAIN ErrorConstructors THEN kind ELSE "AppError",
     code |-> json.code, httpStatus |-> json.httpStatus, details |-> json.details]
  ELSE [type |-> "error", name |-> json.name, message |-> json.message]

FromJSON(json) ==
  IF json = << >> \/ ~({"name", "message", "code", "httpStatus"} \subseteq DOMAIN json[1])
  THEN [ok |-> FALSE,
        error |-> ValidationError("not a serialized AppError", "INVALID_SERIALIZED_ERROR",
                                  None, NoCause)]
  ELSE [ok |-> TRUE,
        value |-> [links |-> [i \in 1 .. Min({Len(json), MaxCauseDepth + 1}) |->
                                ReviveLink(json[i])],
                   again |-> FALSE]]
=============================================================================
