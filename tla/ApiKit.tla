-------------------------------- MODULE ApiKit --------------------------------
(***************************************************************************)
(* How an HTTP service answers (api-kit/src): request validation, what a   *)
(* thrown value becomes, and what http-client makes of the answer at the   *)
(* other end (http-client/src/internal/errors.ts, body.ts).                *)
(***************************************************************************)
EXTENDS Errors

\* What the code names, and anything else.
StatusText(status) ==
  CASE status = 400 -> "Bad Request"
    [] status = 401 -> "Unauthorized"
    [] status = 403 -> "Forbidden"
    [] status = 404 -> "Not Found"
    [] status = 409 -> "Conflict"
    [] status = 429 -> "Too Many Requests"
    [] status = 500 -> "Internal Server Error"
    [] status = 503 -> "Service Unavailable"
    [] OTHER -> "Error"

\* Faulty: the message of any error is shown.
NormalizeOpenly(error) ==
  IF IsAppError(error) THEN error
  ELSE AppError("AppError", "AppError", SerializeLink(error.links[1]).message, "INTERNAL_ERROR",
                500, None, error)

\* Whatever is no AppError becomes one with a message of its own.
NormalizeError(error) ==
  IF IsAppError(error) THEN error
  ELSE AppError("AppError", "AppError", "unexpected", "INTERNAL_ERROR", 500, None, error)

BuildType(code, typeBaseUrl) == IF typeBaseUrl = None THEN "about:blank" ELSE << typeBaseUrl, code >>

ToProblemDetails(error, options) ==
  LET top == NormalizeError(error).links[1] IN
    [type |-> BuildType(top.code, options.typeBaseUrl), title |-> StatusText(top.httpStatus),
     status |-> top.httpStatus, detail |-> top.message, code |-> top.code,
     instance |-> options.instance, details |-> top.details]

ToSuccessEnvelope(data) == [success |-> TRUE, data |-> data]
ToErrorEnvelope(error, options) == [success |-> FALSE, error |-> ToProblemDetails(error, options)]

EnvelopeFromResult(result, options) ==
  IF result.ok THEN ToSuccessEnvelope(result.value) ELSE ToErrorEnvelope(result.error, options)

BuildSuccessResponse(data, status) ==
  [status |-> status, body |-> ToSuccessEnvelope(data), contentType |-> "application/json"]

BuildErrorResponse(error, options) ==
  LET envelope == ToErrorEnvelope(error, options) IN
    [status |-> envelope.error.status, body |-> envelope,
     contentType |-> "application/problem+json"]

-----------------------------------------------------------------------------
(* Validating a request.  A schema is the set of values it lets through.   *)

Ok(value) == [ok |-> TRUE, value |-> value]
Err(error) == [ok |-> FALSE, error |-> error]

RunValidation(config, data) ==
  IF data \in config.schema THEN Ok(data)
  ELSE Err(ValidationError("Request validation failed", "REQUEST_VALIDATION_FAILED",
                           config.target, Foreign("SchemaError", data, NoCause)))

\* Express and Fastify parse a body before any handler of theirs runs, and
\* throw what they throw; Hono parses it when it is asked for.
Malformed == "malformed"
BodyParserError == Foreign("SyntaxError", Malformed, NoCause)

ExtractHono(request, target) ==
  IF target = "body" /\ request.body = Malformed
  THEN Err(ValidationError("Request body is not valid JSON", "INVALID_JSON_BODY", "body",
                           BodyParserError))
  ELSE Ok(request[target])

ExtractTarget(request, target) ==
  IF request.body = Malformed THEN Err(BodyParserError) ELSE Ok(request[target])

\* An error that is returned here is thrown, or given to next().
ValidateRequest(framework, config, request) ==
  LET extracted ==
        IF framework = "hono" THEN ExtractHono(request, config.target)
        ELSE ExtractTarget(request, config.target)
  IN  IF extracted.ok THEN RunValidation(config, extracted.value) ELSE extracted

-----------------------------------------------------------------------------
(* The answer, received by an ApiClient.                                   *)

\* Only application/json is parsed; an answer with no body is undefined.
ParseResponseBody(response) ==
  IF response.status \in {204, 205} THEN None
  ELSE IF response.contentType = "application/json" THEN response.body
  ELSE [text |-> response.body]

StatusKind(status) ==
  CASE status = 400 -> "ValidationError"
    [] status = 401 -> "UnauthorizedError"
    [] status = 403 -> "ForbiddenError"
    [] status = 404 -> "NotFoundError"
    [] status = 409 -> "ConflictError"
    [] OTHER -> "AppError"

\* The body's own `message` and `code`, where it has them at its top.
ToHttpError(response, body) ==
  LET kind == StatusKind(response.status)
      own(name) == IF name \in DOMAIN body THEN body[name] ELSE None
      code == own("code")
  IN  AppError(kind, kind, IF own("message") = None THEN "request failed" ELSE own("message"),
               code, IF kind = "AppError" THEN response.status ELSE None, body, NoCause)

\* What a call of the client resolves with, no schema given.
ApiResult(response) ==
  LET body == ParseResponseBody(response) IN
    IF response.status \in 200 .. 299
    THEN [ok |-> TRUE, value |-> body, status |-> response.status]
    ELSE [ok |-> FALSE, error |-> ToHttpError(response, body), status |-> response.status,
          kind |-> "http"]
=============================================================================
