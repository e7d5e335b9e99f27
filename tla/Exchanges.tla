------------------------------ MODULE Exchanges ------------------------------
(***************************************************************************)
(* What a service and those outside of it exchange: tokens, which it signs *)
(* and another verifies; answers, to a request and to what a handler       *)
(* throws; and entries, which it gives to the log.  Each is an action      *)
(* without a promise to wait for that others could come between: it takes  *)
(* any input of a set and keeps it, with the answer, in `call`.            *)
(***************************************************************************)
EXTENDS ApiKit, Jwt, Redaction

CONSTANTS
  Signers, Verifiers, ClaimSets, Moments,  \* bounds: of the tokens
  Failures, Requests, Configs, Options,    \* bounds: of the answers
  Loggers, Logged, CorrelationIds          \* bounds: of the log

VARIABLE call  \* the call that was made, with its answer, or None

\* The options a verifier is made of.
VerifierOptions ==
  {"algorithms", "key", "issuers", "audience", "toleranceSeconds", "maxAgeSeconds",
   "requiredClaims", "requireExpiration", "expectedTyp"}

ASSUME MomentsAssumption == Moments \subseteq Nat
ASSUME OptionsAssumption ==
  \A v \in Verifiers :
    DOMAIN v = VerifierOptions /\ v.algorithms \in Seq(Range(v.algorithms))
\* Two keys of one material are the same secret, or the halves of a pair.
ASSUME KeysAssumption ==
  /\ \A v \in Verifiers : v.key.material # "stranger's"
  /\ \A s \in Signers : CreateJwtSigner(s) # Refused =>
       \A v \in Verifiers : s.key.material = v.key.material =>
         \* Both serve the same algorithms.
         /\ s.algorithm \in Range(v.algorithms) => s.algorithm \in v.key.serves
         \* What is public of a pair, given as a secret, is its PEM file.
         /\ s.algorithm \in Asymmetric /\ ClassifyKey(v.key) = "secret" => LooksLikePem(v.key)
\* None is no number, and nothing that a token or a verdict on one may hold.
ASSUME NoneIsNothingElse ==
  /\ None \notin Nat \cup Symmetric \cup Asymmetric \cup JwtReasons
  /\ None \notin [alg : Symmetric \cup Asymmetric, typ : {s.typ : s \in Signers}]
  /\ None \notin [alg : Symmetric \cup Asymmetric \cup {"none"},
                  material : {v.key.material : v \in Verifiers}]
  /\ None \notin [error : JoseErrors, claim : ClaimNames \cup {None}]

\* What is in a chain of causes, by its type.
IsLink(link) ==
  CASE link.type = "app" ->
         /\ link = [type |-> "app", kind |-> link.kind, name |-> link.name,
                    message |-> link.message, code |-> link.code,
                    httpStatus |-> link.httpStatus, details |-> link.details]
         /\ link.kind \in DOMAIN ErrorConstructors
    [] link.type = "error" -> link = [type |-> "error", name |-> link.name, message |-> link.message]
    [] link.type = "primitive" -> link = [type |-> "primitive", value |-> link.value]
    [] OTHER -> FALSE

\* A status is nobody's to check: an error of 204 is answered as a success.
ASSUME FailuresAssumption ==
  \A error \in Failures :
    /\ error.links \in Seq(Range(error.links)) /\ error.links # << >>
    /\ \A i \in DOMAIN error.links : IsLink(error.links[i])
    /\ IsAppError(error) => error.links[1].httpStatus \in Nat \ 200 .. 299
ASSUME ConfigsAssumption == \A c \in Configs : c.target \in {"body", "query", "params"}

\* A text is secret where the one who logs it says so; it is known by its
\* shape, or by a key on the way to it.  What is handed on unread may be
\* anything: an error's name and message, and what is made a text.
UnreadOf(leaf) ==
  CASE leaf.is = "error" -> {leaf.name, leaf.message}
    [] leaf.is \in {"bigint", "regexp"} -> {leaf.text}
    [] OTHER -> {}

IsKnownLeaf(leaf) ==
  /\ leaf.is \in {"text", "number", "null", "date", "error", "bigint", "regexp", "map", "set",
                 "function", "symbol"}
  /\ leaf.is = "text" => ~leaf.secret \/ IsSecretShaped(leaf, DefaultPatterns)
  /\ \A text \in UnreadOf(leaf) : text.is = "text"

\* The parts of a container that none of the fragments hides.
BareParts(container, fragments) ==
  {container.parts[k] : k \in
     {k \in DOMAIN container.parts :
        ~(container.is = "object" /\ IsSensitiveKey(k, fragments))}}

\* `open` has the containers with a way to them by no key that is redacted.
InView(heap, open, fragments) ==
  /\ "root" \in open
  /\ \A id \in open : \A other \in DOMAIN heap :
       Ref(other) \in BareParts(heap[id], fragments) => other \in open

SecretsAreKnown(heap, open, fragments) ==
  /\ "root" \in open
  /\ \A id \in open :
       /\ heap[id].is \in {"array", "object"}
       /\ \A part \in BareParts(heap[id], fragments) :
            part \in {Ref(other) : other \in open} \/ IsKnownLeaf(part)

\* What every entry has.
Bindings == [service |-> [is |-> "number"]]

ASSUME LogAssumption ==
  /\ \A logger \in Loggers : DOMAIN logger = {"level", "redaction", "base"}
  /\ \A logger \in Loggers : logger.redaction # None =>
       /\ logger.redaction.maxDepth \in Nat \cup {None}
       /\ \A logged \in Logged :
            LET heap == Merged(Child(logger, Bindings), logged) IN
              \E open \in SUBSET DOMAIN heap :
                SecretsAreKnown(heap, open, DefaultKeyFragments)
  /\ \A id \in CorrelationIds \ {None} : id.is = "text" /\ ~id.secret


-----------------------------------------------------------------------------

\* What may be sent in the place of a token: the token itself; with no
\* signature; with other claims; signed by someone else; signed as an HMAC
\* with the bytes of the public key; with a key of its own, or no alg.
Forgeries == {"none", "unsigned", "edited", "stranger", "confused", "own key", "no alg"}

Presented(token, forgery) ==
  CASE forgery = "none" -> token
    [] forgery = "unsigned" -> [token EXCEPT !.signed = FALSE, !.header.alg = "none", !.by = None]
    [] forgery = "edited" -> [token EXCEPT !.payload.sub = "somebody", !.by = None]
    [] forgery = "stranger" -> [token EXCEPT !.by.material = "stranger's"]
    [] forgery = "confused" ->
         [token EXCEPT !.header.alg = "HS256",
                       !.by = [alg |-> "HS256",
                               material |-> IF token.by.alg \in Asymmetric THEN @.material
                                            ELSE "stranger's"]]
    [] forgery = "own key" ->
         [token EXCEPT !.header = [alg |-> @.alg, typ |-> @.typ, jwk |-> "stranger's"],
                       !.by.material = "stranger's"]
    [] forgery = "no alg" -> [token EXCEPT !.header = [typ |-> @.typ]]

\* Signed at one moment, and verified at another that may be before it: the
\* clocks are two machines'.  Claims without a subject are refused.
ChecksToken ==
  \E s \in Signers, v \in Verifiers, claims \in ClaimSets, forgery \in Forgeries,
     signedAt, checkedAt \in Moments :
    LET signer == CreateJwtSigner(s)
        verifier == CreateJwtVerifier(v)
        token == Sign(signer, claims, signedAt)
    IN  /\ signer # Refused /\ verifier # Refused /\ IsNonEmptyString(claims.sub)
        /\ call' = [op |-> "token", signer |-> signer, verifier |-> verifier, claims |-> claims,
                    genuine |-> Presented(token, forgery) = token,
                    signedAt |-> signedAt, checkedAt |-> checkedAt,
                    payload |-> token.payload,
                    answer |-> Verify(verifier, Presented(token, forgery), checkedAt)]

\* A handler throws, and the client at the other end gets what was answered.
AnswersFailure ==
  \E error \in Failures, options \in Options :
    LET response == BuildErrorResponse(error, options)
        normal == NormalizeError(error)
    IN  call' = [op |-> "failure", error |-> error, normal |-> normal, response |-> response,
                 revived |-> FromJSON(ToJSON(normal)), answer |-> ApiResult(response)]

\* A request is validated, and its handler echoes what it was given.
AnswersRequest ==
  \E framework \in {"express", "fastify", "hono"}, config \in Configs, request \in Requests,
     options \in Options :
    LET valid == ValidateRequest(framework, config, request)
        response == IF valid.ok THEN BuildSuccessResponse(valid.value, 200)
                    ELSE BuildErrorResponse(valid.error, options)
    IN  call' = [op |-> "request", framework |-> framework, config |-> config, request |-> request,
                 envelope |-> EnvelopeFromResult(valid, options), response |-> response,
                 answer |-> ApiResult(response)]

WritesLog ==
  \E logger \in Loggers, logged \in Logged, level \in {"debug", "error"},
     correlationId \in CorrelationIds :
    LET entry == Log(Child(logger, Bindings), level, "msg", logged, correlationId)
    IN  call' = [op |-> "log", logger |-> logger,
                 heap |-> Merged(Child(logger, Bindings), logged),
                 answer |-> IF entry = None THEN << >>
                            ELSE << WriteToConsole(entry), WriteToPino(entry) >>]

ExchangesNext == ChecksToken \/ AnswersFailure \/ AnswersRequest \/ WritesLog

ExchangesSpec == call = None /\ [][ExchangesNext]_call

-----------------------------------------------------------------------------
(* What these calls promise.                                               *)

Is(op) == call # None /\ call.op = op

-----------------------------------------------------------------------------

(* jwt.ts:255 and 351: what the signer signed is believed by the verifiers  *)
(* that hold its key, its algorithm, its issuer and one of its audiences,   *)
(* for the time it was signed for and no other, whatever the caller put in  *)
(* the claims; and nothing else is believed.  A token that is called        *)
(* expired is the signer's, and is.                                         *)
Fits(v, s) ==
  /\ s.algorithm \in {v.algorithms[i] : i \in DOMAIN v.algorithms}
  /\ s.key.material = v.key.material
  /\ s.issuer \in v.issuers /\ s.audience \cap v.audience # {}
  /\ v.expectedTyp \in {None, s.typ}
  /\ v.requiredClaims \subseteq DOMAIN call.payload

InItsTime(v, s) ==
  LET age == Seconds(call.checkedAt) - Seconds(call.signedAt) IN
    /\ age < s.ttlSeconds + v.toleranceSeconds
    /\ v.maxAgeSeconds # None =>
         age \in 0 - v.toleranceSeconds .. v.maxAgeSeconds + v.toleranceSeconds

TokensAreBelieved ==
  Is("token") =>
    /\ call.answer = None <=>
         call.genuine /\ Fits(call.verifier, call.signer)
           /\ InItsTime(call.verifier, call.signer)
    /\ call.payload.sub = call.claims.sub
    /\ call.answer = "expired" =>
         call.genuine
           /\ Seconds(call.checkedAt) >=
                Seconds(call.signedAt) + call.signer.ttlSeconds + call.verifier.toleranceSeconds

-----------------------------------------------------------------------------

(* errors.ts:330 and 357, normalize-error.ts:24, client.ts of http-client:   *)
(* an AppError that is sent as JSON and revived is what it was, to the depth *)
(* that is sent, and so is the rest of the chain but for its types; what is  *)
(* no AppError is answered without a word of what it says; and the client    *)
(* is told a failure exactly where the service had one.                      *)
ErrorsSurviveTheWire ==
  /\ Is("failure") =>
       LET links == call.normal.links
           revived == call.revived.value.links
           detail == call.response.body.error.detail
       IN  /\ call.revived.ok
           /\ Len(revived) = IF Len(links) > MaxCauseDepth THEN MaxCauseDepth + 1 ELSE Len(links)
           /\ \A i \in DOMAIN revived :
                revived[i] = IF links[i].type = "primitive"
                             THEN [type |-> "error", name |-> "NonError", message |-> links[i].value]
                             ELSE links[i]
           /\ detail = IF IsAppError(call.error) THEN call.error.links[1].message ELSE "unexpected"
           /\ ~call.answer.ok /\ call.answer.status = links[1].httpStatus
  /\ Is("request") =>
       LET \* Hono does not read a body it is not asked for.
           read == call.framework # "hono" \/ call.config.target = "body"
           valid ==
             /\ ~(read /\ call.request.body = Malformed)
             /\ call.request[call.config.target] \in call.config.schema
       IN  /\ call.answer.ok <=> valid
           /\ call.envelope = call.response.body
           /\ valid => call.answer.value.data = call.request[call.config.target]

-----------------------------------------------------------------------------

PartsOf(value) == IF value.is \in {"array", "object"} THEN Range(value.parts) ELSE {}

\* The texts in a value, down to `depth` levels below it.
TextsIn(value, depth) ==
  LET seen[n \in 0 .. depth] ==
        IF n = 0 THEN {value} ELSE UNION {{v} \cup PartsOf(v) : v \in seen[n - 1]}
  IN  {v \in seen[depth] : v.is = "text"}

(* redact.ts:84: a text with the shape of a secret, or under a key that     *)
(* names one, reaches no transport, however deep it is and whatever the     *)
(* objects around it have in common, if redaction is not switched off.      *)
(* Left out is what the code hands on unread, where a way to it is open:    *)
(* the name and the message of an error (redact.ts:103), and what a bigint  *)
(* or a regular expression says (redact.ts:93 and 102).  redact.ts:28 would *)
(* have every string leaf checked.                                          *)
LogsHoldNoSecret ==
  Is("log") /\ call.logger.redaction # None =>
    LET opts == ResolveRedactionOptions(call.logger.redaction)
        unread(open) == UNION {UnreadOf(part) : part \in
          UNION {BareParts(call.heap[id], opts.keyFragments) : id \in open}}
    IN  \A i \in DOMAIN call.answer :
          \* What an error becomes is one level deeper than the error.
          \A text \in TextsIn(call.answer[i].fields, opts.maxDepth + 1) :
            text.secret =>
              \A open \in SUBSET DOMAIN call.heap :
                InView(call.heap, open, opts.keyFragments) => text \in unread(open)
=============================================================================
