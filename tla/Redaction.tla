------------------------------ MODULE Redaction ------------------------------
(***************************************************************************)
(* What a logger writes (logger/src/internal/core.ts, levels.ts,           *)
(* redact.ts and the two transports).  A value is a leaf or refers to an   *)
(* array or an object of a heap, which others may refer to, and which may  *)
(* be inside of itself.  A text carries the secret shapes that can be      *)
(* found in it, and FragmentsIn says which fragments a key contains once   *)
(* it is lower case and alphanumeric.                                      *)
(***************************************************************************)
EXTENDS Errors, Functions, TLC

CONSTANTS
  FragmentsIn   \* key -> the sensitive fragments in it

Ref(id) == [is |-> "ref", id |-> id]
Object(parts) == [is |-> "object", parts |-> parts]

\* All that is found in a heap.
ValuesOf(heap) ==
  {Ref(id) : id \in DOMAIN heap} \cup UNION {Range(heap[id].parts) : id \in DOMAIN heap}

Order == [trace |-> 10, debug |-> 20, info |-> 30, warn |-> 40, error |-> 50, fatal |-> 60]

IsEnabled(level, threshold) == Order[level] >= Order[threshold]

DefaultKeyFragments ==
  {"password", "passwd", "pwd", "secret", "token", "apikey", "authorization", "cookie", "ssn",
   "socialsecurity", "creditcard", "cardnumber", "cvv", "cvc", "privatekey"}

DefaultPatterns == {"jwt", "email", "stripe", "github", "aws", "google", "slack", "bearer"}

\* options: None, or what is added to the defaults.  Redaction switched off
\* is a logger with `redaction` None.
ResolveRedactionOptions(options) ==
  [keyFragments |-> DefaultKeyFragments \cup options.keyFragments,
   patterns |-> DefaultPatterns \cup options.patterns,
   maxDepth |-> IF options.maxDepth = None THEN 20 ELSE options.maxDepth]

IsSensitiveKey(key, fragments) == FragmentsIn[key] \cap fragments # {}

IsSecretShaped(text, patterns) == text.shapes \cap patterns # {}

Marker(name) == [is |-> "marker", name |-> name]

\* All but arrays and objects.  Numbers, booleans, dates and null are kept.
\* What an error, a regular expression or a bigint says is not looked at.
RedactLeaf(value, opts) ==
  CASE value.is = "text" /\ IsSecretShaped(value, opts.patterns) -> Marker("REDACTED")
    [] value.is = "error" -> Object([name |-> value.name, message |-> value.message])
    [] value.is \in {"bigint", "regexp"} -> value.text
    [] value.is \in {"map", "set", "function", "symbol"} -> Marker(value.is)
    [] OTHER -> value

\* Faulty: the items of an array are taken for leaves.
RedactPartsFlat(container, opts, inside) ==
  IF container.is = "array" THEN container
  ELSE Object([k \in DOMAIN container.parts |->
                 IF IsSensitiveKey(k, opts.keyFragments) THEN Marker("REDACTED")
                 ELSE inside[container.parts[k]]])

\* `inside` is what each of the parts becomes.
RedactParts(container, opts, inside) ==
  [is |-> container.is,
   parts |-> [k \in DOMAIN container.parts |->
                IF container.is = "object" /\ IsSensitiveKey(k, opts.keyFragments)
                THEN Marker("REDACTED") ELSE inside[container.parts[k]]]]

\* Given what every value becomes one level down, by its ancestors.
RedactOne(heap, value, opts, ancestors, below) ==
  IF value.is # "ref" THEN RedactLeaf(value, opts)
  ELSE IF value.id \in ancestors THEN Marker("Circular")
  ELSE RedactParts(heap[value.id], opts,
                   [v \in ValuesOf(heap) |-> below[v][ancestors \cup {value.id}]])

\* levels counts those that are left.
RedactValue(heap, value, opts) ==
  LET redact[levels \in 0 .. opts.maxDepth + 1] ==
        [v \in ValuesOf(heap) |->
           [ancestors \in SUBSET DOMAIN heap |->
              IF levels = 0 THEN Marker("MaxDepthExceeded")
              ELSE RedactOne(heap, v, opts, ancestors, redact[levels - 1])]]
  IN  redact[opts.maxDepth + 1][value][{}]

\* The fields are the heap's "root".
RedactFields(heap, redaction) ==
  IF redaction = None THEN heap["root"]
  ELSE RedactValue(heap, Ref("root"), ResolveRedactionOptions(redaction))

\* child(): the parent's options, with more base fields.
Child(logger, bindings) == [logger EXCEPT !.base = bindings @@ @]

\* { ...base, ...fields }, in a heap with the objects in the fields.
Merged(logger, logged) ==
  ("root" :> Object(logged.fields @@ logger.base)) @@ logged.heap

\* The entry handed to every transport, or None.
Log(logger, level, msg, logged, correlationId) ==
  IF ~IsEnabled(level, logger.level) THEN None
  ELSE [level |-> level, msg |-> msg, correlationId |-> correlationId,
        fields |-> RedactFields(Merged(logger, logged), logger.redaction)]

ConsoleMethod(level) == IF level = "fatal" THEN "error" ELSE level

WithCorrelationId(fields, id) ==
  Object([k \in DOMAIN fields.parts \cup {"correlationId"} |->
            IF k = "correlationId" THEN id ELSE fields.parts[k]])

\* The two transports: what reaches the console, and pino.
WriteToConsole(entry) ==
  [method |-> ConsoleMethod(entry.level), prefix |-> entry.correlationId, msg |-> entry.msg,
   fields |-> entry.fields]

WriteToPino(entry) ==
  [method |-> entry.level, msg |-> entry.msg,
   fields |-> IF entry.correlationId = None THEN entry.fields
              ELSE WithCorrelationId(entry.fields, entry.correlationId)]
=============================================================================
