------------------------------ MODULE EnvConfig ------------------------------
(***************************************************************************)
(* bootstrap/src/env.ts: a service reads its environment once, as its spec *)
(* says.  A raw value is a text and what the parsers can read in it: a     *)
(* decimal number in halves, a word in lower case, the scheme of a URL;    *)
(* None where it is not one.                                               *)
(* A definition marked "Faulty" is a plausible mistake in the next one.    *)
(***************************************************************************)
EXTENDS Errors

\* What a parser answers where it throws.
Invalid == None

Unset == [isOptional |-> FALSE, hasDefault |-> FALSE, defaultValue |-> None]

MakeVar(parser, flags) ==
  [parser |-> parser, isOptional |-> flags.isOptional, hasDefault |-> flags.hasDefault,
   defaultValue |-> flags.defaultValue]

Required(parser) == MakeVar(parser, Unset)
Optional(var) == [var EXCEPT !.isOptional = TRUE]
Default(var, value) == [var EXCEPT !.hasDefault = TRUE, !.defaultValue = value]

TrueWords == {"true", "1", "yes", "on"}
FalseWords == {"false", "0", "no", "off"}

\* In halves, as `raw.halves` is; no bound is None.
ParseNumber(raw, options) ==
  IF \/ raw.halves = None
     \/ options.integer /\ raw.halves % 2 # 0
     \/ options.min # None /\ raw.halves < options.min
     \/ options.max # None /\ raw.halves > options.max
  THEN Invalid ELSE raw.halves

ParseString(raw) == raw.text
ParsePort(raw) == ParseNumber(raw, [integer |-> TRUE, min |-> 0, max |-> 2 * 65535])

ParseBoolean(raw) ==
  CASE raw.word \in TrueWords -> TRUE
    [] raw.word \in FalseWords -> FALSE
    [] OTHER -> Invalid

ParseUrl(raw, protocols) ==
  IF raw.scheme = None \/ (protocols # None /\ raw.scheme \notin protocols) THEN Invalid
  ELSE raw.text

ParseEnum(raw, values) == IF raw.text \in values THEN raw.text ELSE Invalid

Parse(parser, raw) ==
  CASE parser.is = "string" -> ParseString(raw)
    [] parser.is = "number" -> ParseNumber(raw, parser.options)
    [] parser.is = "port" -> ParsePort(raw)
    [] parser.is = "boolean" -> ParseBoolean(raw)
    [] parser.is = "url" -> ParseUrl(raw, parser.protocols)
    [] parser.is = "enum" -> ParseEnum(raw, parser.values)

\* What is not in the source is not set; what is empty, neither.
ReadRaw(source, variable) ==
  IF variable \in DOMAIN source /\ source[variable].text # "" THEN source[variable] ELSE None

Issue(variable, problem) == [variable |-> variable, problem |-> problem]

\* Faulty: a variable that has a default is never invalid.
EvaluateLeniently(spec, source) ==
  LET raw(v) == ReadRaw(source, v)
      parsed(v) == IF raw(v) = None THEN Invalid ELSE Parse(spec[v].parser, raw(v))
      defaulted == {v \in DOMAIN spec : parsed(v) = Invalid /\ spec[v].hasDefault}
  IN  [defaulted |-> defaulted,
       issues |->
         {Issue(v, IF raw(v) = None THEN "missing" ELSE "invalid") :
            v \in {w \in DOMAIN spec \ defaulted :
                     parsed(w) = Invalid /\ ~(raw(w) = None /\ spec[w].isOptional)}},
       entries |->
         [v \in DOMAIN spec |->
            IF v \in defaulted THEN spec[v].defaultValue
            ELSE IF raw(v) = None THEN None ELSE parsed(v)]]

Evaluate(spec, source) ==
  LET raw(v) == ReadRaw(source, v)
      unset == {v \in DOMAIN spec : raw(v) = None}
      defaulted == {v \in unset : spec[v].hasDefault}
      missing == {v \in unset \ defaulted : ~spec[v].isOptional}
      invalid == {v \in DOMAIN spec \ unset : Parse(spec[v].parser, raw(v)) = Invalid}
  IN  [defaulted |-> defaulted,
       issues |-> {Issue(v, "missing") : v \in missing} \cup {Issue(v, "invalid") : v \in invalid},
       entries |->
         [v \in DOMAIN spec |->
            IF v \in defaulted THEN spec[v].defaultValue
            ELSE IF v \in unset THEN None
            ELSE Parse(spec[v].parser, raw(v))]]

LoadEnv(spec, source) ==
  LET evaluation == Evaluate(spec, source) IN
    IF evaluation.issues # {} THEN [ok |-> FALSE, error |-> EnvValidationError(evaluation.issues)]
    ELSE [ok |-> TRUE, value |-> evaluation.entries]

\* What is logged, and whether the process goes on: `exits` says whether
\* exit() does not return.
RequireEnv(spec, source, exits) ==
  LET evaluation == Evaluate(spec, source) IN
    IF evaluation.issues # {}
    THEN [logged |-> [level |-> "error", issues |-> evaluation.issues],
          exitCode |-> 1,
          outcome |-> IF exits THEN "exited" ELSE "threw",
          error |-> EnvValidationError(evaluation.issues)]
    ELSE [logged |-> [level |-> "info", variables |-> DOMAIN spec,
                      defaulted |-> evaluation.defaulted],
          exitCode |-> None,
          outcome |-> "returned",
          value |-> evaluation.entries]
=============================================================================
