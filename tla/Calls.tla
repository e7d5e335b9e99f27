-------------------------------- MODULE Calls --------------------------------
(***************************************************************************)
(* What else a service built from these packages does in one go: it reads  *)
(* its environment and its policy, and sends the policy to a browser, which *)
(* reads it again.                                                         *)
(***************************************************************************)
EXTENDS Exchanges, EnvConfig, PolicyValidation, SequencesExt

CONSTANTS
  Specs, Sources,  \* bounds: of the environment
  Documents        \* bound: what is given as a policy

ASSUME SourcesAssumption ==
  \A source \in Sources : \A v \in DOMAIN source : source[v] # None
ASSUME DocumentsAssumption == Documents \subseteq Json

-----------------------------------------------------------------------------
(* JSON.parse(JSON.stringify(policy)).                                     *)

\* A condition of one level more is deeper by a record and a list.
Depth == 2 * MaxConditionDepth + 1

\* Lists and records are copied, and NaN, which JSON has not, becomes null.
CopyOf(v, copies) ==
  CASE v = NaN -> Null
    [] v.t = "list" -> ListOf([i \in DOMAIN v.items |-> copies[v.items[i]]])
    [] v.t = "record" -> Record([key \in DOMAIN v.fields |-> copies[v.fields[key]]])
    [] OTHER -> v

Copied(v) ==
  LET copy[levels \in 0 .. Depth] ==
        [w \in Json |-> IF levels = 0 THEN w ELSE CopyOf(w, copy[levels - 1])]
  IN  copy[Depth][v]

NamesOnTheWire(names) ==
  LET listed == SetToSeq(names) IN ListOf([i \in DOMAIN listed |-> Text(listed[i])])

RuleOnTheWire(rule) ==
  Record([key \in DOMAIN rule |->
    CASE key \in {"actions", "subjects"} ->
           IF rule[key] = Everything THEN Text("*") ELSE NamesOnTheWire(rule[key])
      [] key = "roles" -> NamesOnTheWire(rule[key])
      [] key = "when" -> Copied(rule[key])
      [] OTHER -> rule[key]])

OnTheWire(policy) ==
  Record([actions |-> NamesOnTheWire(policy.actions), subjects |-> NamesOnTheWire(policy.subjects),
          roles |-> Record([r \in DOMAIN policy.roles |-> NamesOnTheWire(policy.roles[r])]),
          rules |-> ListOf([i \in DOMAIN policy.rules |-> RuleOnTheWire(policy.rules[i])])])

-----------------------------------------------------------------------------

LoadsEnvironment ==
  \E spec \in Specs, source \in Sources, exits \in BOOLEAN :
    call' = [op |-> "environment", spec |-> spec, source |-> source,
             loaded |-> LoadEnv(spec, source), answer |-> RequireEnv(spec, source, exits)]

\* `again` is what the browser makes of it.
ReadsPolicy ==
  \E document \in Documents :
    LET answer == DefinePolicy(document) IN
      call' = [op |-> "policy", document |-> document, answer |-> answer,
               again |-> IF answer.outcome = "returned"
                         THEN ParsePolicy(OnTheWire(answer.value.policy)) ELSE None]

CallNext == LoadsEnvironment \/ ReadsPolicy \/ ExchangesNext

CallsSpec == call = None /\ [][CallNext]_call

-----------------------------------------------------------------------------
(* What these calls promise.                                               *)

\* Outside of conditions each thing that is wrong is reported at its place;
\* each condition that is broken is reported once or more, at it or at one of
\* its fields; and nothing else is.
IsReportOf(issues, misplaced, broken) ==
  /\ misplaced \subseteq issues
  /\ \A node \in broken : At(node) \cap issues # {}
  /\ issues \subseteq misplaced \cup UNION {At(node) : node \in broken}

\* A policy is what its types say, and nothing else is.
PolicyIsJudged ==
  /\ call.answer.outcome = "returned" <=> IsPolicyDefinition(call.document)
  /\ call.answer.outcome = "threw" =>
       IsReportOf(call.answer.error.links[1].details,
                  Misplaced(call.document), BrokenConditions(call.document))

HoldsNaN(v) ==
  LET holds[levels \in 0 .. Depth] ==
        [w \in Json |-> w = NaN \/ (levels # 0 /\ \E part \in Inside(w) : holds[levels - 1][part])]
  IN  holds[Depth][v]

\* NaN may be in the list of an `in`, and does not survive JSON.
IsPortable(rule) == "when" \in DOMAIN rule => ~HoldsNaN(rule["when"])

\* What is returned is what the engine counts on; and so it is in a browser.
PolicyIsUsable ==
  call.answer.outcome = "returned" =>
    LET policy == call.answer.value.policy IN
      /\ IsPolicy(policy)
      /\ (\A i \in DOMAIN policy.rules : IsPortable(policy.rules[i])) =>
           call.again = [ok |-> TRUE, value |-> call.answer.value]

\* Each variable has a value that its parser reads, or may do without one.
EnvironmentIsJudged ==
  LET isSet(v) == v \in DOMAIN call.source /\ call.source[v].text # ""
      read(v) == Parse(call.spec[v].parser, call.source[v])
      fallback(v) == IF call.spec[v].hasDefault THEN call.spec[v].defaultValue ELSE None
      wrong(v) == IF isSet(v) THEN read(v) = Invalid
                  ELSE ~call.spec[v].hasDefault /\ ~call.spec[v].isOptional
      defects == {v \in DOMAIN call.spec : wrong(v)}
  IN  /\ call.loaded.ok <=> defects = {}
      /\ call.answer.outcome = "returned" <=> defects = {}
      /\ ~call.loaded.ok =>
           /\ call.answer.error = call.loaded.error
           /\ call.loaded.error.links[1].details =
                {Issue(v, IF isSet(v) THEN "invalid" ELSE "missing") : v \in defects}
      /\ call.loaded.ok =>
           /\ call.answer.value = call.loaded.value
           /\ \A v \in DOMAIN call.spec :
                call.loaded.value[v] = IF isSet(v) THEN read(v) ELSE fallback(v)

(* validate.ts:18, policy.ts:84 and env.ts:238: of an environment, every    *)
(* variable that is wrong is reported, and no other.  Of a policy, every    *)
(* name, entry, field and rule that is wrong is reported where it is, those *)
(* of later rules included, and nothing that is right is.  Two things are   *)
(* not, whatever those lines say: of one condition in a `when`, more than   *)
(* the first thing that is wrong with it (each broken condition is reported *)
(* at it or at one of its fields, but need not be for each of them), and an *)
(* id that is used again, if the rule that had it first, or the one that    *)
(* has it again, is wrong otherwise.  What is returned is what the engine   *)
(* counts on, and a policy is still the same after JSON has been made of it *)
(* unless it holds NaN.                                                     *)
DefectsAreReported ==
  /\ Is("policy") => PolicyIsJudged /\ PolicyIsUsable
  /\ Is("environment") => EnvironmentIsJudged
=============================================================================
