------------------------------- MODULE Policies -------------------------------
(***************************************************************************)
(* What a policy is, by the types of access-control/src/conditions.ts and  *)
(* policy.ts and what their comments ask beyond them.  It says nothing of  *)
(* how a document is looked through: that is PolicyValidation.             *)
(*                                                                         *)
(* A value of JavaScript is a record with a tag `t`, and its contents in a *)
(* field of its own type.                                                  *)
(***************************************************************************)
EXTENDS Errors, TLC

CONSTANTS
  Json,              \* bound: the values of documents, with all their parts
  Split,             \* text -> the segments of a dotted path
  MaxConditionDepth  \* 32 in the code; smaller in an instance

ASSUME MaxConditionDepthAssumption == MaxConditionDepth \in Nat \ {0}

Undefined == [t |-> "undefined"]
Null == [t |-> "null"]
Text(s) == [t |-> "text", text |-> s]
ListOf(items) == [t |-> "list", items |-> items]
Record(fields) == [t |-> "record", fields |-> fields]
Finite == [t |-> "number", finite |-> TRUE]
NaN == [t |-> "number", finite |-> FALSE]

ItemsOf(list) == {list.items[i] : i \in DOMAIN list.items}
Contents(record) == {record.fields[key] : key \in DOMAIN record.fields}
Inside(v) == IF v.t = "list" THEN ItemsOf(v) ELSE IF v.t = "record" THEN Contents(v) ELSE {}

\* Values with all that is inside of them.
Encoded(values) ==
  \A v \in values :
    /\ Inside(v) \subseteq values
    /\ v.t = "text" => v = Text(v.text)
    /\ v.t = "number" => v \in {Finite, NaN}
    /\ v.t = "list" => v = ListOf(v.items) /\ v.items \in Seq(ItemsOf(v))
    /\ v.t = "record" => v = Record(v.fields) /\ v.fields \in [DOMAIN v.fields -> Contents(v)]

ASSUME JsonAssumption == Encoded(Json)

\* The step of a path into a list.
Index == [i \in Nat |-> "[" \o ToString(i) \o "]"]

Has(record, key) == key \in DOMAIN record.fields
Own(record, key) == IF Has(record, key) THEN record.fields[key] ELSE Undefined

OneOf(v, texts) == v.t = "text" /\ v.text \in texts
Filled(v) == v.t = "list" /\ v.items # << >>
HasFields(v, keys) == v.t = "record" /\ DOMAIN v.fields = keys

-----------------------------------------------------------------------------
(* conditions.ts                                                           *)

JsonPrimitive(v) == v.t \in {"text", "number", "boolean"}

ComparisonOperator == {"eq", "ne", "gt", "gte", "lt", "lte", "contains"}
MembershipOperator == {"in", "nin"}
PresenceOperator == {"exists", "notExists"}
BinaryOperator == ComparisonOperator \cup MembershipOperator

Unwalkable == {"__proto__", "constructor", "prototype"}

\* principal.*, resource.* or env.*
DottedPath(v) ==
  /\ v.t = "text" /\ v.text # ""
  /\ LET segments == Split[v.text]
         attribute == {segments[i] : i \in 2 .. Len(segments)}
     IN  /\ segments[1] \in {"principal", "resource", "env"}
         /\ attribute # {} /\ attribute \cap (Unwalkable \cup {""}) = {}

AttributeComparison(v) ==
  /\ HasFields(v, {"path", "op", "value"})
  /\ DottedPath(v.fields["path"]) /\ OneOf(v.fields["op"], ComparisonOperator)
  /\ JsonPrimitive(v.fields["value"]) /\ v.fields["value"] # NaN

\* What its list holds may be NaN.
AttributeMembership(v) ==
  /\ HasFields(v, {"path", "op", "value"})
  /\ DottedPath(v.fields["path"]) /\ OneOf(v.fields["op"], MembershipOperator)
  /\ Filled(v.fields["value"]) /\ \A item \in ItemsOf(v.fields["value"]) : JsonPrimitive(item)

AttributeReference(v) ==
  /\ HasFields(v, {"path", "op", "ref"})
  /\ DottedPath(v.fields["path"]) /\ OneOf(v.fields["op"], BinaryOperator)
  /\ DottedPath(v.fields["ref"])

AttributePresence(v) ==
  /\ HasFields(v, {"path", "op"})
  /\ DottedPath(v.fields["path"]) /\ OneOf(v.fields["op"], PresenceOperator)

\* AllOf and AnyOf, of what holds for conditions.
CombinationOf(v, key, holds) ==
  HasFields(v, {key}) /\ Filled(v.fields[key]) /\ \A item \in ItemsOf(v.fields[key]) : holds[item]

NotCondition(v, holds) == HasFields(v, {"not"}) /\ holds[v.fields["not"]]

IsAttribute(v) ==
  AttributeComparison(v) \/ AttributeMembership(v) \/ AttributeReference(v) \/ AttributePresence(v)

\* Conditions have so many levels at the most.
IsCondition(value) ==
  LET condition[levels \in 0 .. MaxConditionDepth] ==
        [v \in Json |->
           /\ levels # 0
           /\ \/ IsAttribute(v)
              \/ \E key \in {"all", "any"} : CombinationOf(v, key, condition[levels - 1])
              \/ NotCondition(v, condition[levels - 1])]
  IN  condition[MaxConditionDepth][value]

\* The places, within a value, of what is no condition by itself, and not
\* only because of a condition inside of it.
BrokenNode(v, broken) ==
  LET lists == {key \in {"all", "any"} : HasFields(v, {key}) /\ Filled(v.fields[key])}
      inside(key) ==
        UNION {{<< key, Index[i] >> \o node : node \in broken[v.fields[key].items[i]]} :
                 i \in DOMAIN v.fields[key].items}
  IN  CASE HasFields(v, {"not"}) -> {<< "not" >> \o node : node \in broken[v.fields["not"]]}
        [] lists # {} -> UNION {inside(key) : key \in lists}
        [] OTHER -> IF IsAttribute(v) THEN {} ELSE {<< >>}

BrokenIn(value) ==
  LET broken[levels \in 0 .. MaxConditionDepth] ==
        [v \in Json |-> IF levels = 0 THEN {<< >>} ELSE BrokenNode(v, broken[levels - 1])]
  IN  broken[MaxConditionDepth][value]

-----------------------------------------------------------------------------
(* policy.ts: PolicyDefinition, and its rules.                             *)

NonEmpty(v) == v.t = "text" /\ v.text # ""

\* '*' is what stands for all of the names.
Declarable(v) == NonEmpty(v) /\ v.text # "*"
RoleName(v) == NonEmpty(v) /\ v.text \notin Unwalkable

NamesIn(v, Right(_)) ==
  IF v.t = "list" THEN {item.text : item \in {i \in ItemsOf(v) : Right(i)}} ELSE {}

\* What is declared, whatever else is wrong with the declaration.
Declared(document) ==
  LET roles == Own(document, "roles") IN
  [actions |-> NamesIn(Own(document, "actions"), Declarable),
   subjects |-> NamesIn(Own(document, "subjects"), Declarable),
   roles |-> IF roles.t = "record" THEN DOMAIN roles.fields \ (Unwalkable \cup {""})
             ELSE NamesIn(roles, RoleName)]

\* A list of names, or a map from each role to those it inherits.
RolesFit(v) ==
  \/ v = Undefined
  \/ v.t = "list" /\ \A item \in ItemsOf(v) : RoleName(item)
  \/ /\ v.t = "record" /\ DOMAIN v.fields \cap (Unwalkable \cup {""}) = {}
     /\ \A parents \in Contents(v) :
          parents.t = "list" /\ \A item \in ItemsOf(parents) : OneOf(item, DOMAIN v.fields)

PolicyKeys == {"actions", "subjects", "roles", "rules"}

PolicyFieldFits(document, key) ==
  LET v == Own(document, key) IN
  CASE key \in {"actions", "subjects"} -> Filled(v) /\ \A item \in ItemsOf(v) : Declarable(item)
    [] key = "roles" -> RolesFit(v)
    [] key = "rules" -> v.t = "list"

Selection(v, declared) == Filled(v) /\ \A item \in ItemsOf(v) : OneOf(item, declared)

RuleKeys == {"id", "description", "effect", "actions", "subjects", "roles", "when"}

RuleFieldFits(rule, key, declared) ==
  LET v == Own(rule, key) IN
  CASE key = "effect" -> OneOf(v, {"allow", "deny"})
    [] key \in {"actions", "subjects"} -> OneOf(v, {"*"}) \/ Selection(v, declared[key])
    [] key = "roles" -> Has(rule, key) => Selection(v, declared.roles)
    [] key = "when" -> Has(rule, key) => IsCondition(v)
    [] key = "id" -> Has(rule, key) => NonEmpty(v)
    [] key = "description" -> Has(rule, key) => v.t = "text"

RulesOf(document) ==
  IF document.t = "record" /\ Own(document, "rules").t = "list"
  THEN Own(document, "rules").items ELSE << >>

\* The places of fields that do not hold what their types are.
Misfits(document) ==
  LET rules == RulesOf(document)
      wrong(i) == {key \in RuleKeys : ~RuleFieldFits(rules[i], key, Declared(document))}
  IN  {<< key >> : key \in {k \in PolicyKeys : document.t = "record" /\ ~PolicyFieldFits(document, k)}}
        \cup UNION {{<< "rules", Index[i], key >> : key \in wrong(i)} :
                      i \in {j \in DOMAIN rules : rules[j].t = "record"}}

RuleFits(rule, declared) ==
  /\ rule.t = "record" /\ DOMAIN rule.fields \subseteq RuleKeys
  /\ \A key \in RuleKeys : RuleFieldFits(rule, key, declared)

\* The places of what is no policy, or no rule, or has fields it must not
\* have, and of a name that an earlier rule has.
Strays(document) ==
  LET rules == RulesOf(document)
      shaped(v, keys) == v.t = "record" /\ DOMAIN v.fields \subseteq keys
      named(i) == RuleFits(rules[i], Declared(document)) /\ Has(rules[i], "id")
      again(i) == \E j \in DOMAIN rules : j < i /\ named(j) /\ Own(rules[j], "id") = Own(rules[i], "id")
  IN  (IF shaped(document, PolicyKeys) THEN {} ELSE {<< >>})
        \cup {<< "rules", Index[i] >> : i \in {j \in DOMAIN rules : ~shaped(rules[j], RuleKeys)}}
        \cup {<< "rules", Index[i], "id" >> : i \in {j \in DOMAIN rules : named(j) /\ again(j)}}

IsPolicyDefinition(document) == Misfits(document) \cup Strays(document) = {}

-----------------------------------------------------------------------------
(* Where what is wrong with a document is, each thing at a place of its own. *)

\* A list of names is wrong at its entries, or, if it has none, itself.
WrongEntries(v, place, Right(_)) ==
  {Append(place, Index[i]) : i \in {j \in DOMAIN v.items : ~Right(v.items[j])}}

WrongNames(v, place, Right(_)) == IF Filled(v) THEN WrongEntries(v, place, Right) ELSE {place}

WrongRoles(v) ==
  LET usable == DOMAIN v.fields \ (Unwalkable \cup {""})
      isRole(item) == OneOf(item, usable)
      wrongIn(r) == IF v.fields[r].t = "list" THEN WrongEntries(v.fields[r], << "roles", r >>, isRole)
                    ELSE {<< "roles", r >>}
  IN  CASE v.t = "list" -> WrongEntries(v, << "roles" >>, RoleName)
        [] v.t = "record" ->
             (UNION {wrongIn(r) : r \in usable})
               \cup {IF r = "" THEN << "roles" >> ELSE << "roles", r >> : r \in DOMAIN v.fields \ usable}
        [] OTHER -> {<< "roles" >>}

WrongInPolicy(document, key) ==
  IF PolicyFieldFits(document, key) THEN {}
  ELSE CASE key = "roles" -> WrongRoles(Own(document, key))
         [] key = "rules" -> {<< key >>}
         [] OTHER -> WrongNames(Own(document, key), << key >>, Declarable)

WrongInRule(rule, key, place, declared) ==
  LET isDeclared(item) == OneOf(item, declared[key]) IN
  IF RuleFieldFits(rule, key, declared) THEN {}
  ELSE IF key \in {"actions", "subjects", "roles"} THEN WrongNames(Own(rule, key), place, isDeclared)
  ELSE {place}

\* All but the conditions.
Misplaced(document) ==
  LET rules == RulesOf(document)
      inRule(i) == UNION {WrongInRule(rules[i], key, << "rules", Index[i], key >>, Declared(document)) :
                            key \in RuleKeys \ {"when"}}
  IN  Strays(document)
        \cup (IF document.t = "record" THEN UNION {WrongInPolicy(document, key) : key \in PolicyKeys} ELSE {})
        \cup UNION {inRule(i) : i \in {j \in DOMAIN rules : rules[j].t = "record"}}

\* And those: at what is no condition, or at a field of it.
BrokenConditions(document) ==
  LET rules == RulesOf(document)
      conditional == {i \in DOMAIN rules : rules[i].t = "record" /\ Has(rules[i], "when")}
      brokenIn(i) == {<< "rules", Index[i], "when" >> \o node : node \in BrokenIn(Own(rules[i], "when"))}
  IN  UNION {brokenIn(i) : i \in conditional}

At(node) == {node} \cup {Append(node, key) : key \in {"path", "op", "value", "ref", "all", "any"}}

-----------------------------------------------------------------------------
(* Policy: what the engine is given.  Lists of names are sets here.        *)

Everything == {"*"}

IsSelection(names, declared) == names = Everything \/ (names # {} /\ names \subseteq declared)

IsRule(rule, policy) ==
  /\ {"effect", "actions", "subjects"} \subseteq DOMAIN rule /\ DOMAIN rule \subseteq RuleKeys
  /\ OneOf(rule["effect"], {"allow", "deny"})
  /\ IsSelection(rule["actions"], policy.actions) /\ IsSelection(rule["subjects"], policy.subjects)
  /\ "roles" \in DOMAIN rule => rule["roles"] # {} /\ rule["roles"] \subseteq DOMAIN policy.roles
  /\ "when" \in DOMAIN rule => IsCondition(rule["when"])
  /\ "id" \in DOMAIN rule => NonEmpty(rule["id"])
  /\ "description" \in DOMAIN rule => rule["description"].t = "text"

IsPolicy(policy) ==
  /\ policy.actions # {} /\ policy.subjects # {} /\ "*" \notin policy.actions \cup policy.subjects
  /\ policy.roles \in [DOMAIN policy.roles -> SUBSET DOMAIN policy.roles]
  /\ \A i \in DOMAIN policy.rules : IsRule(policy.rules[i], policy)
  /\ LET named == {i \in DOMAIN policy.rules : "id" \in DOMAIN policy.rules[i]}
     IN  \A i, j \in named : policy.rules[i]["id"] = policy.rules[j]["id"] => i = j
=============================================================================
