-------------------------- MODULE PolicyValidation --------------------------
(***************************************************************************)
(* definePolicy and parsePolicy (access-control/src/policy.ts and          *)
(* internal/validate.ts).  The input is any JSON, as Policies encodes it.  *)
(* A path within the input, such as rules[2].when, is a sequence; what the *)
(* issues say is left out, and issues with one path are one.               *)
(* A definition marked "Faulty" is a plausible mistake in the next one.    *)
(***************************************************************************)
EXTENDS Policies

ComparisonOperators == {"eq", "ne", "gt", "gte", "lt", "lte", "contains"}
MembershipOperators == {"in", "nin"}
PresenceOperators == {"exists", "notExists"}
PathRoots == {"principal", "resource", "env"}
ForbiddenSegments == {"__proto__", "constructor", "prototype"}

IsRecord(value) == value.t = "record"
IsPrimitive(value) == value.t \in {"text", "number", "boolean"}
IsName(value) == value.t = "text" /\ value.text # ""
IsOneOf(value, texts) == value.t = "text" /\ value.text \in texts
FilledList(value) == value.t = "list" /\ value.items # << >>

\* The texts of the entries that are right, and the paths of those that are not.
Sifted(items, path, Right(_)) ==
  [names |-> {items[i].text : i \in {j \in DOMAIN items : Right(items[j])}},
   issues |-> {Append(path, Index[i]) : i \in {j \in DOMAIN items : ~Right(items[j])}}]

Nothing(issues) == [names |-> {}, issues |-> issues]

ReadNameList(value, path) ==
  LET right(entry) == IsName(entry) /\ entry.text # "*" IN
    IF FilledList(value) THEN Sifted(value.items, path, right) ELSE Nothing({path})

CheckPath(value, path) ==
  LET segments == Split[value.text]
      rest == {segments[i] : i \in 2 .. Len(segments)}
  IN  IF /\ IsName(value)
         /\ segments[1] \in PathRoots
         /\ rest # {} /\ "" \notin rest /\ rest \cap ForbiddenSegments = {}
      THEN {} ELSE {path}

CombinatorKeys == {"all", "any", "not"}
LeafKeys == {"path", "op", "value", "ref"}

\* The right-hand side of a comparison, of which there is exactly one.
CheckOperand(value, op) ==
  LET literal == Own(value, "value")
      good ==
        IF op \in MembershipOperators
        THEN FilledList(literal) /\ \A i \in DOMAIN literal.items : IsPrimitive(literal.items[i])
        ELSE IsPrimitive(literal) /\ (literal.t = "number" => literal.finite)
  IN  IF Has(value, "ref") THEN CheckPath(Own(value, "ref"), << "ref" >>)
      ELSE IF good THEN {} ELSE {<< "value" >>}

\* Paths are those within the condition.
CheckLeaf(value) ==
  LET op == Own(value, "op")
      operands == DOMAIN value.fields \cap {"value", "ref"}
      \* An unreadable path ends the checks of the other operand.
      read == Own(value, "path").t = "text"
      rest ==
        CASE IsOneOf(op, PresenceOperators) -> IF operands = {} THEN {} ELSE {<< >>}
          [] IsOneOf(op, ComparisonOperators \cup MembershipOperators) ->
               IF operands \in {{}, {"value", "ref"}} THEN {<< >>}
               ELSE IF read THEN CheckOperand(value, op.text) ELSE {}
          [] OTHER -> {<< "op" >>}
  IN  CheckPath(Own(value, "path"), << "path" >>) \cup rest

\* Given the issues of every condition one level down.
CheckNode(value, below) ==
  LET combinator == DOMAIN value.fields \cap CombinatorKeys
      key == CHOOSE k \in combinator : TRUE
      inner == Own(value, key)
  IN  IF combinator = {}
      THEN IF DOMAIN value.fields \subseteq LeafKeys THEN CheckLeaf(value) ELSE {<< >>}
      ELSE IF DOMAIN value.fields # {key} THEN {<< >>}
      ELSE IF key = "not" THEN {<< key >> \o place : place \in below[inner]}
      ELSE IF ~FilledList(inner) THEN {<< key >>}
      ELSE UNION {{<< key, Index[i] >> \o place : place \in below[inner.items[i]]} :
                    i \in DOMAIN inner.items}

\* levels counts those that are left.  What is returned, if there is no
\* issue, is a copy of the condition.
CheckCondition(value, path) ==
  LET check[levels \in 0 .. MaxConditionDepth] ==
        [v \in Json |-> IF levels = 0 \/ ~IsRecord(v) THEN {<< >>}
                        ELSE CheckNode(v, check[levels - 1])]
  IN  {path \o place : place \in check[MaxConditionDepth][value]}

Selector(rule, path, key, declared) ==
  LET raw == Own(rule, key)
      right(entry) == entry.t = "text" /\ entry.text \in declared
  IN  IF IsOneOf(raw, Everything) THEN [names |-> Everything, issues |-> {}]
      ELSE IF FilledList(raw) THEN Sifted(raw.items, path \o << key >>, right)
      ELSE Nothing({path \o << key >>})

Restricted == {"id", "description", "effect", "actions", "subjects", "roles", "when"}

\* What is returned of a rule without an issue.
ReadRule(value, actions, subjects, roles) ==
  [key \in DOMAIN value.fields |->
     CASE key = "actions" -> actions
       [] key = "subjects" -> subjects
       [] key = "roles" -> roles
       [] OTHER -> Own(value, key)]

RuleRoles(value, path, declared) ==
  LET raw == Own(value, "roles")
      right(entry) == entry.t = "text" /\ entry.text \in declared
  IN  IF ~Has(value, "roles") THEN Nothing({})
      ELSE IF FilledList(raw) THEN Sifted(raw.items, path \o << "roles" >>, right)
      ELSE Nothing({path \o << "roles" >>})

\* The rule, which there is if it has no issues.
CheckRule(value, path, actions, subjects, roles) ==
  LET at(key) == path \o << key >>
      unless(good, where) == IF good THEN {} ELSE {where}
      elsewhere ==
        UNION {
          unless(IsOneOf(Own(value, "effect"), {"allow", "deny"}), at("effect")),
          IF Has(value, "when") THEN CheckCondition(Own(value, "when"), at("when")) ELSE {},
          unless(Has(value, "id") => IsName(Own(value, "id")), at("id")),
          unless(Has(value, "description") => Own(value, "description").t = "text",
                 at("description")),
          unless(DOMAIN value.fields \subseteq Restricted, path)}
      gather(a, s, r) ==
        [issues |-> a.issues \cup s.issues \cup r.issues \cup elsewhere,
         rule |-> ReadRule(value, a.names, s.names, r.names)]
  IN  IF ~IsRecord(value) THEN [rule |-> << >>, issues |-> {path}]
      ELSE gather(Selector(value, path, "actions", actions),
                  Selector(value, path, "subjects", subjects),
                  RuleRoles(value, path, roles))

\* The graph of the roles, and its issues.
ReadRoles(value) ==
  LET at(role) == << "roles", role >>
      usable == {r \in DOMAIN value.fields : r # "" /\ r \notin ForbiddenSegments}
      isRole(entry) == entry.t = "text" /\ entry.text \in usable
      parents(r) ==
        IF Own(value, r).t = "list" THEN Sifted(Own(value, r).items, at(r), isRole)
        ELSE Nothing({at(r)})
      isFree(entry) == IsName(entry) /\ entry.text \notin ForbiddenSegments
      listed == Sifted(value.items, << "roles" >>, isFree)
  IN  CASE value = Undefined -> [graph |-> << >>, issues |-> {}]
        [] value.t = "list" ->
             [graph |-> [r \in listed.names |-> {}], issues |-> listed.issues]
        [] IsRecord(value) ->
             [graph |-> [r \in usable |-> parents(r).names],
              issues |->
                (UNION {parents(r).issues : r \in usable})
                  \cup {IF r = "" THEN << "roles" >> ELSE at(r) : r \in DOMAIN value.fields \ usable}]
        [] OTHER -> [graph |-> << >>, issues |-> {<< "roles" >>}]

\* Faulty: the first rule with an issue ends the search.
RulesUpToFirst(rawRules, actions, subjects, roles) ==
  LET checked(i) == CheckRule(rawRules.items[i], << "rules", Index[i] >>, actions, subjects, roles)
      bad == {i \in DOMAIN rawRules.items : checked(i).issues # {}}
      first == CHOOSE i \in bad : \A j \in bad : i <= j
  IN  IF rawRules.t # "list" THEN [rules |-> << >>, issues |-> {<< "rules" >>}]
      ELSE IF bad = {}
      THEN [rules |-> [i \in DOMAIN rawRules.items |-> checked(i).rule], issues |-> {}]
      ELSE [rules |-> << >>, issues |-> checked(first).issues]

\* A rule's id is compared with those of the good rules before it.
Collect(checked) ==
  LET named == {i \in DOMAIN checked : checked[i].issues = {} /\ "id" \in DOMAIN checked[i].rule}
      twice == {i \in named :
                  \E j \in named : j < i /\ checked[j].rule["id"] = checked[i].rule["id"]}
  IN  [rules |-> [i \in DOMAIN checked |-> checked[i].rule],
       issues |-> (UNION {checked[i].issues : i \in DOMAIN checked})
                    \cup {<< "rules", Index[i], "id" >> : i \in twice}]

CheckRules(rawRules, actions, subjects, roles) ==
  IF rawRules.t # "list" THEN [rules |-> << >>, issues |-> {<< "rules" >>}]
  ELSE Collect([i \in DOMAIN rawRules.items |->
         CheckRule(rawRules.items[i], << "rules", Index[i] >>, actions, subjects, roles)])

\* The policy, which there is if there are no issues.
ValidatePolicy(input) ==
  LET extra == DOMAIN input.fields \ {"actions", "subjects", "roles", "rules"}
      gather(actions, subjects, roles, rules) ==
        [policy |-> [actions |-> actions.names, subjects |-> subjects.names,
                     roles |-> roles.graph, rules |-> rules.rules],
         issues |-> actions.issues \cup subjects.issues \cup roles.issues \cup rules.issues
                      \cup IF extra = {} THEN {} ELSE {<< >>}]
      declare(actions, subjects, roles) ==
        gather(actions, subjects, roles,
               CheckRules(Own(input, "rules"), actions.names, subjects.names, DOMAIN roles.graph))
  IN  IF ~IsRecord(input) THEN [policy |-> << >>, issues |-> {<< >>}]
      ELSE declare(ReadNameList(Own(input, "actions"), << "actions" >>),
                   ReadNameList(Own(input, "subjects"), << "subjects" >>),
                   ReadRoles(Own(input, "roles")))

\* isPolicy looks for a brand that only these two put on a policy.
BrandPolicy(policy) == [branded |-> TRUE, frozen |-> TRUE, policy |-> policy]

ToValidationError(issues) ==
  ValidationError("invalid policy", "INVALID_POLICY", issues, NoCause)

ParsePolicy(input) ==
  LET result(outcome) ==
        IF outcome.issues # {} THEN [ok |-> FALSE, error |-> ToValidationError(outcome.issues)]
        ELSE [ok |-> TRUE, value |-> BrandPolicy(outcome.policy)]
  IN  result(ValidatePolicy(input))

\* definePolicy throws what parsePolicy returns.
DefinePolicy(input) ==
  LET unwrap(parsed) ==
        IF parsed.ok THEN [outcome |-> "returned", value |-> parsed.value]
        ELSE [outcome |-> "threw", error |-> parsed.error]
  IN  unwrap(ParsePolicy(input))
=============================================================================
