-------------------------- MODULE MCAccessDecision --------------------------
(***************************************************************************)
(* An instance of AccessDecision for TLC.  The graphs over three roles,    *)
(* cycles included, with no rules; and one chain of roles with every order *)
(* of one or two of a few rules that disagree in all the ways the engine   *)
(* tells apart, and of three of them.                                      *)
(***************************************************************************)
EXTENDS AccessDecisionProps, FiniteSets, TLC

CONSTANTS Admin, Author, Reader, Stranger

MCRoles == {Admin, Author, Reader}

Text(n) == Value("string", n, {})
Number(n) == Value("number", n, {})
Team == Value("array", 0, {Text(1)})

At(root) == [root |-> root, attribute |-> "a"]
Test(do, path, value, ref) == [do |-> do, of |-> {}, path |-> path, value |-> value, ref |-> ref]
Not(c) == [do |-> "not", of |-> c]
AllOf(cs) == [do |-> "all", of |-> cs]
AnyOf(cs) == [do |-> "any", of |-> cs]

Owns == Test("eq", At("resource"), None, At("principal"))
Member == Test("in", At("principal"), None, At("resource"))
Later == Test("gt", At("env"), None, At("resource"))
Locked == Test("exists", At("resource"), None, None)
Unlocked == Test("notExists", At("resource"), None, None)
Frozen == Test("eq", At("env"), Text(1), None)
NotFrozen == Not(Frozen)
OwnsOrMember == AnyOf({Owns, Member})
Deep == Not(AllOf({NotFrozen, Not(Owns)}))

MCForms ==
  {Owns, Member, Later, Locked, Unlocked, Frozen, NotFrozen, OwnsOrMember, Deep,
   AllOf({NotFrozen, Not(Owns)}), Not(Owns)}

Rule(effect, actions, roles, when) ==
  [effect |-> effect, actions |-> actions, subjects |-> Wildcard,
   roles |-> roles, when |-> when]

SomeRules ==
  {Rule("allow", Wildcard, {Admin}, None),
   Rule("allow", {"update"}, {Author, Reader}, OwnsOrMember),
   Rule("allow", Wildcard, None, Unlocked),
   Rule("allow", {"update"}, None, Deep),
   Rule("deny", {"update"}, {Reader}, Frozen),
   Rule("deny", Wildcard, None, Later)}

\* Every order of the rules of a set.
Orders(s) == {q \in [1 .. Cardinality(s) -> s] : \A i, j \in DOMAIN q : q[i] = q[j] => i = j}

RuleSets ==
  {s \in SUBSET SomeRules : Cardinality(s) \in 1 .. 2}
    \cup {{r \in SomeRules : r.effect = "deny" \/ r.when = OwnsOrMember}}

Chain == Admin :> {Author} @@ Author :> {Reader} @@ Reader :> {}

MCPolicies ==
  {p \in [inherits : [MCRoles -> SUBSET MCRoles], rules : {<< >>}] :
     \A r \in MCRoles : r \notin p.inherits[r]}
    \cup [inherits : {Chain}, rules : UNION {Orders(s) : s \in RuleSets}]

MCQuestions == {<< "update", "post" >>, << "publish", "post" >>, << "update", "mail" >>}

With1(value) == [a |-> value]

MCPrincipals ==
  {[roles |-> {Admin}, attrs |-> With1(Text(1))],
   [roles |-> {Reader, Stranger}, attrs |-> With1(Text(1))],
   [roles |-> None, attrs |-> With1(None)]}

MCResources == {With1(v) : v \in {Text(1), Number(1), Team, None, Throws}}
MCEnvs == {With1(v) : v \in {Text(1), Number(2), None}}
=============================================================================
