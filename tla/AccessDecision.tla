--------------------------- MODULE AccessDecision ---------------------------
(***************************************************************************)
(* createAccessControl and the guard in front of it (access-control/src/   *)
(* engine.ts, internal/roles.ts, internal/guard-core.ts): one policy is    *)
(* compiled, then one request asks it one question.  Nothing a request     *)
(* does changes what another one sees, so one is enough.                   *)
(*                                                                         *)
(* The loops of the code, over the roles and over the rules, take one step *)
(* of the model for each turn.  The index of rules by subject and effect   *)
(* is left out: a scan passes over the rules that are not in its bucket.   *)
(* A rule is known by its position, and which roles a principal claims in  *)
(* vain, which is only reported, is left out.  A definition marked         *)
(* "Faulty" is a plausible mistake in the next one.                        *)
(***************************************************************************)
EXTENDS Conditions, Sequences

CONSTANTS
  Roles, Actions, Subjects,  \* what the policy declares
  Claims,                    \* bound: the roles principals may claim
  Questions,                 \* bound: << action, subject >> that callers ask
  Policies,                  \* bound: inherits, by role, and rules
  Principals,                \* bound: roles, and the attributes as attrs
  Resources, Envs,           \* bound: what loaders return, or None
  Wildcard                   \* '*'

Rules ==
  [effect : {"allow", "deny"},
   actions : (SUBSET Actions) \cup {Wildcard},
   subjects : (SUBSET Subjects) \cup {Wildcard},
   roles : (SUBSET Roles) \cup {None},
   when : Forms \cup {None}]

ASSUME PoliciesAssumption ==
  \A p \in Policies : /\ p.inherits \in [Roles -> SUBSET Roles]
                      /\ p.rules \in Seq(Rules)
ASSUME NoneIsNoPosition == None \notin Nat
ASSUME PrincipalsAssumption ==
  \A p \in Principals \ {None} : p.roles = None \/ p.roles \subseteq Claims

VARIABLES
  policy,     \* the validated policy
  closures,   \* for each role the set of those it stands for, None at first
  role,       \* the role whose closure is being built, or None
  reached,    \* its closure so far
  pending,    \* roles still to be visited
  pc,         \* the promise the guard waits for, the scan, or the outcome
  question,   \* action and subject
  principal, resource, env,
  next,       \* the position of the scan
  unresolved, \* the first deny that could not be evaluated, or None
  decision    \* allowed, reason and rule, or None

compileVars == << closures, role, reached, pending >>
loadVars == << question, principal, resource, env >>
scanVars == << next, unresolved, decision >>
vars == << policy, compileVars, pc, loadVars, scanVars >>

Init ==
  /\ policy \in Policies
  /\ closures = [r \in Roles |-> None]
  /\ role = None
  /\ reached = {}
  /\ pending = {}
  /\ pc = "compile"
  /\ question = None
  /\ principal = None
  /\ resource = None
  /\ env = None
  /\ next = 1
  /\ unresolved = None
  /\ decision = None

-----------------------------------------------------------------------------
(* buildRoleClosures.  The stack of pending roles is a set: what is on it  *)
(* twice, or in another order, changes only when a role is visited.        *)

Open(r) ==
  /\ pc = "compile" /\ role = None
  /\ closures[r] = None
  /\ role' = r
  /\ reached' = {}
  /\ pending' = {r}
  /\ UNCHANGED << policy, closures, pc, loadVars, scanVars >>

\* Faulty: what a role inherits is reached, but not visited.
VisitParents(r) ==
  /\ reached' = reached \cup {r} \cup policy.inherits[r]
  /\ pending' = pending \ {r}

Visit(r) ==
  /\ reached' = reached \cup {r}
  /\ pending' = IF r \in reached THEN pending \ {r}
                ELSE (pending \ {r}) \cup policy.inherits[r]

Pop(r) ==
  /\ role # None
  /\ r \in pending
  /\ Visit(r)
  /\ UNCHANGED << policy, closures, role, pc, loadVars, scanVars >>

Close ==
  /\ role # None
  /\ pending = {}
  /\ closures' = [closures EXCEPT ![role] = reached]
  /\ role' = None
  /\ UNCHANGED << policy, reached, pending, pc, loadVars, scanVars >>

-----------------------------------------------------------------------------
(* authorize, up to the decision.                                          *)

Ask ==
  /\ pc = "compile" /\ \A r \in Roles : closures[r] # None
  /\ question' \in Questions
  /\ pc' = "getPrincipal"
  /\ UNCHANGED << policy, compileVars, principal, resource, env, scanVars >>

PrincipalLoads ==
  /\ pc = "getPrincipal"
  /\ principal' \in Principals \cup {None}
  /\ pc' = "getResource"
  /\ UNCHANGED << policy, compileVars, question, resource, env, scanVars >>

ResourceLoads ==
  /\ pc = "getResource"
  /\ resource' \in Resources \cup {None}
  /\ pc' = "getEnv"
  /\ UNCHANGED << policy, compileVars, question, principal, env, scanVars >>

EnvLoads ==
  /\ pc = "getEnv"
  /\ env' \in Envs \cup {None}
  /\ pc' = "declared"
  /\ UNCHANGED << policy, compileVars, question, principal, resource, scanVars >>

\* A loader throws: the request fails, and is not decided.
LoaderThrows ==
  /\ pc \in {"getPrincipal", "getResource", "getEnv"}
  /\ pc' = "failed"
  /\ UNCHANGED << policy, compileVars, loadVars, scanVars >>

-----------------------------------------------------------------------------
(* decide.                                                                 *)

\* resolveEffectiveRoles
Effective ==
  IF principal = None \/ principal.roles = None THEN {}
  ELSE UNION {closures[r] : r \in principal.roles \cap Roles}

MatchesSelector(selector, name) == selector # Wildcard => name \in selector

MatchesRoles(rule) == rule.roles # None => rule.roles \cap Effective # {}

\* A scan for rules of some effect looks at this rule.
Matches(rule, effect) ==
  /\ rule.effect = effect
  /\ MatchesSelector(rule.actions, question[1])
  /\ MatchesSelector(rule.subjects, question[2])
  /\ MatchesRoles(rule)

Environment ==
  [principal |-> IF principal = None THEN None ELSE principal.attrs,
   resource |-> resource, env |-> env]

VerdictOf(rule) ==
  IF rule.when = None THEN "true" ELSE EvaluateCondition(rule.when, Environment)

Current == policy.rules[next]

Decide(allowed, reason, by) ==
  /\ decision' = [allowed |-> allowed, reason |-> reason, rule |-> by]
  /\ pc' = "decided"
  /\ UNCHANGED << policy, compileVars, loadVars, next, unresolved >>

Declared == question[1] \in Actions /\ question[2] \in Subjects

Undeclared ==
  /\ pc = "declared" /\ ~Declared
  /\ Decide(FALSE, IF question[1] \notin Actions THEN "unknown_action"
                   ELSE "unknown_subject", None)

GoOn ==
  /\ pc = "declared" /\ Declared
  /\ pc' = "denies"
  /\ UNCHANGED << policy, compileVars, loadVars, scanVars >>

DenyHolds ==
  /\ pc = "denies" /\ next <= Len(policy.rules)
  /\ Matches(Current, "deny") /\ VerdictOf(Current) = "true"
  /\ Decide(FALSE, "explicit_deny", next)

\* Faulty: a deny that cannot be evaluated is passed over like one that is
\* false.
PassUnresolved == unresolved

\* The first deny that was unknown, this one included.
NoteUnresolved ==
  IF unresolved = None /\ Matches(Current, "deny") /\ VerdictOf(Current) = "unknown"
  THEN next ELSE unresolved

DenyPasses ==
  /\ pc = "denies" /\ next <= Len(policy.rules)
  /\ ~(Matches(Current, "deny") /\ VerdictOf(Current) = "true")
  /\ unresolved' = NoteUnresolved
  /\ next' = next + 1
  /\ UNCHANGED << policy, compileVars, pc, loadVars, decision >>

DenyUnresolved ==
  /\ pc = "denies" /\ next > Len(policy.rules)
  /\ unresolved # None
  /\ Decide(FALSE, "unresolved_deny", unresolved)

NothingDenies ==
  /\ pc = "denies" /\ next > Len(policy.rules)
  /\ unresolved = None
  /\ pc' = "allows"
  /\ next' = 1
  /\ UNCHANGED << policy, compileVars, loadVars, unresolved, decision >>

AllowHolds ==
  /\ pc = "allows" /\ next <= Len(policy.rules)
  /\ Matches(Current, "allow") /\ VerdictOf(Current) = "true"
  /\ Decide(TRUE, "allowed", next)

AllowPasses ==
  /\ pc = "allows" /\ next <= Len(policy.rules)
  /\ ~(Matches(Current, "allow") /\ VerdictOf(Current) = "true")
  /\ next' = next + 1
  /\ UNCHANGED << policy, compileVars, pc, loadVars, unresolved, decision >>

NothingAllows ==
  /\ pc = "allows" /\ next > Len(policy.rules)
  /\ Decide(FALSE, "no_matching_rule", None)

-----------------------------------------------------------------------------
(* What authorize makes of the decision.                                   *)

Grant ==
  /\ pc = "decided" /\ decision.allowed
  /\ pc' = "granted"
  /\ UNCHANGED << policy, compileVars, loadVars, scanVars >>

\* onDeny runs, and whether or not it throws itself, something is thrown.
Refuse ==
  /\ pc = "decided" /\ ~decision.allowed
  /\ pc' \in {"denied", "failed"}
  /\ UNCHANGED << policy, compileVars, loadVars, scanVars >>

Compile == (\E r \in Roles : Open(r) \/ Pop(r)) \/ Close

Load == PrincipalLoads \/ ResourceLoads \/ EnvLoads \/ LoaderThrows

Scan ==
  \/ Undeclared \/ GoOn
  \/ DenyHolds \/ DenyPasses \/ DenyUnresolved \/ NothingDenies
  \/ AllowHolds \/ AllowPasses \/ NothingAllows

Finish == Grant \/ Refuse

Ended == pc \in {"granted", "denied", "failed"} /\ UNCHANGED vars

Next == Compile \/ Ask \/ Load \/ Scan \/ Finish \/ Ended

Spec == Init /\ [][Next]_vars

\* Compiling, deciding and enforcing run without an await; loaders settle.
=============================================================================
