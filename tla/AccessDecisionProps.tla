------------------------ MODULE AccessDecisionProps -------------------------
(***************************************************************************)
(* What the decision engine and its guard promise.                         *)
(***************************************************************************)
EXTENDS AccessDecision

Waiting == {"getPrincipal", "getResource", "getEnv"}
Scanning == {"denies", "allows"}
Outcomes == {"granted", "denied", "failed"}
Reasons == {"unknown_action", "unknown_subject", "explicit_deny", "unresolved_deny",
            "allowed", "no_matching_rule"}
Positions == DOMAIN policy.rules

\* Types.  A root holds what a loader may return, a closure is a set of
\* declared roles, and a scan never leaves the rules by more than one.
TypeOK ==
  /\ policy \in Policies
  /\ closures \in [Roles -> (SUBSET Roles) \cup {None}]
  /\ role \in Roles \cup {None}
  /\ reached \subseteq Roles
  /\ pending \subseteq Roles
  /\ pc \in {"compile", "declared", "decided"} \cup Waiting \cup Scanning \cup Outcomes
  /\ question \in Questions \cup {None}
  /\ principal \in Principals \cup {None}
  /\ resource \in Resources \cup {None}
  /\ env \in Envs \cup {None}
  /\ next \in 1 .. (Len(policy.rules) + 1)
  /\ unresolved \in Positions \cup {None}
  /\ decision \in [allowed : BOOLEAN, reason : Reasons, rule : Positions \cup {None}]
                    \cup {None}

-----------------------------------------------------------------------------
\* A set of roles that has, with a role, those it inherits.
Hereditary(s) == \A r \in s : policy.inherits[r] \subseteq s

\* buildRoleClosures: the closure of a role is the least set that has the role
\* and is hereditary, whatever cycles the graph has and in whatever order the
\* roles are visited: a missing role disarms the denies that name it, one too
\* many arms allows.
ClosuresAreLeast ==
  \A r \in Roles : closures[r] # None =>
    /\ r \in closures[r]
    /\ Hereditary(closures[r])
    /\ \A s \in SUBSET Roles : r \in s /\ Hereditary(s) => closures[r] \subseteq s

-----------------------------------------------------------------------------
\* A role stands for another if no hereditary set tells them apart.
StandsFor(r, other) ==
  \A s \in SUBSET Roles : r \in s /\ Hereditary(s) => other \in s

Claimed ==
  IF principal = None \/ principal.roles = None THEN {} ELSE principal.roles \cap Roles

\* A rule is about the question and about this principal.
Concerns(rule) ==
  /\ rule.actions = Wildcard \/ question[1] \in rule.actions
  /\ rule.subjects = Wildcard \/ question[2] \in rule.subjects
  /\ rule.roles = None \/ \E r \in Claimed, other \in rule.roles : StandsFor(r, other)

\* The rules of an effect that match and have one of some verdicts.
With(effect, verdicts) ==
  {i \in Positions : LET rule == policy.rules[i] IN
     rule.effect = effect /\ Concerns(rule) /\ VerdictOf(rule) \in verdicts}

First(s) == CHOOSE i \in s : \A j \in s : i <= j

\* README, "How a decision is made": the outcome depends on which rules match
\* and not on where they stand; a deny that holds, or that may hold, outranks
\* every allow, and only the rule that is credited is the first of its kind.
DecisionIsOfTheSet ==
  decision # None =>
    /\ decision.allowed <=> /\ Declared
                            /\ With("deny", {"true", "unknown"}) = {}
                            /\ With("allow", {"true"}) # {}
    /\ decision.allowed => decision.rule = First(With("allow", {"true"}))
    /\ Declared /\ With("deny", {"true"}) # {} =>
         /\ decision.reason = "explicit_deny"
         /\ decision.rule = First(With("deny", {"true"}))
    /\ Declared /\ With("deny", {"true"}) = {} /\ With("deny", {"unknown"}) # {} =>
         /\ decision.reason = "unresolved_deny"
         /\ decision.rule = First(With("deny", {"unknown"}))

-----------------------------------------------------------------------------
\* The request as it would be with these attributes.
VerdictWith(rule, res, environs) ==
  IF rule.when = None THEN "true"
  ELSE EvaluateCondition(rule.when, [Environment EXCEPT !.resource = res, !.env = environs])

AllowedWith(res, environs) ==
  /\ \A i \in With("deny", Ternary) :
       VerdictWith(policy.rules[i], res, environs) = "false"
  /\ \E i \in With("allow", Ternary) :
       VerdictWith(policy.rules[i], res, environs) = "true"

\* What a root that was not supplied might have been.
Supplied(root, all) == IF root = None THEN all ELSE {root}

\* engine.ts and truth.ts, "fail-closed": what is not supplied never grants.
\* A request that is granted without its resource or its environment would be
\* granted with every one there is, however the conditions nest `not`, `any`
\* and `notExists`.
IgnoranceNeverGrants ==
  pc = "granted" =>
    \A res \in Supplied(resource, Resources), environs \in Supplied(env, Envs) :
      AllowedWith(res, environs)

-----------------------------------------------------------------------------
(* The inductive invariant.                                                *)

\* The closure that is being built has nothing too much, and what it lacks is
\* still to come.
Worklist ==
  role # None =>
    /\ closures[role] = None
    /\ role \in reached \cup pending
    /\ \A r \in reached : policy.inherits[r] \subseteq reached \cup pending
    /\ \A s \in SUBSET Roles :
         role \in s /\ Hereditary(s) => reached \cup pending \subseteq s

\* Nobody asks before every closure is there.
Compiled == pc # "compile" => role = None /\ \A r \in Roles : closures[r] # None

\* A scan starts at the first rule, with nothing seen and nothing decided.
Fresh ==
  /\ pc \in {"compile", "declared"} \cup Waiting => next = 1 /\ unresolved = None
  /\ pc \in {"compile", "declared"} \cup Waiting \cup Scanning => decision = None

\* Behind the position of the scan there is no deny that holds, and the first
\* that is unknown has been noted.
DeniesSeen ==
  pc = "denies" =>
    /\ Declared
    /\ \A i \in With("deny", {"true"}) : i >= next
    /\ unresolved = None => \A i \in With("deny", {"unknown"}) : i >= next
    /\ unresolved # None =>
         /\ unresolved \in With("deny", {"unknown"})
         /\ \A i \in With("deny", {"unknown"}) : unresolved <= i

\* No deny stands in the way, and behind the scan there is no allow.
AllowsSeen ==
  pc = "allows" =>
    /\ Declared
    /\ With("deny", {"true", "unknown"}) = {}
    /\ \A i \in With("allow", {"true"}) : i >= next

IInv ==
  /\ TypeOK
  /\ ClosuresAreLeast /\ Worklist /\ Compiled
  /\ Fresh /\ DeniesSeen /\ AllowsSeen /\ DecisionIsOfTheSet
=============================================================================
