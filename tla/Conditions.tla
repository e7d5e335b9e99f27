----------------------------- MODULE Conditions -----------------------------
(***************************************************************************)
(* The three-valued conditions of access-control/src: truth.ts, resolve.ts *)
(* and evaluate.ts under internal.  A condition is a tree of `all`, `any`  *)
(* and `not` over comparisons.  An attribute stands for a whole path below *)
(* its root, and what is not supplied, not there or not readable for what  *)
(* resolvePath makes of it on the way.                                     *)
(***************************************************************************)
EXTENDS Naturals

CONSTANTS
  Forms,     \* bound: the conditions of policies, with all their parts
  MaxDepth,  \* MAX_CONDITION_DEPTH
  None,      \* null, undefined, NaN and the infinities: no value
  Throws     \* an attribute whose getter throws

ASSUME MaxDepthAssumption == MaxDepth \in Nat
ASSUME FormsHaveTheirParts ==
  \A c \in Forms :
    /\ c.do \in {"all", "any"} => c.of \subseteq Forms
    /\ c.do = "not" => c.of \in Forms

\* Values differ by type, by place in the order of their type, and, if they
\* are arrays, by their members.
Value(type, rank, members) == [type |-> type, rank |-> rank, members |-> members]

-----------------------------------------------------------------------------
(* truth.ts, on the set of the operands' verdicts.                         *)

Ternary == {"true", "false", "unknown"}

Conjoin(verdicts) ==
  CASE "false" \in verdicts -> "false"
    [] "false" \notin verdicts /\ "unknown" \in verdicts -> "unknown"
    [] verdicts \cap {"false", "unknown"} = {} -> "true"

Disjoin(verdicts) ==
  CASE "true" \in verdicts -> "true"
    [] "true" \notin verdicts /\ "unknown" \in verdicts -> "unknown"
    [] verdicts \cap {"true", "unknown"} = {} -> "false"

Negate(verdict) ==
  CASE verdict = "true" -> "false"
    [] verdict = "false" -> "true"
    [] OTHER -> "unknown"

FromBoolean(b) == IF b THEN "true" ELSE "false"

-----------------------------------------------------------------------------
(* resolve.ts: a value, None if it is absent, Throws if it is unresolved.  *)

ResolvePath(environment, path) ==
  IF path.root \notin DOMAIN environment \/ environment[path.root] = None THEN Throws
  ELSE environment[path.root][path.attribute]

-----------------------------------------------------------------------------
(* evaluate.ts                                                             *)

Primitive(value) == value.type \in {"string", "number", "boolean"}

Ordered(value) == value.type \in {"string", "number"}

\* The pairs an operator answers for.
Fits(op, left, right) ==
  CASE op \in {"in", "nin"} -> Primitive(left) /\ right.type = "array"
    [] op = "contains" -> left.type = "array" /\ Primitive(right)
    [] op \in {"eq", "ne"} -> Primitive(left) /\ Primitive(right)
    [] op \in {"gt", "gte", "lt", "lte"} -> Ordered(left) /\ left.type = right.type
    [] OTHER -> FALSE

Holds(op, left, right) ==
  CASE op = "in" -> left \in right.members
    [] op = "nin" -> left \notin right.members
    [] op = "contains" -> right \in left.members
    [] op = "eq" -> left = right
    [] op = "ne" -> left # right
    [] op = "gt" -> left.rank > right.rank
    [] op = "gte" -> left.rank >= right.rank
    [] op = "lt" -> left.rank < right.rank
    [] op = "lte" -> left.rank <= right.rank

ApplyBinary(op, left, right) ==
  IF {left, right} \cap {None, Throws} = {} /\ Fits(op, left, right)
  THEN FromBoolean(Holds(op, left, right))
  ELSE "unknown"

\* Faulty: an attribute of a root that was not supplied does not exist.
ExistsTwoValued(op, value) ==
  FromBoolean((op = "exists") = (value \notin {None, Throws}))

\* exists and notExists answer for what is absent, not for what is unresolved.
ApplyExists(op, value) ==
  IF value = Throws THEN "unknown" ELSE FromBoolean((op = "exists") = (value # None))

Compare(c, environment) ==
  LET left == ResolvePath(environment, c.path) IN
  IF c.do \in {"exists", "notExists"} THEN ApplyExists(c.do, left)
  ELSE ApplyBinary(c.do, left,
                   IF c.ref = None THEN c.value ELSE ResolvePath(environment, c.ref))

\* What a condition comes to, given what each that is below it does.
EvaluateNode(c, below, environment) ==
  CASE c.do = "all" /\ c.of # {} -> Conjoin({below[o] : o \in c.of})
    [] c.do = "any" /\ c.of # {} -> Disjoin({below[o] : o \in c.of})
    [] c.do \in {"all", "any"} /\ c.of = {} -> "unknown"
    [] c.do = "not" -> Negate(below[c.of])
    [] OTHER -> Compare(c, environment)

\* levels counts those that are left.
EvaluateCondition(condition, environment) ==
  LET evaluate[levels \in 0 .. MaxDepth] ==
        [c \in Forms |-> IF levels = 0 THEN "unknown"
                         ELSE EvaluateNode(c, evaluate[levels - 1], environment)]
  IN  evaluate[MaxDepth][condition]
=============================================================================
