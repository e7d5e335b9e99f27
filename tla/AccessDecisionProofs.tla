------------------------ MODULE AccessDecisionProofs ------------------------
(***************************************************************************)
(* Proofs about the decision engine: its closures and its decisions are    *)
(* what they should be, for any roles, rules and conditions.               *)
(***************************************************************************)
EXTENDS AccessDecisionProps, SetInduction, TLAPS

\* A rule is looked at by a scan exactly if it concerns the request: the
\* closures say the same as the graph they were built from.
LEMMA ScanSeesWhatConcerns ==
  ASSUME TypeOK, ClosuresAreLeast, \A r \in Roles : closures[r] # None,
         NEW i \in Positions, NEW effect
  PROVE  Matches(policy.rules[i], effect)
           <=> policy.rules[i].effect = effect /\ Concerns(policy.rules[i])
<1> DEFINE rule == policy.rules[i]
<1>1. Effective = UNION {closures[r] : r \in Claimed}
  BY DEF Effective, Claimed
<1>2. policy.rules \in Seq(Rules)
  BY PoliciesAssumption DEF TypeOK
<1>3. rule \in Rules
  BY <1>2 DEF Positions
<1>4. rule.roles # None => rule.roles \subseteq Roles
  BY <1>3 DEF Rules
<1>5. Claimed \subseteq Roles
  BY DEF Claimed
<1>6. ASSUME NEW r \in Roles, NEW other \in Roles
      PROVE  other \in closures[r] <=> StandsFor(r, other)
  <2>1. closures[r] \in SUBSET Roles
    BY DEF TypeOK
  <2>2. /\ r \in closures[r]
        /\ Hereditary(closures[r])
        /\ \A s \in SUBSET Roles : r \in s /\ Hereditary(s) => closures[r] \subseteq s
    BY DEF ClosuresAreLeast
  <2> QED
    BY <2>1, <2>2 DEF StandsFor
<1>7. MatchesRoles(rule)
        <=> (rule.roles = None \/ \E r \in Claimed, other \in rule.roles : StandsFor(r, other))
  BY <1>1, <1>4, <1>5, <1>6 DEF MatchesRoles
<1> QED
  BY <1>7 DEF Matches, Concerns, MatchesSelector

\* The first of a set of positions is the one below all others.
LEMMA FirstIsLeast ==
  ASSUME NEW s \in SUBSET Nat, NEW i \in s, \A j \in s : i <= j
  PROVE  First(s) = i
<1>1. First(s) \in s /\ \A j \in s : First(s) <= j
  BY DEF First
<1>2. First(s) <= i /\ i <= First(s)
  BY <1>1
<1>3. First(s) \in Nat /\ i \in Nat
  BY <1>1
<1> QED
  BY <1>2, <1>3

LEMMA PositionsAreNaturals ==
  ASSUME TypeOK
  PROVE  /\ Len(policy.rules) \in Nat
         /\ Positions = 1 .. Len(policy.rules)
         /\ Positions \subseteq Nat
<1>1. policy.rules \in Seq(Rules)
  BY PoliciesAssumption DEF TypeOK
<1> QED
  BY <1>1 DEF Positions

\* What a scan looks for is settled before it begins.
LEMMA WithIsSettled ==
  ASSUME UNCHANGED << policy, loadVars >>, NEW effect, NEW verdicts
  PROVE  /\ With(effect, verdicts)' = With(effect, verdicts)
         /\ Positions' = Positions
         /\ Declared' = Declared
<1>1. /\ policy' = policy /\ question' = question /\ principal' = principal
      /\ resource' = resource /\ env' = env
  BY DEF loadVars
<1>2. Positions' = Positions /\ Declared' = Declared
  BY <1>1 DEF Positions, Declared
<1>3. Environment' = Environment /\ Claimed' = Claimed
  BY <1>1 DEF Environment, Claimed
<1>4. ASSUME NEW r, NEW other PROVE StandsFor(r, other)' = StandsFor(r, other)
  BY <1>1 DEF StandsFor, Hereditary
<1>5. ASSUME NEW i \in Positions
      PROVE  Concerns(policy.rules[i])' = Concerns(policy.rules[i])
  BY <1>1, <1>3, <1>4 DEF Concerns
<1>6. ASSUME NEW i \in Positions
      PROVE  VerdictOf(policy.rules[i])' = VerdictOf(policy.rules[i])
  BY <1>1, <1>3 DEF VerdictOf
<1> QED
  BY <1>1, <1>2, <1>5, <1>6 DEF With

-----------------------------------------------------------------------------
LEMMA InitEstablishes == Init => IInv
<1> SUFFICES ASSUME Init PROVE IInv
  OBVIOUS
<1> USE DEF Init
<1>1. policy.rules \in Seq(Rules)
  BY PoliciesAssumption
<1>2. 1 \in 1 .. (Len(policy.rules) + 1)
  BY <1>1
<1>3. closures \in [Roles -> (SUBSET Roles) \cup {None}]
  OBVIOUS
<1>4. TypeOK
  BY <1>2, <1>3 DEF TypeOK
<1>5. ClosuresAreLeast /\ Worklist /\ Compiled
  BY DEF ClosuresAreLeast, Worklist, Compiled
<1>6. Fresh /\ DeniesSeen /\ AllowsSeen /\ DecisionIsOfTheSet
  BY DEF Fresh, DeniesSeen, AllowsSeen, DecisionIsOfTheSet
<1> QED
  BY <1>4, <1>5, <1>6 DEF IInv

LEMMA TypeStep == IInv /\ [Next]_vars => TypeOK'
<1> SUFFICES ASSUME IInv, [Next]_vars PROVE TypeOK'
  OBVIOUS
<1> USE DEF IInv, TypeOK, Waiting, Scanning, Outcomes
<1>0. /\ Len(policy.rules) \in Nat
      /\ Positions = 1 .. Len(policy.rules)
  BY PositionsAreNaturals
<1>1. ASSUME UNCHANGED policy PROVE Positions' = Positions
  BY <1>1 DEF Positions
<1>2. policy.inherits \in [Roles -> SUBSET Roles]
  BY PoliciesAssumption
<1>3. CASE UNCHANGED vars
  BY <1>3, <1>1 DEF vars, compileVars, loadVars, scanVars
<1>4. CASE Compile
  <2>1. ASSUME NEW r \in Roles, Open(r) PROVE TypeOK'
    BY <2>1, <1>1 DEF Open, loadVars, scanVars
  <2>2. ASSUME NEW r \in Roles, Pop(r) PROVE TypeOK'
    BY <2>2, <1>1, <1>2 DEF Pop, Visit, loadVars, scanVars
  <2>3. CASE Close
    BY <2>3, <1>1 DEF Close, loadVars, scanVars
  <2> QED
    BY <1>4, <2>1, <2>2, <2>3 DEF Compile
<1>5. CASE Ask
  BY <1>5, <1>1 DEF Ask, compileVars, scanVars
<1>6. CASE Load
  BY <1>6, <1>1 DEF Load, PrincipalLoads, ResourceLoads, EnvLoads, LoaderThrows,
                    compileVars, loadVars, scanVars
<1>7. CASE Scan
  <2> USE DEF compileVars, loadVars, scanVars, Reasons
  <2>1. CASE Undeclared
    BY <2>1, <1>1 DEF Undeclared, Decide
  <2>2. CASE GoOn
    BY <2>2, <1>1 DEF GoOn
  <2>3. CASE DenyHolds
    BY <2>3, <1>0, <1>1 DEF DenyHolds, Decide
  <2>4. CASE DenyPasses
    BY <2>4, <1>0, <1>1 DEF DenyPasses, NoteUnresolved
  <2>5. CASE DenyUnresolved
    BY <2>5, <1>1 DEF DenyUnresolved, Decide
  <2>6. CASE NothingDenies
    BY <2>6, <1>0, <1>1 DEF NothingDenies
  <2>7. CASE AllowHolds
    BY <2>7, <1>0, <1>1 DEF AllowHolds, Decide
  <2>8. CASE AllowPasses
    BY <2>8, <1>0, <1>1 DEF AllowPasses
  <2>9. CASE NothingAllows
    BY <2>9, <1>1 DEF NothingAllows, Decide
  <2> QED
    BY <1>7, <2>1, <2>2, <2>3, <2>4, <2>5, <2>6, <2>7, <2>8, <2>9 DEF Scan
<1>8. CASE Finish
  BY <1>8, <1>1 DEF Finish, Grant, Refuse, compileVars, loadVars, scanVars
<1>9. CASE Ended
  BY <1>9, <1>3 DEF Ended
<1> QED
  BY <1>3, <1>4, <1>5, <1>6, <1>7, <1>8, <1>9 DEF Next

-----------------------------------------------------------------------------
LEMMA ClosureStep ==
  IInv /\ [Next]_vars => ClosuresAreLeast' /\ Worklist' /\ Compiled'
<1> SUFFICES ASSUME IInv, [Next]_vars
             PROVE  ClosuresAreLeast' /\ Worklist' /\ Compiled'
  OBVIOUS
<1> USE DEF IInv, TypeOK
<1>1. policy.inherits \in [Roles -> SUBSET Roles]
  BY PoliciesAssumption
<1>2. policy' = policy
  BY DEF Next, vars, Compile, Open, Pop, Close, Ask, Load, PrincipalLoads, ResourceLoads,
         EnvLoads, LoaderThrows, Scan, Undeclared, GoOn, DenyHolds, DenyPasses,
         DenyUnresolved, NothingDenies, AllowHolds, AllowPasses, NothingAllows, Decide,
         Finish, Grant, Refuse, Ended
<1>3. ASSUME NEW s PROVE Hereditary(s)' = Hereditary(s)
  BY <1>2 DEF Hereditary
<1>4. CASE \E r \in Roles : Open(r)
  <2> PICK r \in Roles : Open(r)
    BY <1>4
  <2>1. ClosuresAreLeast' /\ Compiled'
    BY <1>3 DEF Open, ClosuresAreLeast, Compiled
  <2>2. Worklist'
    BY <1>3 DEF Open, Worklist
  <2> QED
    BY <2>1, <2>2
<1>5. CASE \E r \in Roles : Pop(r)
  <2> PICK r \in Roles : Pop(r)
    BY <1>5
  <2>1. ClosuresAreLeast' /\ Compiled'
    BY <1>3 DEF Pop, ClosuresAreLeast, Compiled
  <2>2. role' = role /\ role # None /\ closures' = closures /\ role \in Roles
    BY DEF Pop
  <2>3. reached' = reached \cup {r}
    BY DEF Pop, Visit
  <2>4. \/ r \in reached /\ pending' = pending \ {r}
        \/ r \notin reached /\ pending' = (pending \ {r}) \cup policy.inherits[r]
    BY DEF Pop, Visit
  <2>5. r \in pending
    BY DEF Pop
  <2>6. /\ role \in reached \cup pending
        /\ \A x \in reached : policy.inherits[x] \subseteq reached \cup pending
        /\ \A s \in SUBSET Roles :
             role \in s /\ Hereditary(s) => reached \cup pending \subseteq s
    BY <2>2 DEF Worklist
  <2>7. \A x \in reached' : policy'.inherits[x] \subseteq reached' \cup pending'
    BY <1>2, <2>3, <2>4, <2>6
  <2>8. ASSUME NEW s \in SUBSET Roles, role \in s, Hereditary(s)
        PROVE  reached' \cup pending' \subseteq s
    BY <2>3, <2>4, <2>5, <2>6, <2>8 DEF Hereditary
  <2>9. Worklist'
    BY <1>3, <2>2, <2>3, <2>4, <2>6, <2>7, <2>8 DEF Worklist
  <2> QED
    BY <2>1, <2>9
<1>6. CASE Close
  <2>1. /\ role # None /\ role \in Roles /\ role' = None /\ pending = {}
        /\ closures' = [closures EXCEPT ![role] = reached] /\ pc' = pc
    BY <1>6 DEF Close
  <2>2. /\ role \in reached
        /\ Hereditary(reached)
        /\ \A s \in SUBSET Roles : role \in s /\ Hereditary(s) => reached \subseteq s
    BY <2>1 DEF Worklist, Hereditary
  <2>3. ClosuresAreLeast'
    <3> SUFFICES ASSUME NEW r \in Roles, closures'[r] # None
                 PROVE  /\ r \in closures'[r]
                        /\ Hereditary(closures'[r])
                        /\ \A s \in SUBSET Roles :
                             r \in s /\ Hereditary(s) => closures'[r] \subseteq s
      BY <1>2 DEF ClosuresAreLeast, Hereditary
    <3>1. CASE r = role
      BY <2>1, <2>2, <3>1
    <3>2. CASE r # role
      BY <2>1, <3>2 DEF ClosuresAreLeast
    <3> QED
      BY <3>1, <3>2
  <2>4. pc = "compile"
    BY <2>1 DEF Compiled
  <2> QED
    BY <2>1, <2>3, <2>4 DEF Worklist, Compiled
<1>7. ASSUME UNCHANGED compileVars, Ask \/ (pc = "compile" => pc' = "compile")
      PROVE  ClosuresAreLeast' /\ Worklist' /\ Compiled'
  <2>1. ClosuresAreLeast' /\ Worklist'
    BY <1>2, <1>7 DEF ClosuresAreLeast, Worklist, Hereditary, compileVars
  <2>2. Compiled'
    BY <1>7 DEF Compiled, Worklist, Ask, compileVars
  <2> QED
    BY <2>1, <2>2
<1>8. Ask \/ Load \/ Scan \/ Finish \/ Ended \/ UNCHANGED vars
        => UNCHANGED compileVars /\ (Ask \/ (pc = "compile" => pc' = "compile"))
  BY DEF Load, PrincipalLoads, ResourceLoads, EnvLoads, LoaderThrows, Ask,
         Scan, Undeclared, GoOn, DenyHolds, DenyPasses, DenyUnresolved, NothingDenies,
         AllowHolds, AllowPasses, NothingAllows, Decide, Finish, Grant, Refuse, Ended, vars
<1> QED
  BY <1>4, <1>5, <1>6, <1>7, <1>8 DEF Next, Compile

-----------------------------------------------------------------------------
\* A rule that the scan passes is not one it looks for.
LEMMA CurrentRule ==
  ASSUME TypeOK, ClosuresAreLeast, Compiled, pc # "compile",
         next <= Len(policy.rules), NEW effect, NEW verdicts
  PROVE  /\ next \in Positions
         /\ next \in With(effect, verdicts)
              <=> Matches(Current, effect) /\ VerdictOf(Current) \in verdicts
<1>1. next \in Positions
  BY PositionsAreNaturals DEF TypeOK
<1>2. Matches(Current, effect) <=> policy.rules[next].effect = effect
                                     /\ Concerns(policy.rules[next])
  BY <1>1, ScanSeesWhatConcerns DEF Compiled, Current
<1> QED
  BY <1>1, <1>2 DEF With, Current

\* While requests are loaded nothing is scanned; a decision is never revised.
LEMMA QuietStep ==
  ASSUME IInv, Compile \/ Ask \/ Load \/ GoOn \/ Finish \/ Ended \/ UNCHANGED vars
  PROVE  Fresh' /\ DeniesSeen' /\ AllowsSeen' /\ DecisionIsOfTheSet'
<1> USE DEF IInv
<1>1. ASSUME UNCHANGED << policy, loadVars, scanVars >>,
             Compile \/ LoaderThrows \/ GoOn \/ Finish \/ Ended \/ UNCHANGED vars
      PROVE  Fresh' /\ DeniesSeen' /\ AllowsSeen' /\ DecisionIsOfTheSet'
  <2>0. UNCHANGED << policy, loadVars >>
    BY <1>1
  <2>1. \A effect, verdicts : With(effect, verdicts)' = With(effect, verdicts)
    BY <2>0, WithIsSettled
  <2>2. Declared' = Declared
    BY <2>0, WithIsSettled
  <2>3. next' = next /\ unresolved' = unresolved /\ decision' = decision
    BY <1>1 DEF scanVars
  <2>4. DecisionIsOfTheSet'
    BY <2>1, <2>2, <2>3 DEF DecisionIsOfTheSet
  <2>5. CASE pc' = pc
    BY <2>1, <2>2, <2>3, <2>4, <2>5 DEF Fresh, DeniesSeen, AllowsSeen
  <2>6. CASE GoOn
    <3>1. Declared /\ pc = "declared" /\ pc' = "denies"
      BY <2>6 DEF GoOn
    <3>2. next' = 1 /\ unresolved' = None /\ decision' = None
      BY <2>3, <3>1 DEF Fresh
    <3>3. \A effect, verdicts : \A i \in With(effect, verdicts)' : i >= 1
      <4>1. \A i \in Positions : i >= 1
        BY PositionsAreNaturals
      <4>2. \A effect, verdicts : With(effect, verdicts) \subseteq Positions
        BY DEF With
      <4> QED
        BY <2>1, <4>1, <4>2
    <3>4. Fresh' /\ AllowsSeen'
      BY <3>1, <3>2 DEF Fresh, AllowsSeen, Waiting, Scanning
    <3>5. DeniesSeen'
      BY <2>2, <3>1, <3>2, <3>3 DEF DeniesSeen
    <3> QED
      BY <2>4, <3>4, <3>5
  <2>7. CASE LoaderThrows \/ Finish
    <3>1. pc' \in Outcomes
      BY <2>7 DEF LoaderThrows, Finish, Grant, Refuse, Outcomes
    <3> QED
      BY <2>4, <3>1 DEF Fresh, DeniesSeen, AllowsSeen, Outcomes, Waiting, Scanning
  <2>8. Compile \/ Ended \/ UNCHANGED vars => pc' = pc
    BY DEF Compile, Open, Pop, Close, Ended, vars
  <2> QED
    BY <1>1, <2>5, <2>6, <2>7, <2>8
<1>2. CASE Ask \/ PrincipalLoads \/ ResourceLoads \/ EnvLoads
  <2>1. /\ pc \in {"compile"} \cup Waiting
        /\ pc' \in {"declared"} \cup Waiting
        /\ UNCHANGED scanVars
    BY <1>2 DEF Ask, PrincipalLoads, ResourceLoads, EnvLoads, Waiting
  <2>2. next' = 1 /\ unresolved' = None /\ decision' = None
    BY <2>1 DEF Fresh, scanVars
  <2> QED
    BY <2>1, <2>2 DEF Fresh, DeniesSeen, AllowsSeen, DecisionIsOfTheSet, Waiting, Scanning
<1>3. Compile \/ LoaderThrows \/ GoOn \/ Finish \/ Ended \/ UNCHANGED vars
        => UNCHANGED << policy, loadVars, scanVars >>
  BY DEF Compile, Open, Pop, Close, LoaderThrows, GoOn, Finish, Grant, Refuse, Ended, vars
<1> QED
  BY <1>1, <1>2, <1>3 DEF Load

\* A scan passes over a rule, and goes on or turns to the allows.
LEMMA PassingStep ==
  ASSUME IInv, DenyPasses \/ NothingDenies \/ AllowPasses
  PROVE  Fresh' /\ DeniesSeen' /\ AllowsSeen' /\ DecisionIsOfTheSet'
<1> USE DEF IInv
<1>1. UNCHANGED << policy, loadVars >> /\ decision' = decision /\ pc \in Scanning
  BY DEF DenyPasses, NothingDenies, AllowPasses, Scanning
<1>2. /\ \A effect, verdicts : With(effect, verdicts)' = With(effect, verdicts)
      /\ Declared' = Declared
  BY <1>1, WithIsSettled
<1>3. decision' = None
  BY <1>1 DEF Fresh
<1>4. /\ Len(policy.rules) \in Nat /\ Positions = 1 .. Len(policy.rules)
      /\ next \in 1 .. (Len(policy.rules) + 1)
  BY PositionsAreNaturals DEF TypeOK
<1>5. \A effect, verdicts : With(effect, verdicts) \subseteq Positions
  BY DEF With
<1>6. pc' \in Scanning
  BY DEF DenyPasses, NothingDenies, AllowPasses, Scanning
<1>7. Fresh' /\ DecisionIsOfTheSet'
  BY <1>3, <1>6 DEF Fresh, DecisionIsOfTheSet, Scanning, Waiting
<1>8. CASE DenyPasses
  <2>0. /\ With("deny", {"true"})' = With("deny", {"true"})
        /\ With("deny", {"unknown"})' = With("deny", {"unknown"})
        /\ Declared' /\ Declared
    BY <1>2, <1>8 DEF DeniesSeen, DenyPasses
  <2>1. /\ pc = "denies" /\ pc' = "denies" /\ next' = next + 1
        /\ next <= Len(policy.rules) /\ unresolved' = NoteUnresolved
        /\ ~(Matches(Current, "deny") /\ VerdictOf(Current) = "true")
    BY <1>8 DEF DenyPasses
  <2>2. next \notin With("deny", {"true"})
    BY <2>1, CurrentRule
  <2>3. next \in With("deny", {"unknown"})
          <=> Matches(Current, "deny") /\ VerdictOf(Current) = "unknown"
    BY <2>1, CurrentRule
  <2>4. \A i \in With("deny", {"true"}) : i >= next'
    BY <1>4, <1>5, <2>1, <2>2 DEF DeniesSeen
  <2>5. CASE unresolved = None
    <3>1. \A i \in With("deny", {"unknown"}) : i >= next
      BY <2>1, <2>5 DEF DeniesSeen
    <3>2. CASE next \in With("deny", {"unknown"})
      <4>1. unresolved' = next /\ unresolved' # None
        BY <1>4, <2>1, <2>3, <2>5, <3>2, NoneIsNoPosition DEF NoteUnresolved
      <4>2. \A i \in With("deny", {"unknown"}) : next <= i
        BY <1>4, <1>5, <3>1
      <4> QED
        BY <1>7, <2>0, <2>1, <2>4, <3>2, <4>1, <4>2 DEF DeniesSeen, AllowsSeen
    <3>3. CASE next \notin With("deny", {"unknown"})
      <4>1. unresolved' = None
        BY <2>1, <2>3, <2>5, <3>3 DEF NoteUnresolved
      <4>2. \A i \in With("deny", {"unknown"}) : i >= next'
        BY <1>4, <1>5, <2>1, <3>1, <3>3
      <4> QED
        BY <1>7, <2>0, <2>1, <2>4, <4>1, <4>2 DEF DeniesSeen, AllowsSeen
    <3> QED
      BY <3>2, <3>3
  <2>6. CASE unresolved # None
    <3>1. unresolved' = unresolved
      BY <2>1, <2>6 DEF NoteUnresolved
    <3> QED
      BY <1>7, <2>0, <2>1, <2>4, <2>6, <3>1 DEF DeniesSeen, AllowsSeen
  <2> QED
    BY <2>5, <2>6
<1>9. CASE NothingDenies
  <2>1. /\ pc = "denies" /\ pc' = "allows" /\ next' = 1
        /\ next > Len(policy.rules) /\ unresolved = None
    BY <1>9 DEF NothingDenies
  <2>2. With("deny", {"true"}) = {} /\ With("deny", {"unknown"}) = {}
    BY <1>4, <1>5, <2>1 DEF DeniesSeen
  <2>3. With("deny", {"true", "unknown"}) = {}
    BY <2>2 DEF With
  <2>4. \A i \in With("allow", {"true"}) : i >= 1
    BY <1>4, <1>5
  <2> QED
    BY <1>2, <1>7, <2>1, <2>3, <2>4 DEF DeniesSeen, AllowsSeen
<1>10. CASE AllowPasses
  <2>1. /\ pc = "allows" /\ pc' = "allows" /\ next' = next + 1
        /\ next <= Len(policy.rules)
        /\ ~(Matches(Current, "allow") /\ VerdictOf(Current) = "true")
    BY <1>10 DEF AllowPasses
  <2>2. next \notin With("allow", {"true"})
    BY <2>1, CurrentRule
  <2>3. \A i \in With("allow", {"true"}) : i >= next'
    BY <1>4, <1>5, <2>1, <2>2 DEF AllowsSeen
  <2> QED
    BY <1>2, <1>7, <2>1, <2>3 DEF DeniesSeen, AllowsSeen
<1> QED
  BY <1>8, <1>9, <1>10

\* What is decided, and on what account.
LEMMA DecidingStep ==
  ASSUME IInv,
         Undeclared \/ DenyHolds \/ DenyUnresolved \/ AllowHolds \/ NothingAllows
  PROVE  Fresh' /\ DeniesSeen' /\ AllowsSeen' /\ DecisionIsOfTheSet'
<1> USE DEF IInv
<1>1. UNCHANGED << policy, loadVars >> /\ pc' = "decided"
  BY DEF Undeclared, DenyHolds, DenyUnresolved, AllowHolds, NothingAllows, Decide
<1>2. /\ \A effect, verdicts : With(effect, verdicts)' = With(effect, verdicts)
      /\ Declared' = Declared
  BY <1>1, WithIsSettled
<1>3. /\ Len(policy.rules) \in Nat /\ Positions = 1 .. Len(policy.rules)
      /\ Positions \subseteq Nat
      /\ next \in 1 .. (Len(policy.rules) + 1)
  BY PositionsAreNaturals DEF TypeOK
<1>4. \A effect, verdicts : /\ With(effect, verdicts) \subseteq Positions
                             /\ With(effect, verdicts) \in SUBSET Nat
  BY <1>3 DEF With
<1>5. Fresh' /\ DeniesSeen' /\ AllowsSeen'
  BY <1>1 DEF Fresh, DeniesSeen, AllowsSeen, Waiting, Scanning
<1>6. With("deny", {"true", "unknown"}) = With("deny", {"true"}) \cup With("deny", {"unknown"})
  BY DEF With
<1>7. SUFFICES
        /\ decision'.allowed <=> /\ Declared
                                 /\ With("deny", {"true", "unknown"}) = {}
                                 /\ With("allow", {"true"}) # {}
        /\ decision'.allowed => decision'.rule = First(With("allow", {"true"}))
        /\ Declared /\ With("deny", {"true"}) # {} =>
             /\ decision'.reason = "explicit_deny"
             /\ decision'.rule = First(With("deny", {"true"}))
        /\ Declared /\ With("deny", {"true"}) = {} /\ With("deny", {"unknown"}) # {} =>
             /\ decision'.reason = "unresolved_deny"
             /\ decision'.rule = First(With("deny", {"unknown"}))
  BY <1>2, <1>5 DEF DecisionIsOfTheSet
<1>8. CASE Undeclared
  BY <1>8 DEF Undeclared, Decide
<1>9. CASE DenyHolds
  <2>1. /\ decision' = [allowed |-> FALSE, reason |-> "explicit_deny", rule |-> next]
        /\ Declared /\ \A i \in With("deny", {"true"}) : i >= next
        /\ next \in With("deny", {"true"})
    BY <1>9, CurrentRule DEF DenyHolds, Decide, DeniesSeen
  <2>2. First(With("deny", {"true"})) = next
    BY <1>3, <1>4, <2>1, FirstIsLeast
  <2> QED
    BY <1>6, <2>1, <2>2
<1>10. CASE DenyUnresolved
  <2>1. /\ decision' = [allowed |-> FALSE, reason |-> "unresolved_deny", rule |-> unresolved]
        /\ Declared /\ \A i \in With("deny", {"true"}) : i >= next
        /\ unresolved \in With("deny", {"unknown"})
        /\ \A i \in With("deny", {"unknown"}) : unresolved <= i
        /\ next > Len(policy.rules)
    BY <1>10 DEF DenyUnresolved, Decide, DeniesSeen
  <2>2. With("deny", {"true"}) = {}
    BY <1>3, <1>4, <2>1
  <2>3. First(With("deny", {"unknown"})) = unresolved
    BY <1>4, <2>1, FirstIsLeast
  <2> QED
    BY <1>6, <2>1, <2>2, <2>3
<1>11. CASE AllowHolds
  <2>1. /\ decision' = [allowed |-> TRUE, reason |-> "allowed", rule |-> next]
        /\ Declared /\ With("deny", {"true", "unknown"}) = {}
        /\ \A i \in With("allow", {"true"}) : i >= next
        /\ next \in With("allow", {"true"})
    BY <1>11, CurrentRule DEF AllowHolds, Decide, AllowsSeen
  <2>2. First(With("allow", {"true"})) = next
    BY <1>3, <1>4, <2>1, FirstIsLeast
  <2> QED
    BY <1>6, <2>1, <2>2
<1>12. CASE NothingAllows
  <2>1. /\ decision' = [allowed |-> FALSE, reason |-> "no_matching_rule", rule |-> None]
        /\ With("deny", {"true", "unknown"}) = {}
        /\ \A i \in With("allow", {"true"}) : i >= next
        /\ next > Len(policy.rules)
    BY <1>12 DEF NothingAllows, Decide, AllowsSeen
  <2>2. With("allow", {"true"}) = {}
    BY <1>3, <1>4, <2>1
  <2> QED
    BY <1>6, <2>1, <2>2
<1> QED
  BY <1>8, <1>9, <1>10, <1>11, <1>12

LEMMA ScanStep ==
  IInv /\ [Next]_vars => Fresh' /\ DeniesSeen' /\ AllowsSeen' /\ DecisionIsOfTheSet'
<1> SUFFICES ASSUME IInv, [Next]_vars
             PROVE  Fresh' /\ DeniesSeen' /\ AllowsSeen' /\ DecisionIsOfTheSet'
  OBVIOUS
<1>1. CASE Compile \/ Ask \/ Load \/ GoOn \/ Finish \/ Ended \/ UNCHANGED vars
  BY <1>1, QuietStep
<1>2. CASE DenyPasses \/ NothingDenies \/ AllowPasses
  BY <1>2, PassingStep
<1>3. CASE Undeclared \/ DenyHolds \/ DenyUnresolved \/ AllowHolds \/ NothingAllows
  BY <1>3, DecidingStep
<1> QED
  BY <1>1, <1>2, <1>3 DEF Next, Scan

-----------------------------------------------------------------------------
\* The invariant holds in every reachable state, for any roles, rules and
\* conditions, and whatever loaders return.
THEOREM Inductive == Spec => []IInv
<1>1. IInv /\ [Next]_vars => IInv'
  BY TypeStep, ClosureStep, ScanStep DEF IInv
<1> QED
  BY InitEstablishes, <1>1, PTL DEF Spec

\* Every variable keeps its shape: loaded roots come from the loaders, and a
\* decision credits a rule of the policy or none.
THEOREM TypeCorrect == Spec => []TypeOK
<1>1. IInv => TypeOK
  BY DEF IInv
<1> QED
  BY Inductive, <1>1, PTL

\* buildRoleClosures is right for every role graph, cycles included, and in
\* whatever order it visits the roles.
THEOREM ClosuresAreRight == Spec => []ClosuresAreLeast
<1>1. IInv => ClosuresAreLeast
  BY DEF IInv
<1> QED
  BY Inductive, <1>1, PTL

\* decide answers by the set of the rules that concern the request, for every
\* policy and every request: deny overrides, a deny that is unknown too, and
\* nothing but a definite allow grants.
THEOREM RulesAreASet == Spec => []DecisionIsOfTheSet
<1>1. IInv => DecisionIsOfTheSet
  BY DEF IInv
<1> QED
  BY Inductive, <1>1, PTL

-----------------------------------------------------------------------------
(***************************************************************************)
(* Conditions.  EvaluateCondition computes, level by level, what every     *)
(* condition comes to: IsEvaluation(n, f, e) says that f is that for n     *)
(* levels.  There is one for every number of levels.                       *)
(***************************************************************************)

Level(f, n, e) ==
  [c \in Forms |-> IF n = 0 THEN "unknown" ELSE EvaluateNode(c, f[n - 1], e)]

IsEvaluation(n, f, e) == f = [m \in 0 .. n |-> Level(f, m, e)]

(* One level is what the level below makes of it.                          *)
LEMMA LevelsAt ==
  ASSUME NEW n \in Nat, NEW f, NEW e, IsEvaluation(n, f, e), NEW m \in 0 .. n
  PROVE  f[m] = Level(f, m, e)
BY DEF IsEvaluation

LEMMA EvaluationExists ==
  ASSUME NEW e
  PROVE  \A n \in Nat : \E f : IsEvaluation(n, f, e)
<1> DEFINE S == {n \in Nat : \E f : IsEvaluation(n, f, e)}
<1>1. 0 \in S
  <2> DEFINE f == [m \in 0 .. 0 |-> [c \in Forms |-> "unknown"]]
  <2>1. \A m \in 0 .. 0 : m = 0
    OBVIOUS
  <2>2. f = [m \in 0 .. 0 |-> Level(f, m, e)]
    BY <2>1 DEF Level
  <2> QED BY <2>2 DEF IsEvaluation
<1>2. ASSUME NEW n \in Nat, n \in S PROVE n + 1 \in S
  <2>1. PICK f : IsEvaluation(n, f, e)
    BY <1>2
  <2> DEFINE g == [m \in 0 .. n + 1 |-> IF m = n + 1 THEN Level(f, m, e) ELSE f[m]]
  <2>2. ASSUME NEW m \in 0 .. n + 1 PROVE g[m] = Level(g, m, e)
    <3>1. Level(g, m, e) = Level(f, m, e)
      <4>1. CASE m = 0
        BY <4>1 DEF Level
      <4>2. CASE m # 0
        <5>1. g[m - 1] = f[m - 1]
          BY <4>2
        <5> HIDE DEF g
        <5> QED BY <5>1 DEF Level
      <4> QED BY <4>1, <4>2
    <3>2. CASE m = n + 1
      BY <3>1, <3>2
    <3>3. CASE m # n + 1
      <4>1. m \in 0 .. n
        BY <3>3
      <4>2. f[m] = Level(f, m, e)
        BY <2>1, <4>1, LevelsAt
      <4> QED BY <3>1, <3>3, <4>2
    <3> QED BY <3>2, <3>3
  <2>3. g = [m \in 0 .. n + 1 |-> g[m]]
    OBVIOUS
  <2>4. IsEvaluation(n + 1, g, e)
    <3> HIDE DEF g
    <3> QED BY <2>2, <2>3 DEF IsEvaluation
  <2> QED BY <2>4
<1>3. Nat \subseteq S
  <2> HIDE DEF S
  <2> QED BY <1>1, <1>2, NatSetInduction
<1> QED BY <1>3

Evaluation(e) == CHOOSE f : IsEvaluation(MaxDepth, f, e)

LEMMA EvaluateIsEvaluation ==
  ASSUME NEW c, NEW e
  PROVE  /\ EvaluateCondition(c, e) = Evaluation(e)[MaxDepth][c]
         /\ IsEvaluation(MaxDepth, Evaluation(e), e)
<1>1. EvaluateCondition(c, e) = Evaluation(e)[MaxDepth][c]
  BY DEF EvaluateCondition, Evaluation, IsEvaluation, Level
<1>2. \E f : IsEvaluation(MaxDepth, f, e)
  BY EvaluationExists, MaxDepthAssumption
<1> QED BY <1>1, <1>2 DEF Evaluation

-----------------------------------------------------------------------------
(* Knowing more.  A verdict that is not unknown stays what it is when one  *)
(* more root is supplied.                                                  *)

Stands(verdict, other) == verdict \in Ternary /\ (verdict # "unknown" => other = verdict)

(* `e` has, of each root, nothing or what `full` has.                      *)
Completes(full, e) ==
  /\ DOMAIN full = DOMAIN e
  /\ \A x \in DOMAIN e : e[x] = None \/ e[x] = full[x]

(* The verdicts of a list of operands, and what they become.               *)
Follows(V, W) ==
  /\ \A v \in V : \E w \in W : Stands(v, w)
  /\ \A w \in W : \E v \in V : Stands(v, w)

LEMMA ConjoinStands ==
  ASSUME NEW V, NEW W, Follows(V, W)
  PROVE  Stands(Conjoin(V), Conjoin(W))
<1>1. V \subseteq Ternary
  BY DEF Follows, Stands
<1>2. CASE "false" \in V
  <2>1. "false" \in W
    BY <1>2 DEF Follows, Stands
  <2> QED BY <1>2, <2>1 DEF Conjoin, Stands, Ternary
<1>3. CASE "false" \notin V /\ "unknown" \in V
  BY <1>3 DEF Conjoin, Stands, Ternary
<1>4. CASE "false" \notin V /\ "unknown" \notin V
  <2>1. \A v \in V : v = "true"
    BY <1>1, <1>4 DEF Ternary
  <2>2. \A w \in W : w = "true"
    BY <2>1 DEF Follows, Stands
  <2>3. V \cap {"false", "unknown"} = {} /\ W \cap {"false", "unknown"} = {}
    BY <2>1, <2>2
  <2> QED BY <2>3 DEF Conjoin, Stands, Ternary
<1> QED BY <1>2, <1>3, <1>4

LEMMA DisjoinStands ==
  ASSUME NEW V, NEW W, Follows(V, W)
  PROVE  Stands(Disjoin(V), Disjoin(W))
<1>1. V \subseteq Ternary
  BY DEF Follows, Stands
<1>2. CASE "true" \in V
  <2>1. "true" \in W
    BY <1>2 DEF Follows, Stands
  <2> QED BY <1>2, <2>1 DEF Disjoin, Stands, Ternary
<1>3. CASE "true" \notin V /\ "unknown" \in V
  BY <1>3 DEF Disjoin, Stands, Ternary
<1>4. CASE "true" \notin V /\ "unknown" \notin V
  <2>1. \A v \in V : v = "false"
    BY <1>1, <1>4 DEF Ternary
  <2>2. \A w \in W : w = "false"
    BY <2>1 DEF Follows, Stands
  <2>3. V \cap {"true", "unknown"} = {} /\ W \cap {"true", "unknown"} = {}
    BY <2>1, <2>2
  <2> QED BY <2>3 DEF Disjoin, Stands, Ternary
<1> QED BY <1>2, <1>3, <1>4

LEMMA NegateStands ==
  ASSUME NEW verdict, NEW other, Stands(verdict, other)
  PROVE  Stands(Negate(verdict), Negate(other))
BY DEF Stands, Negate, Ternary

(* What is not supplied is unresolved, and answers nothing.                *)
LEMMA CompareStands ==
  ASSUME NEW c, NEW e, NEW full, Completes(full, e)
  PROVE  Stands(Compare(c, e), Compare(c, full))
<1>1. ASSUME NEW path
      PROVE  ResolvePath(e, path) = Throws \/ ResolvePath(e, path) = ResolvePath(full, path)
  BY DEF ResolvePath, Completes
<1>2. CASE c.do \in {"exists", "notExists"}
  <2>1. Stands(ApplyExists(c.do, ResolvePath(e, c.path)), ApplyExists(c.do, ResolvePath(full, c.path)))
    BY <1>1 DEF ApplyExists, FromBoolean, Stands, Ternary
  <2> QED BY <1>2, <2>1 DEF Compare
<1>3. CASE c.do \notin {"exists", "notExists"}
  <2>1. ASSUME NEW l, NEW r PROVE ApplyBinary(c.do, l, r) \in Ternary
    BY DEF ApplyBinary, FromBoolean, Ternary
  <2>2. ASSUME NEW l, NEW r, l = Throws \/ r = Throws PROVE ApplyBinary(c.do, l, r) = "unknown"
    BY <2>2 DEF ApplyBinary
  <2>3. PICK l, r, l1, r1 :
          /\ l = ResolvePath(e, c.path) /\ l1 = ResolvePath(full, c.path)
          /\ r = (IF c.ref = None THEN c.value ELSE ResolvePath(e, c.ref))
          /\ r1 = (IF c.ref = None THEN c.value ELSE ResolvePath(full, c.ref))
    OBVIOUS
  <2>4. Compare(c, e) = ApplyBinary(c.do, l, r) /\ Compare(c, full) = ApplyBinary(c.do, l1, r1)
    BY <1>3, <2>3 DEF Compare
  <2>5. l = Throws \/ r = Throws \/ (l = l1 /\ r = r1)
    BY <1>1, <2>3
  <2> QED BY <2>1, <2>2, <2>4, <2>5 DEF Stands
<1> QED BY <1>2, <1>3

LEMMA NodeStands ==
  ASSUME NEW c \in Forms, NEW e, NEW full, Completes(full, e), NEW f, NEW g,
         \A o \in Forms : Stands(f[o], g[o])
  PROVE  Stands(EvaluateNode(c, f, e), EvaluateNode(c, g, full))
<1>1. CASE c.do = "all" /\ c.of # {}
  <2>1. \A o \in c.of : Stands(f[o], g[o])
    BY <1>1, FormsHaveTheirParts
  <2>2. PICK V, W : V = {f[o] : o \in c.of} /\ W = {g[o] : o \in c.of}
    OBVIOUS
  <2>3. Follows(V, W)
    BY <2>1, <2>2 DEF Follows
  <2>4. Stands(Conjoin(V), Conjoin(W))
    BY <2>3, ConjoinStands
  <2>5. /\ EvaluateNode(c, f, e) = Conjoin({f[o] : o \in c.of})
        /\ EvaluateNode(c, g, full) = Conjoin({g[o] : o \in c.of})
    BY <1>1, Zenon DEF EvaluateNode
  <2> QED BY <2>2, <2>4, <2>5
<1>2. CASE c.do = "any" /\ c.of # {}
  <2>1. \A o \in c.of : Stands(f[o], g[o])
    BY <1>2, FormsHaveTheirParts
  <2>2. PICK V, W : V = {f[o] : o \in c.of} /\ W = {g[o] : o \in c.of}
    OBVIOUS
  <2>3. Follows(V, W)
    BY <2>1, <2>2 DEF Follows
  <2>4. Stands(Disjoin(V), Disjoin(W))
    BY <2>3, DisjoinStands
  <2>5. /\ EvaluateNode(c, f, e) = Disjoin({f[o] : o \in c.of})
        /\ EvaluateNode(c, g, full) = Disjoin({g[o] : o \in c.of})
    BY <1>2, Zenon DEF EvaluateNode
  <2> QED BY <2>2, <2>4, <2>5
<1>3. CASE c.do \in {"all", "any"} /\ c.of = {}
  BY <1>3 DEF EvaluateNode, Stands, Ternary
<1>4. CASE c.do = "not"
  <2>1. Stands(f[c.of], g[c.of])
    BY <1>4, FormsHaveTheirParts
  <2>2. Stands(Negate(f[c.of]), Negate(g[c.of]))
    BY <2>1, NegateStands
  <2> QED BY <1>4, <2>2 DEF EvaluateNode
<1>5. CASE c.do \notin {"all", "any", "not"}
  BY <1>5, CompareStands DEF EvaluateNode
<1> QED BY <1>1, <1>2, <1>3, <1>4, <1>5

(* However conditions nest: a verdict that is known stands, whatever the   *)
(* roots are that were not supplied.                                       *)
LEMMA VerdictStands ==
  ASSUME NEW c \in Forms, NEW e, NEW full, Completes(full, e)
  PROVE  Stands(EvaluateCondition(c, e), EvaluateCondition(c, full))
<1>1. PICK f, g : f = Evaluation(e) /\ g = Evaluation(full)
  OBVIOUS
<1>2. IsEvaluation(MaxDepth, f, e) /\ IsEvaluation(MaxDepth, g, full)
  BY <1>1, EvaluateIsEvaluation
<1> DEFINE S == {n \in Nat : n \in 0 .. MaxDepth =>
                               \A o \in Forms : Stands(f[n][o], g[n][o])}
<1>3. 0 \in S
  <2>1. 0 \in 0 .. MaxDepth
    BY MaxDepthAssumption
  <2>2. f[0] = Level(f, 0, e) /\ g[0] = Level(g, 0, full)
    BY <1>2, <2>1, LevelsAt, MaxDepthAssumption
  <2> QED BY <2>2 DEF Level, Stands, Ternary
<1>4. ASSUME NEW n \in Nat, n \in S PROVE n + 1 \in S
  <2> SUFFICES ASSUME n + 1 \in 0 .. MaxDepth, NEW o \in Forms
               PROVE  Stands(f[n + 1][o], g[n + 1][o])
    OBVIOUS
  <2>1. n \in 0 .. MaxDepth /\ n + 1 # 0 /\ (n + 1) - 1 = n
    BY MaxDepthAssumption
  <2>2. \A p \in Forms : Stands(f[n][p], g[n][p])
    BY <1>4, <2>1
  <2>3. f[n + 1] = Level(f, n + 1, e) /\ g[n + 1] = Level(g, n + 1, full)
    BY <1>2, LevelsAt, MaxDepthAssumption
  <2>4. f[n + 1][o] = EvaluateNode(o, f[n], e) /\ g[n + 1][o] = EvaluateNode(o, g[n], full)
    BY <2>1, <2>3 DEF Level
  <2> QED BY <2>2, <2>4, NodeStands
<1>5. Nat \subseteq S
  <2> HIDE DEF S
  <2> QED BY <1>3, <1>4, NatSetInduction
<1>6. MaxDepth \in 0 .. MaxDepth /\ MaxDepth \in Nat
  BY MaxDepthAssumption
<1>7. Stands(f[MaxDepth][c], g[MaxDepth][c])
  BY <1>5, <1>6
<1> QED BY <1>1, <1>7, EvaluateIsEvaluation

-----------------------------------------------------------------------------
(* A grant has its decision behind it, and that one found an allow and no  *)
(* deny.                                                                   *)

Enforced ==
  /\ pc \in {"decided", "granted"} /\ decision.allowed =>
       /\ With("deny", {"true", "unknown"}) = {}
       /\ With("allow", {"true"}) # {}
  /\ pc = "granted" => decision.allowed

LEMMA EnforcedStep ==
  ASSUME IInv, Enforced, [Next]_vars
  PROVE  Enforced'
<1>1. ASSUME UNCHANGED << policy, loadVars >>, NEW effect, NEW verdicts
      PROVE  With(effect, verdicts)' = With(effect, verdicts)
  BY <1>1, WithIsSettled
<1>2. CASE Compile \/ Ask \/ Load \/ GoOn \/ DenyPasses \/ NothingDenies \/ AllowPasses
  BY <1>2 DEF Compile, Open, Pop, Close, Ask, Load, PrincipalLoads, ResourceLoads, EnvLoads,
     LoaderThrows, GoOn, DenyPasses, NothingDenies, AllowPasses, Enforced, IInv, Worklist,
     Compiled
<1>3. CASE Undeclared \/ DenyHolds \/ DenyUnresolved \/ NothingAllows
  <2>1. pc' = "decided" /\ decision'.allowed = FALSE
    BY <1>3 DEF Undeclared, DenyHolds, DenyUnresolved, NothingAllows, Decide
  <2> QED BY <2>1 DEF Enforced
<1>4. CASE AllowHolds
  <2>1. /\ With("deny", {"true", "unknown"}) = {}
        /\ next \in With("allow", {"true"})
    BY <1>4, CurrentRule DEF AllowHolds, AllowsSeen, IInv
  <2>2. /\ With("deny", {"true", "unknown"})' = With("deny", {"true", "unknown"})
        /\ With("allow", {"true"})' = With("allow", {"true"})
        /\ pc' = "decided"
    BY <1>4, WithIsSettled DEF AllowHolds, Decide
  <2> QED BY <2>1, <2>2 DEF Enforced
<1>5. CASE Finish \/ Ended \/ UNCHANGED vars
  <2>1. /\ UNCHANGED << policy, loadVars, decision >>
        /\ pc' \in {"decided", "granted"} => pc \in {"decided", "granted"}
        /\ pc' = "granted" /\ pc # "granted" => decision.allowed
    BY <1>5 DEF Finish, Grant, Refuse, Ended, vars, compileVars, loadVars, scanVars
  <2>2. /\ With("deny", {"true", "unknown"})' = With("deny", {"true", "unknown"})
        /\ With("allow", {"true"})' = With("allow", {"true"})
    BY <2>1, WithIsSettled
  <2> QED BY <2>1, <2>2 DEF Enforced
<1> QED BY <1>2, <1>3, <1>4, <1>5 DEF Next, Scan

\* With more roots supplied, each rule's verdict stands if it was known.
LEMMA RuleStands ==
  ASSUME TypeOK, NEW i \in Positions,
         NEW res \in Supplied(resource, Resources), NEW environs \in Supplied(env, Envs)
  PROVE  Stands(VerdictOf(policy.rules[i]), VerdictWith(policy.rules[i], res, environs))
<1> DEFINE rule == policy.rules[i]
           full == [Environment EXCEPT !.resource = res, !.env = environs]
<1>1. policy.rules \in Seq(Rules)
  BY PoliciesAssumption DEF TypeOK
<1>2. rule.when \in Forms \cup {None}
  <2>1. rule \in Rules
    BY <1>1 DEF Positions
  <2> QED BY <2>1 DEF Rules
<1>3. Completes(full, Environment)
  <2>1. /\ DOMAIN Environment = {"principal", "resource", "env"}
        /\ Environment.resource = resource /\ Environment.env = env
    BY DEF Environment
  <2>2. /\ DOMAIN full = DOMAIN Environment
        /\ \A x \in DOMAIN Environment :
             full[x] = CASE x = "env" -> environs [] x = "resource" -> res
                         [] OTHER -> Environment[x]
    BY <2>1
  <2>3. /\ resource = None \/ resource = res
        /\ env = None \/ env = environs
    BY DEF Supplied
  <2> HIDE DEF full
  <2> QED BY <2>1, <2>2, <2>3 DEF Completes
<1>4. CASE rule.when = None
  BY <1>4 DEF VerdictOf, VerdictWith, Stands, Ternary
<1>5. CASE rule.when # None
  <2>1. Stands(EvaluateCondition(rule.when, Environment), EvaluateCondition(rule.when, full))
    BY <1>2, <1>3, <1>5, VerdictStands
  <2> QED BY <1>5, <2>1 DEF VerdictOf, VerdictWith
<1> QED BY <1>4, <1>5

LEMMA GrantsStand ==
  ASSUME IInv, Enforced
  PROVE  IgnoranceNeverGrants
<1> SUFFICES ASSUME pc = "granted",
                    NEW res \in Supplied(resource, Resources),
                    NEW environs \in Supplied(env, Envs)
             PROVE  AllowedWith(res, environs)
  BY DEF IgnoranceNeverGrants
<1>1. With("deny", {"true", "unknown"}) = {} /\ With("allow", {"true"}) # {}
  BY DEF Enforced
<1>2. ASSUME NEW i \in Positions
      PROVE  Stands(VerdictOf(policy.rules[i]), VerdictWith(policy.rules[i], res, environs))
  BY <1>2, RuleStands DEF IInv
<1>3. ASSUME NEW i \in With("deny", Ternary)
      PROVE  VerdictWith(policy.rules[i], res, environs) = "false"
  <2>1. i \in Positions /\ VerdictOf(policy.rules[i]) \notin {"true", "unknown"}
    BY <1>1, <1>3 DEF With
  <2> QED BY <1>2, <2>1 DEF Stands, Ternary
<1>4. PICK i \in With("allow", {"true"}) : TRUE
  BY <1>1
<1>5. i \in Positions /\ VerdictOf(policy.rules[i]) = "true"
  BY DEF With
<1>6. /\ i \in With("allow", Ternary)
      /\ VerdictWith(policy.rules[i], res, environs) = "true"
  BY <1>2, <1>5 DEF With, Stands, Ternary
<1> QED BY <1>3, <1>6 DEF AllowedWith

\* A request that is granted without its resource, or without its environment,
\* would be granted with every one there is: for all conditions, however deep
\* they nest, and for all policies.
THEOREM NothingUnknownGrants == Spec => []IgnoranceNeverGrants
<1>1. Init => Enforced
  BY DEF Init, Enforced
<1>2. IInv /\ Enforced /\ [Next]_vars => Enforced'
  BY EnforcedStep
<1>3. IInv /\ Enforced => IgnoranceNeverGrants
  BY GrantsStand
<1> QED
  BY Inductive, <1>1, <1>2, <1>3, PTL DEF Spec
=============================================================================
