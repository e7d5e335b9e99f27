------------------------------ MODULE MCService ------------------------------
(***************************************************************************)
(* One service for TLC: its lifecycle (ServiceLifecycleProps), its server  *)
(* (HttpServer), the logins it serves (LoginsProps), the calls it makes in *)
(* one go (Calls), and the correlation identifiers of the page it serves   *)
(* (Correlation).  The five share no state, so one of them moves and the   *)
(* others wait where they begin.                                           *)
(***************************************************************************)
EXTENDS MCServiceLifecycle, HttpServer, LoginsProps, Calls, Correlation

VARIABLE part  \* the one that moves

serviceVars == << vars, serverVars, loginsState, call, correlationVars, part >>

-----------------------------------------------------------------------------
(* Logins.                                                                 *)

MCParams == [memoryCost |-> 3, timeCost |-> 2]

Target == MCParams @@ DefaultArgon2Params
Weaker == [Target EXCEPT !.timeCost = 1]
Current == Digest(Argon2id, Version13, Target, "right")
Garbage == [Current EXCEPT !.phc = FALSE]
Truncated == [Current EXCEPT !.usable = FALSE]
Unknown == [Current EXCEPT !.id = "argon2x"]
Bcrypt == [Digest("2b", None, Target, "right") EXCEPT !.usable = FALSE]

\* No such user, rows that cannot be read, rows to be upgraded, the target.
MCRows ==
  {None, Garbage, Bcrypt, Unknown, Truncated, Current, Digest(Argon2id, Version13, Weaker, "right"),
   Digest("argon2i", Version13, Target, "right")}

MCBodies == {[text |-> t, bytes |-> 8] : t \in {"right", "wrong"}}
              \cup {[text |-> "long", bytes |-> MaxPasswordBytes + 1]}

\* No liveness property, and no fairness, is about a login.
MCSymmetry == Permutations(Callers)

-----------------------------------------------------------------------------
(* The environment.                                                        *)

Raw(text, halves, word, scheme, wrong) ==
  [text |-> text, halves |-> halves, word |-> word, scheme |-> scheme,
   wrongFor |-> [p \in {"string", "number", "port", "boolean", "url", "enum"} |-> p \in wrong]]

MCRaws ==
  {Raw("", None, None, None, {}),
   Raw("8080", 16160, "8080", None, {"boolean", "url", "enum", "number"}),
   Raw("65536", 131072, "65536", None, {"boolean", "url", "enum", "number", "port"}),
   Raw("2.5", 5, "2.5", None, {"boolean", "url", "enum", "port"}),
   Raw(" YES", None, "yes", None, {"number", "port", "url", "enum"}),
   Raw("postgres://db", None, "postgres://db", "postgres", {"number", "port", "boolean", "enum"}),
   Raw("http://db", None, "http://db", "http", {"number", "port", "boolean", "enum", "url"}),
   Raw("fast", None, "fast", None, {"number", "port", "boolean", "url"})}

Numeric == [is |-> "number", options |-> [integer |-> FALSE, min |-> 2, max |-> 20]]

MCSpecs ==
  {[PORT |-> Default(Required([is |-> "port"]), 6000),
    DB |-> Required([is |-> "url", protocols |-> {"postgres"}])],
   [DEBUG |-> Optional(Required([is |-> "boolean"])),
    RATE |-> Optional(Default(Required(Numeric), 4))],
   [MODE |-> Required([is |-> "enum", values |-> {"fast", "slow"}]),
    NAME |-> Required([is |-> "string"])]}

\* Two variables at most are set.
MCSources ==
  {[v \in {p[1], q[1]} |-> IF v = p[1] THEN p[2] ELSE q[2]] :
     p, q \in {"PORT", "DEBUG", "MODE", "DB", "RATE", "NAME"} \X MCRaws}

ASSUME ReadAsMeant ==
  \A raw \in MCRaws, parser \in UNION {{s[v].parser : v \in DOMAIN s} : s \in MCSpecs} :
    raw.text # "" => (raw.wrongFor[parser.is] <=> Parse(parser, raw) = Invalid)

-----------------------------------------------------------------------------
(* Policies: a good one, and one or two edits of it.                       *)

MCTexts ==
  {"", "*", "read", "write", "post", "admin", "member", "nobody", "allow", "deny", "permit", "r1",
   "r2", "in", "eq", "exists", "equals", "draft", "__proto__", "principal", "principal.id",
   "principal.", "subject.id", "resource.owner", "resource.__proto__.id"}

MCSplit ==
  [s \in MCTexts |->
     CASE s = "principal.id" -> << "principal", "id" >>
       [] s = "principal." -> << "principal", "" >>
       [] s = "subject.id" -> << "subject", "id" >>
       [] s = "resource.owner" -> << "resource", "owner" >>
       [] s = "resource.__proto__.id" -> << "resource", "__proto__", "id" >>
       [] OTHER -> << s >>]

Texts(list) == ListOf([i \in DOMAIN list |-> Text(list[i])])
Leaf(path, op) == [path |-> Text(path), op |-> Text(op)]
Present == Record(Leaf("principal.id", "exists"))

MCGood ==
  Record([
    actions |-> Texts(<< "read", "write" >>),
    subjects |-> Texts(<< "post" >>),
    roles |-> Record([admin |-> Texts(<< "member" >>), member |-> ListOf(<< >>)]),
    rules |-> ListOf(<<
      Record([id |-> Text("r1"), effect |-> Text("allow"), actions |-> Texts(<< "read" >>),
              subjects |-> Text("*"), roles |-> Texts(<< "member" >>),
              when |-> Record([all |-> ListOf(<<
                Record(("ref" :> Text("principal.id")) @@ Leaf("resource.owner", "eq")),
                Record([not |-> Present]) >>)])]),
      Record([id |-> Text("r2"), effect |-> Text("deny"), actions |-> Text("*"),
              subjects |-> Texts(<< "post" >>),
              when |-> Record(("value" :> ListOf(<< Text("draft"), Finite >>))
                                @@ Leaf("resource.owner", "in"))]) >>)])

Edit(at, to, reported) == [at |-> at, to |-> to, defects |-> {reported}]
Wrong(at, to) == Edit(at, to, at)
Harmless(at, to) == [at |-> at, to |-> to, defects |-> {}]

R1(rest) == << "rules", "[1]" >> \o rest
R2(rest) == << "rules", "[2]" >> \o rest
Owner(rest) == R1(<< "when", "all", "[1]" >> \o rest)
DeepNot == Record([not |-> Record([not |-> Record([not |-> Present])])])

MCEdits ==
  {Wrong(<< >>, Text("read")), Edit(<< "extra" >>, Finite, << >>),
   Wrong(<< "actions" >>, Text("read")), Wrong(<< "actions" >>, ListOf(<< >>)),
   Wrong(<< "actions", "[2]" >>, Finite), Wrong(<< "actions", "[2]" >>, Text("")),
   Wrong(<< "actions", "[2]" >>, Text("*")), Harmless(<< "actions", "[2]" >>, Text("read")),
   Wrong(<< "subjects" >>, Undefined),
   Wrong(<< "roles" >>, Finite), Wrong(<< "roles", "admin" >>, Text("member")),
   Wrong(<< "roles", "admin", "[1]" >>, Text("nobody")), Wrong(<< "roles", "admin", "[1]" >>, Finite),
   Harmless(<< "roles", "admin", "[1]" >>, Text("admin")),
   Wrong(<< "roles", "__proto__" >>, ListOf(<< >>)),
   Edit(<< "roles", "" >>, ListOf(<< >>), << "roles" >>),
   Harmless(<< "roles" >>, Texts(<< "member" >>)),
   Edit(<< "roles" >>, Texts(<< "__proto__", "member" >>), << "roles", "[1]" >>),
   Wrong(<< "rules" >>, Undefined), Wrong(R1(<< >>), Text("r1")),
   Wrong(R1(<< "effect" >>), Text("permit")), Wrong(R1(<< "effect" >>), Undefined),
   Wrong(R1(<< "actions" >>), ListOf(<< >>)), Wrong(R1(<< "actions" >>), Text("read")),
   Wrong(R1(<< "actions", "[1]" >>), Text("nobody")), Harmless(R1(<< "actions" >>), Text("*")),
   Wrong(R1(<< "subjects" >>), Undefined), Wrong(R1(<< "roles" >>), ListOf(<< >>)),
   Wrong(R1(<< "roles", "[1]" >>), Text("nobody")), Harmless(R1(<< "roles" >>), Undefined),
   Wrong(R1(<< "id" >>), Text("")), Wrong(R1(<< "description" >>), Finite),
   Edit(R1(<< "efect" >>), Text("allow"), R1(<< >>)),
   Wrong(R1(<< "when" >>), Text("read")), Wrong(R1(<< "when", "all" >>), ListOf(<< >>)),
   Edit(R1(<< "when", "any" >>), ListOf(<< Present >>), R1(<< "when" >>)),
   Wrong(Owner(<< "path" >>), Text("subject.id")), Wrong(Owner(<< "path" >>), Text("principal")),
   Wrong(Owner(<< "path" >>), Text("principal.")), Wrong(Owner(<< "path" >>), Finite),
   Wrong(Owner(<< "path" >>), Text("resource.__proto__.id")),
   Wrong(Owner(<< "ref" >>), Text("subject.id")), Wrong(Owner(<< "op" >>), Text("equals")),
   Edit(Owner(<< "ref" >>), Undefined, Owner(<< >>)), Edit(Owner(<< "value" >>), Finite, Owner(<< >>)),
   Edit(Owner(<< "op" >>), Text("exists"), Owner(<< >>)),
   Edit(Owner(<< "valeu" >>), Finite, Owner(<< >>)),
   Edit(R1(<< "when", "all", "[2]" >>), DeepNot, R1(<< "when", "all", "[2]", "not", "not" >>)),
   Edit(R2(<< "id" >>), Text("r1"), R2(<< "id" >>)), Harmless(R2(<< "id" >>), Undefined),
   Harmless(R2(<< "when", "value" >>), ListOf(<< NaN >>)),
   Wrong(R2(<< "when", "value" >>), ListOf(<< Null >>)),
   Edit(R2(<< "when" >>), Record(("value" :> NaN) @@ Leaf("resource.owner", "eq")),
        R2(<< "when", "value" >>)),
   Wrong(R2(<< "when", "value" >>), ListOf(<< >>)), Wrong(R2(<< "when", "value" >>), Text("draft")),
   Harmless(R2(<< "when" >>), DeepNot.fields["not"])}

RECURSIVE Put(_, _, _)
Put(json, at, to) ==
  IF at = << >> THEN to
  ELSE LET i == CHOOSE n \in DOMAIN json.items : Index[n] = at[1]
           new == Put(IF json.t = "list" THEN json.items[i] ELSE Own(json, at[1]), Tail(at), to)
       IN  IF json.t = "list" THEN [json EXCEPT !.items[i] = new]
           ELSE IF new = Undefined
           THEN Record([k \in DOMAIN json.fields \ {at[1]} |-> json.fields[k]])
           ELSE Record((at[1] :> new) @@ json.fields)

\* Neither edit is inside the other's place.
Apart(e, f) == ~IsPrefix(e.at, f.at) /\ ~IsPrefix(f.at, e.at)

EditedTwice(e, f) == Put(Put(MCGood, e.at, e.to), f.at, f.to)

\* Nor are both in one condition, which need not report both, nor does one
\* use a name again that the other keeps from being seen.
AreBothFound(e, f) ==
  /\ ~(IsPrefix(R1(<< "when" >>), e.at) /\ IsPrefix(R1(<< "when" >>), f.at))
  /\ R2(<< "id" >>) \notin {e.at, f.at}

MCPairs == {p \in MCEdits \X MCEdits : Apart(p[1], p[2])}

\* What is right of itself, and what is wrong where.
MCJudged ==
  {[input |-> Put(MCGood, e.at, e.to), defects |-> e.defects] : e \in MCEdits}
    \cup {[input |-> EditedTwice(p[1], p[2]), defects |-> p[1].defects \cup p[2].defects] :
            p \in {q \in MCPairs : AreBothFound(q[1], q[2])}}

MCDocuments ==
  {judged.input : judged \in MCJudged} \cup {EditedTwice(p[1], p[2]) : p \in MCPairs}

Steps ==
  {Index[i] : i \in 1 .. 3} \cup PolicyKeys \cup RuleKeys \cup LeafKeys \cup CombinatorKeys
    \cup {"admin", "member", "__proto__", "", "extra", "efect", "valeu", "itself"}

Part(v, step) ==
  CASE step = "itself" -> v
    [] v.t = "record" -> Own(v, step)
    [] v.t = "list" /\ \E i \in DOMAIN v.items : Index[i] = step ->
         v.items[CHOOSE i \in DOMAIN v.items : Index[i] = step]
    [] OTHER -> Undefined

\* The documents, and all there is inside.  (TLC keeps the value of a
\* definition, but not of one that stands for a constant.)
DocumentsAndParts ==
  LET within[n \in 0 .. 10] ==
        {Part(v, step) : step \in Steps \ (IF n = 0 THEN {"itself"} ELSE {}),
                         v \in IF n = 0 THEN MCDocuments ELSE within[n - 1]}
  IN  MCDocuments \cup within[10]

MCJson == DocumentsAndParts

\* What is found by each check is what was put there, and where.
Found(document) ==
  LET actions == ReadNameList(Own(document, "actions"), << "actions" >>)
      subjects == ReadNameList(Own(document, "subjects"), << "subjects" >>)
      roles == ReadRoles(Own(document, "roles"))
      rules == RulesOf(document)
  IN  actions.issues \cup subjects.issues \cup roles.issues
        \cup UNION {CheckRule(rules[i], << "rules", Index[i] >>, actions.names, subjects.names,
                              DOMAIN roles.graph).issues : i \in DOMAIN rules}
        \cup IF Own(document, "rules").t = "list" THEN {} ELSE {<< "rules" >>}

ASSUME FoundInPlace ==
  \A judged \in MCJudged :
    LET found == Strays(judged.input)
                   \cup IF judged.input.t = "record" THEN Found(judged.input) ELSE {}
    IN  judged.defects \subseteq found /\ (judged.defects = {} => found = {})

-----------------------------------------------------------------------------
(* Tokens.                                                                 *)

Key(shape, type, material, serves) ==
  [shape |-> shape, type |-> type, kty |-> None, d |-> FALSE, pem |-> FALSE, length |-> 32,
   material |-> material, serves |-> serves]

PrivateKey == Key("typed", "private", "pair", {"RS256", "PS256"})
PublicKey == Key("typed", "public", "pair", {"RS256", "PS256"})
Secret == Key("bytes", None, "shared", Symmetric)
Jwk(kty, d, length, material, serves) ==
  [Key("jwk", None, material, serves) EXCEPT !.kty = kty, !.d = d, !.length = length]

\* The public key's file, read as bytes, is a secret like any other.
PublicPem == [Key("bytes", None, "pair", Symmetric) EXCEPT !.pem = TRUE, !.length = 400]

RsaSigner ==
  [algorithm |-> "RS256", key |-> PrivateKey, issuer |-> "us", audience |-> {"api"},
   ttlSeconds |-> 3, typ |-> "JWT", includeJti |-> TRUE]
HmacSigner == [RsaSigner EXCEPT !.algorithm = "HS256", !.key = Secret, !.includeJti = FALSE]
LongSecret == [Secret EXCEPT !.length = 64]

MCSigners ==
  {RsaSigner, HmacSigner, [HmacSigner EXCEPT !.algorithm = "HS512", !.key = LongSecret],
   [RsaSigner EXCEPT !.issuer = "them", !.typ = "at+jwt"],
   [RsaSigner EXCEPT !.audience = {"billing"}],
   \* Refused: no private key, no strong secret, nothing to live for.
   [RsaSigner EXCEPT !.key = PublicKey], [RsaSigner EXCEPT !.key = Secret],
   [HmacSigner EXCEPT !.key.length = 8],
   [HmacSigner EXCEPT !.key = Jwk("oct", FALSE, 40, "shared", Symmetric)],
   [RsaSigner EXCEPT !.ttlSeconds = 0], [RsaSigner EXCEPT !.issuer = ""]}

RsaVerifier ==
  [algorithms |-> << "RS256" >>, key |-> PublicKey, issuers |-> {"us"}, audience |-> {"api", "web"},
   toleranceSeconds |-> 0, maxAgeSeconds |-> None, requiredClaims |-> {},
   requireExpiration |-> TRUE, expectedTyp |-> None]
HmacVerifier == [RsaVerifier EXCEPT !.algorithms = << "HS256" >>, !.key = Secret]

MCVerifiers ==
  {RsaVerifier, HmacVerifier, [RsaVerifier EXCEPT !.toleranceSeconds = 1],
   [RsaVerifier EXCEPT !.maxAgeSeconds = 1], [RsaVerifier EXCEPT !.algorithms = << "PS256" >>],
   [RsaVerifier EXCEPT !.expectedTyp = "at+jwt", !.issuers = {"us", "them"}],
   [RsaVerifier EXCEPT !.requiredClaims = {"role"}, !.requireExpiration = FALSE],
   [HmacVerifier EXCEPT !.algorithms = << "HS256", "HS512" >>, !.key = LongSecret],
   [HmacVerifier EXCEPT !.key = Jwk("oct", FALSE, 44, "shared", Symmetric)],
   [RsaVerifier EXCEPT !.key = Jwk("RSA", FALSE, None, "pair", {"RS256"})],
   \* Refused: a public key for a secret, two families, a private key, a
   \* tolerance that is none.
   [HmacVerifier EXCEPT !.key = PublicPem], [RsaVerifier EXCEPT !.algorithms = << "RS256", "HS256" >>],
   [RsaVerifier EXCEPT !.key = Jwk("RSA", TRUE, None, "pair", {"RS256"})],
   [RsaVerifier EXCEPT !.toleranceSeconds = MaxClockToleranceSeconds + 1]}

\* A caller may say anything in the claims.
MCClaimSets ==
  {[sub |-> "user", role |-> "admin"],
   [sub |-> "user", exp |-> 100, iss |-> "them", aud |-> {"billing"}, nbf |-> 50]}

-----------------------------------------------------------------------------
(* The log.                                                                *)

MCKeys == {"user", "items", "self", "service", "dbPassword", "apiKey", "pin", "name", "message",
           "correlationId", "err", "headers", "Authorization"}

MCFragmentsIn ==
  [k \in MCKeys |->
     CASE k = "dbPassword" -> {"password"} [] k = "apiKey" -> {"apikey"}
       [] k = "Authorization" -> {"authorization"} [] k = "pin" -> {"pin"} [] OTHER -> {}]

Say(name, shapes, secret) == [is |-> "text", name |-> name, shapes |-> shapes, secret |-> secret]
Plain == Say("hello", {}, FALSE)
Token == Say("token", {"jwt"}, TRUE)
Number == [is |-> "number"]
Array(items) == [is |-> "array", parts |-> items]

\* The message of the error and the text of the regular expression are found
\* nowhere else, and are secrets of a shape that a text is searched for.
MCLeaves ==
  {Plain, Token, Say("mail", {"email"}, TRUE), Number, [is |-> "map"],
   [is |-> "error", name |-> Plain, message |-> Say("cause", {"bearer"}, TRUE)],
   [is |-> "regexp", text |-> Say("filter", {"email"}, TRUE)]}

\* What only its key tells to be a secret.
Hidden(k) == Object(k :> Say("hunter2", {}, TRUE))

\* What one of the fields may be, and what it refers to.
MCShallow ==
  {[value |-> x, heap |-> << >>] : x \in MCLeaves}
    \cup {[value |-> Ref("a"), heap |-> "a" :> o] :
            o \in {Array(<< x, y >>) : x, y \in MCLeaves} \cup {Object("user" :> x) : x \in MCLeaves}
                    \cup {Hidden("dbPassword"), Hidden("apiKey")}}

\* In an array, and again; beside a secret; inside of itself; under a key.
MCDeep ==
  UNION {{[value |-> Ref("b"), heap |-> ("b" :> o) @@ s.heap] :
            o \in {Array(<< s.value, s.value >>),
                   Object([user |-> s.value, headers |-> Ref("h")]),
                   Object([self |-> Ref("b"), items |-> s.value]),
                   Object([self |-> Ref("root"), dbPassword |-> s.value])}} :
          s \in MCShallow}

MCLogged ==
  UNION {{[fields |-> f, heap |-> [h |-> Hidden("Authorization"), c |-> Array(<< s.value, Token >>)]
                                    @@ s.heap] :
            f \in {[user |-> s.value], [items |-> Ref("c")], [user |-> s.value, items |-> Ref("c")]}} :
          s \in MCShallow \cup MCDeep}

MCCorrelationIds == {None, Say("id", {}, FALSE)}

MCLoggers ==
  {[level |-> l, redaction |-> r, base |-> << >>] :
     l \in {"info"},
     r \in {None, [keyFragments |-> {}, patterns |-> {}, maxDepth |-> None],
            [keyFragments |-> {"pin"}, patterns |-> {"pan"}, maxDepth |-> 1]}}
    \cup {[level |-> "fatal", redaction |-> None, base |-> [err |-> Plain]],
          [level |-> "trace", base |-> [err |-> Token],
           redaction |-> [keyFragments |-> {}, patterns |-> {}, maxDepth |-> None]]}

-----------------------------------------------------------------------------
(* Answers.                                                                *)

Tower(error) == Foreign("TypeError", "undefined is not", Foreign("Error", "query failed", error))

MCFailures ==
  {AppError(k, k, "sorry", None, None, d, cause) :
     k \in DOMAIN ErrorConstructors, d \in {None, "details"},
     cause \in {NoCause, BindingError, Thrown("string"), Tower(NoCause), Tower(BindingError)}}
    \cup {AppError("ConflictError", "ConflictError", "again", "TAKEN", 409, None,
                   [links |-> << >>, again |-> TRUE]),
          JwtVerificationError("expired"), AuthConfigurationError("bad"),
          PasswordHashError(BindingError), RateLimitStoreError(Thrown("timeout")),
          EnvValidationError({Issue("PORT", "invalid")}), ToValidationError({<< "rules" >>}),
          BindingError, Thrown("string"), Tower(NoCause), Tower(Tower(NoCause))}

MCOptions == {[typeBaseUrl |-> None, instance |-> None], [typeBaseUrl |-> "url", instance |-> "id"]}

MCConfigs ==
  {[target |-> t, schema |-> s] : t \in {"body", "query", "params"}, s \in {{"good"}, {"good", "odd"}}}

MCRequests ==
  {[body |-> b, query |-> q, params |-> "good"] :
     b \in {"good", "odd", "bad", Malformed}, q \in {"good", "bad"}}

-----------------------------------------------------------------------------
(* The five of them.                                                       *)

\* The logins begin in one state only where they are not what moves, and the
\* rarer rows are tried with one limit only.
ServiceInit ==
  /\ Init /\ ServerInit /\ LoginsInit /\ call = None /\ CorrelationInit
  /\ part \in {"lifecycle", "server", "logins", "calls", "correlation"}
  /\ part # "logins" => maxAttempts = 1 /\ onStoreError = "deny" /\ row = None
  /\ maxAttempts = 1 \/ row \in {None, Current}

Moves(p) ==
  /\ part = p /\ part' = part
  /\ p # "lifecycle" => UNCHANGED vars
  /\ p # "server" => UNCHANGED serverVars
  /\ p # "logins" => UNCHANGED loginsState
  /\ p # "calls" => UNCHANGED call
  /\ p # "correlation" => UNCHANGED correlationVars

\* Where a part may rest: every login is over, and the clock has stopped; a
\* call has been made; the server never was, or is no more; every run ended.
Served ==
  /\ \/ part = "logins" /\ now = MaxTime /\ \A l \in Callers : pc[l] = "done"
     \/ part = "calls" /\ call # None
     \/ part = "server" /\ server \in {"failed", "stopped"} /\ ~sweepDue
     \/ part = "correlation" /\ begun = Runs /\ stack = << >> /\ promised = {}
  /\ UNCHANGED serviceVars

ServiceNext ==
  \/ Moves("lifecycle") /\ Next
  \/ Moves("server") /\ ServerNext
  \/ Moves("logins") /\ LoginsNext
  \/ Moves("calls") /\ call = None /\ CallNext
  \/ Moves("correlation") /\ CorrelationNext
  \/ Served

\* Only the lifecycle and the server are promised to get on.
ServiceSpec ==
  ServiceInit /\ [][ServiceNext]_serviceVars /\ Fairness /\ ServerFairness
=============================================================================
