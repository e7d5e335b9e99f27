---------------------------- MODULE RedisBackend ----------------------------
(***************************************************************************)
(* createRedisBackend (cache-kit/src/backends/redis.ts), its callers in    *)
(* one or several processes, over one Redis.  A write first asks Redis     *)
(* which tags its keys carry and then sends a pipeline, which is no        *)
(* transaction: Redis runs its commands in order, but between two of them  *)
(* it may run those of others, and a lost connection or a refused command  *)
(* leaves part of it done.                                                 *)
(*                                                                         *)
(* For a key k there are v:k (values) and kt:k (keyTags), for a tag t      *)
(* there is t:t (members).  Redis expires keys by itself, on the tick that *)
(* reaches their time.  get is one GET and changes nothing: what it would  *)
(* answer is values[k].                                                    *)
(***************************************************************************)
EXTENDS Naturals, SequencesExt

CONSTANTS
  Calls,        \* calls of set, delete and invalidateTag; a call of set is
                \* also the value it stores
  Keys, Tags,
  None,
  Options,      \* bound: the SetOptions callers give
  Overlapping,  \* the operations that callers let run while others run
  MaxTime,      \* bound: the clock stops here
  MaxFaults     \* bound: failures of Redis

ASSUME RedisOptionsAssumption ==
  Options \subseteq [ttl : (Nat \ {0}) \cup {None}, tags : SUBSET Tags]
ASSUME OverlappingAssumption == Overlapping \subseteq {"set", "delete", "invalidateTag"}
ASSUME RedisBoundsAssumption == MaxTime \in Nat /\ MaxFaults \in Nat
ASSUME KeysAndTagsAreFinite == IsFiniteSet(Keys) /\ IsFiniteSet(Tags)
ASSUME NoneIsNoName == None \notin Calls \cup Keys \cup Tags

VARIABLES
  now,      \* the clock of Redis
  values,   \* v:key, when it expires, the call that stored it and (history)
            \* the tags it was given
  keyTags,  \* kt:key, tags and when it expires; no tags, no such key
  members,  \* t:tag, the keys in it
  op,       \* what each call was asked to do
  pc,       \* the answer it waits for, or how it ended
  lists,    \* the keys it is about, with the tags Redis said they carry, or
            \* None while Redis has not answered
  pipe,     \* the commands of its pipeline that are still to run
  faults,   \* history: failures so far
  intact,   \* history: no pipeline for its key was torn since it began
  undoes,   \* history: the stored values it will put an end to, of those
            \* that were there when it began
  undone    \* history: stored values that a call has put an end to

redis == << values, keyTags, members >>
history == << intact, undoes, undone >>
locals == << op, pc, lists, pipe >>
vars == << now, redis, locals, faults, history >>

Op ==
  [do : {"set"}, key : Keys, tag : {None}, options : Options]
    \cup [do : {"delete"}, key : Keys, tag : {None}, options : {None}]
    \cup [do : {"invalidateTag"}, key : {None}, tag : Tags, options : {None}]

NoTags == [tags |-> {}, expiresAt |-> None]

Init ==
  /\ now = 0
  /\ values = [k \in Keys |-> None]
  /\ keyTags = [k \in Keys |-> NoTags]
  /\ members = [t \in Tags |-> {}]
  /\ op = [c \in Calls |-> None]
  /\ pc = [c \in Calls |-> "idle"]
  /\ lists = [c \in Calls |-> << >>]
  /\ pipe = [c \in Calls |-> << >>]
  /\ faults = 0
  /\ intact = [c \in Calls |-> TRUE]
  /\ undoes = [c \in Calls |-> {}]
  /\ undone = {}

\* The keys a call is about.
KeysOf(c) == DOMAIN lists[c]

TagsOf(c) == op[c].options.tags

\* Where a key that a call stores now will expire.
Deadline(c) == IF op[c].options.ttl = None THEN None ELSE now + op[c].options.ttl

-----------------------------------------------------------------------------
(* The pipelines.                                                          *)

Command(do, k) == [do |-> do, key |-> k, tag |-> None]

\* One command for each of some tags.
PerTag(do, k, tags) ==
  LET tag == SetToSeq(tags)
  IN  [i \in DOMAIN tag |-> [do |-> do, key |-> k, tag |-> tag[i]]]

\* Faulty: tags the key is said to have already are not added again.
TaggingOnlyNew(c) ==
  LET k == op[c].key
      new == TagsOf(c) \ keyTags[k].tags
  IN  IF TagsOf(c) = {} THEN << >>
      ELSE << Command("SADD kt", k) >> \o PerTag("SADD t", k, new)

\* What follows the value: its tags, in both directions.
Tagging(c) ==
  LET k == op[c].key IN
  IF TagsOf(c) = {} THEN << >>
  ELSE << Command("SADD kt", k) >> \o PerTag("SADD t", k, TagsOf(c))
         \o (IF op[c].options.ttl = None THEN << >> ELSE << Command("PEXPIRE kt", k) >>)

\* Faulty: the key leaves its old tags once the new value is there.
SetPipelineUntagLast(c, previous) ==
  LET k == op[c].key IN
  << Command("SET v", k), Command("DEL kt", k) >> \o Tagging(c)
    \o PerTag("SREM t", k, previous \ TagsOf(c))

SetPipeline(c, previous) ==
  LET k == op[c].key IN
  PerTag("SREM t", k, previous \ TagsOf(c))
    \o << Command("SET v", k), Command("DEL kt", k) >> \o Tagging(c)

Removal(k, previous) ==
  << Command("DEL v", k), Command("DEL kt", k) >> \o PerTag("SREM t", k, previous)

\* memberTagLists[index] ?? []
Known(tags) == IF tags = None THEN {} ELSE tags

\* What a call sends, given the tags its keys were said to carry.
Pipeline(c, previous) ==
  LET key == SetToSeq(KeysOf(c))
      each == [i \in DOMAIN key |-> Removal(key[i], Known(previous[key[i]]))]
  IN  CASE op[c].do = "set" -> SetPipeline(c, Known(previous[op[c].key]))
        [] op[c].do = "delete" -> Removal(op[c].key, Known(previous[op[c].key]))
        [] op[c].do = "invalidateTag" ->
             Append(FlattenSeq(each), [do |-> "DEL t", key |-> None, tag |-> op[c].tag])

-----------------------------------------------------------------------------
(* A call, up to its pipeline.                                             *)

Busy == {c \in Calls : pc[c] \notin {"idle", "returned", "thrown"}}

\* The values that call o, if it succeeds, puts an end to.
Undoes(o) ==
  {values[k].by : k \in {j \in Keys :
     /\ values[j] # None
     /\ pc[values[j].by] = "returned"
     /\ IF o.do = "invalidateTag" THEN o.tag \in values[j].tags ELSE o.key = j}}

Start(c, o) ==
  /\ pc[c] = "idle"
  /\ Busy # {} => {o.do} \cup {op[d].do : d \in Busy} \subseteq Overlapping
  /\ op' = [op EXCEPT ![c] = o]
  /\ undoes' = [undoes EXCEPT ![c] = Undoes(o)]
  /\ UNCHANGED << now, redis, pipe, faults, intact, undone >>

\* set and delete ask for the tags of their key.
CallOnKey(c) ==
  \E o \in Op :
    /\ o.do \in {"set", "delete"}
    /\ Start(c, o)
    /\ lists' = [lists EXCEPT ![c] = [k \in {o.key} |-> None]]
    /\ pc' = [pc EXCEPT ![c] = "listing"]

\* invalidateTag asks for the keys of its tag.
CallOnTag(c) ==
  \E o \in Op :
    /\ o.do = "invalidateTag"
    /\ Start(c, o)
    /\ pc' = [pc EXCEPT ![c] = "members"]
    /\ UNCHANGED lists

\* A call ends, and its locals with it.
End(c, how) ==
  /\ pc' = [pc EXCEPT ![c] = how]
  /\ op' = [op EXCEPT ![c] = None]
  /\ lists' = [lists EXCEPT ![c] = << >>]
  /\ undoes' = [undoes EXCEPT ![c] = {}]
  /\ UNCHANGED << now, redis, pipe, intact >>

Return(c) ==
  /\ End(c, "returned")
  /\ undone' = undone \cup undoes[c]
  /\ UNCHANGED faults

NoMembers(c) ==
  /\ pc[c] = "members"
  /\ members[op[c].tag] = {}
  /\ Return(c)

SomeMembers(c) ==
  /\ pc[c] = "members"
  /\ members[op[c].tag] # {}
  /\ lists' = [lists EXCEPT ![c] = [k \in members[op[c].tag] |-> None]]
  /\ pc' = [pc EXCEPT ![c] = "listing"]
  /\ UNCHANGED << now, redis, op, pipe, faults, history >>

\* Promise.all: every key's tags have been answered.
AllListed(known) == \A k \in DOMAIN known : known[k] # None

\* Redis answers SMEMBERS for one of the keys.
ListTags(c) ==
  /\ pc[c] = "listing"
  /\ \E k \in {j \in KeysOf(c) : lists[c][j] = None} :
       LET known == [lists[c] EXCEPT ![k] = keyTags[k].tags] IN
       /\ lists' = [lists EXCEPT ![c] = known]
       /\ IF AllListed(known)
          THEN /\ pipe' = [pipe EXCEPT ![c] = Pipeline(c, known)]
               /\ pc' = [pc EXCEPT ![c] = "piping"]
          ELSE UNCHANGED << pipe, pc >>
  /\ UNCHANGED << now, redis, op, faults, history >>

\* A read fails: the call throws, and has done nothing.
ReadFails(c) ==
  /\ pc[c] \in {"members", "listing"}
  /\ faults < MaxFaults
  /\ faults' = faults + 1
  /\ End(c, "thrown")
  /\ UNCHANGED undone

-----------------------------------------------------------------------------
(* The pipeline, as Redis runs it.                                         *)

Apply(c, cmd) ==
  \/ /\ cmd.do = "SET v"
     /\ values' = [values EXCEPT ![cmd.key] = 
                     [by |-> c, tags |-> TagsOf(c), expiresAt |-> Deadline(c)]]
     /\ UNCHANGED << keyTags, members >>
  \/ /\ cmd.do = "DEL v"
     /\ values' = [values EXCEPT ![cmd.key] = None]
     /\ UNCHANGED << keyTags, members >>
  \/ /\ cmd.do = "DEL kt"
     /\ keyTags' = [keyTags EXCEPT ![cmd.key] = NoTags]
     /\ UNCHANGED << values, members >>
  \/ /\ cmd.do = "SADD kt"
     /\ keyTags' = [keyTags EXCEPT ![cmd.key].tags = @ \cup TagsOf(c)]
     /\ UNCHANGED << values, members >>
  \/ /\ cmd.do = "PEXPIRE kt"
     /\ keyTags' = IF keyTags[cmd.key] = NoTags THEN keyTags
                   ELSE [keyTags EXCEPT ![cmd.key].expiresAt = Deadline(c)]
     /\ UNCHANGED << values, members >>
  \/ /\ cmd.do = "SADD t"
     /\ members' = [members EXCEPT ![cmd.tag] = @ \cup {cmd.key}]
     /\ UNCHANGED << values, keyTags >>
  \/ /\ cmd.do = "SREM t"
     /\ members' = [members EXCEPT ![cmd.tag] = @ \ {cmd.key}]
     /\ UNCHANGED << values, keyTags >>
  \/ /\ cmd.do = "DEL t"
     /\ members' = [members EXCEPT ![cmd.tag] = {}]
     /\ UNCHANGED << values, keyTags >>

Execute(c) ==
  /\ pipe[c] # << >>
  /\ Apply(c, Head(pipe[c]))
  /\ pipe' = [pipe EXCEPT ![c] = Tail(@)]
  /\ UNCHANGED << now, op, pc, lists, faults, history >>

\* Every command has run, and none was refused.
Succeed(c) ==
  /\ pc[c] = "piping" /\ pipe[c] = << >>
  /\ Return(c)

\* assertPipelineOk throws.
Throw(c) ==
  /\ pc[c] = "failing" /\ pipe[c] = << >>
  /\ End(c, "thrown")
  /\ UNCHANGED << faults, undone >>

\* The keys whose value a call has stored or is going to.
StoredFor(d) ==
  KeysOf(d) \cup {k \in Keys : values[k] # None /\ values[k].by = d}

\* What is left of the pipeline becomes rest: all of it is lost with the
\* connection, or one command is refused and the others run.
Tear(c, rest) ==
  /\ pc[c] \in {"piping", "failing"} /\ pipe[c] # << >>
  /\ faults < MaxFaults
  /\ faults' = faults + 1
  /\ pipe' = [pipe EXCEPT ![c] = rest]
  /\ pc' = [pc EXCEPT ![c] = "failing"]
  /\ intact' = [d \in Calls |-> intact[d] /\ StoredFor(d) \cap KeysOf(c) = {}]
  /\ UNCHANGED << now, redis, op, lists, undoes, undone >>

ConnectionLost(c) == Tear(c, << >>)

CommandRefused(c) == Tear(c, Tail(pipe[c]))

-----------------------------------------------------------------------------
\* Redis's own expiry.
Tick ==
  /\ now < MaxTime
  /\ now' = now + 1
  /\ values' = [k \in Keys |-> IF values[k] # None /\ values[k].expiresAt = now'
                               THEN None ELSE values[k]]
  /\ keyTags' = [k \in Keys |-> IF keyTags[k].expiresAt = now'
                                THEN NoTags ELSE keyTags[k]]
  /\ UNCHANGED << members, locals, faults, history >>

Work(c) ==
  \/ NoMembers(c) \/ SomeMembers(c) \/ ListTags(c)
  \/ Execute(c) \/ Succeed(c) \/ Throw(c)

Fault(c) == ReadFails(c) \/ ConnectionLost(c) \/ CommandRefused(c)

AllDone == Busy = {} /\ UNCHANGED vars

Next ==
  \/ \E c \in Calls : CallOnKey(c) \/ CallOnTag(c) \/ Work(c) \/ Fault(c)
  \/ Tick
  \/ AllDone

Spec == Init /\ [][Next]_vars
=============================================================================
