------------------------- MODULE RedisBackendProps -------------------------
(***************************************************************************)
(* What must hold of RedisBackend.                                         *)
(***************************************************************************)
EXTENDS RedisBackend

\* The state has the shape the code gives it; in particular a pipeline is
\* only sent when the tags of every key it is about are known.
TypeOK ==
  /\ now \in Nat
  /\ values \in
       [Keys -> [by : Calls, tags : SUBSET Tags, expiresAt : Nat \cup {None}] \cup {None}]
  /\ keyTags \in [Keys -> [tags : SUBSET Tags, expiresAt : Nat \cup {None}]]
  /\ members \in [Tags -> SUBSET Keys]
  /\ op \in [Calls -> Op \cup {None}]
  /\ pc \in [Calls -> {"idle", "members", "listing", "piping", "failing", "returned", "thrown"}]
  /\ DOMAIN lists = Calls
  /\ DOMAIN pipe = Calls
  /\ faults \in Nat
  /\ intact \in [Calls -> BOOLEAN]
  /\ undoes \in [Calls -> SUBSET Calls]
  /\ undone \subseteq Calls
  /\ \A c \in Calls :
       /\ KeysOf(c) \subseteq Keys
       /\ \A k \in KeysOf(c) : lists[c][k] = None \/ lists[c][k] \subseteq Tags
       /\ pc[c] \in {"piping", "failing"} => \A k \in KeysOf(c) : lists[c][k] # None
       /\ pipe[c] # << >> => pc[c] \in {"piping", "failing"}

Intact(k) == values[k] # None /\ intact[values[k].by]

\* Nothing stale is served: a value whose key was written or deleted, or one
\* of whose tags was invalidated, by a call that began after the value had been
\* stored and has succeeded, cannot be read any more.  Writes may overlap;
\* a failed pipeline excuses the writes it overlapped and those before it.
NothingStale == \A k \in Keys : Intact(k) => values[k].by \notin undone

\* What invalidateTag goes by: outside of a write of its key, a stored value is
\* listed under each of its tags.
IndexComplete ==
  \A k \in Keys :
    Intact(k) /\ (\A c \in Busy : k \notin KeysOf(c)) =>
      \A t \in values[k].tags : k \in members[t]

\* "a key can never be reached by a tag it was re-tagged away from"
\* (cache-kit/README.md:109): a tag that lists a stored key is one of its tags.
NeverReachedByOldTag ==
  Busy = {} =>
    \A k \in Keys, t \in Tags :
      values[k] # None /\ k \in members[t] => t \in values[k].tags

-----------------------------------------------------------------------------
(* The inductive invariant, of callers that only let writes overlap.       *)

Holds(seq, cmd) == \E i \in DOMAIN seq : seq[i] = cmd

Pending(c, cmd) == Holds(pipe[c], cmd)

\* Wherever one command stands in a sequence, another follows it.
Ordered(seq, first, second) ==
  \A i \in DOMAIN seq : seq[i] = first => \E j \in DOMAIN seq : i < j /\ seq[j] = second

TagCommand(do, k, t) == [do |-> do, key |-> k, tag |-> t]

\* What a call may still have to send.
Sendable(c) ==
  (IF op[c].do = "set"
   THEN [do : {"SET v", "SADD kt", "PEXPIRE kt"}, key : KeysOf(c), tag : {None}]
          \cup [do : {"SADD t"}, key : KeysOf(c), tag : TagsOf(c)]
   ELSE [do : {"DEL v"}, key : KeysOf(c), tag : {None}])
  \cup [do : {"DEL kt"}, key : KeysOf(c), tag : {None}]
  \cup [do : {"SREM t"}, key : KeysOf(c), tag : Tags]
  \cup (IF op[c].do = "invalidateTag" THEN {TagCommand("DEL t", None, op[c].tag)} ELSE {})

\* A command by which a call will replace or remove the value of a key.
Ends(c, k) == Pending(c, Command("SET v", k)) \/ Pending(c, Command("DEL v", k))

\* A call that waits or works has its operation, and is about its key.
Asked ==
  \A c \in Calls :
    /\ c \in Busy => op[c] \in Op
    /\ c \in Busy /\ op[c].do # "invalidateTag" => pc[c] # "members" /\ KeysOf(c) = {op[c].key}
    /\ pc[c] \in {"idle", "members"} => KeysOf(c) = {}
    /\ pc[c] \in {"listing", "piping", "failing"} => KeysOf(c) # {}

\* Its pipeline has the commands of its operation: a write leaves the old tags
\* before it stores, and tags what it has stored.
Piped ==
  \A c \in Calls : pipe[c] # << >> =>
    /\ pipe[c] \in Seq(Sendable(c))
    /\ op[c].do = "set" =>
         /\ \A k \in KeysOf(c), t \in Tags :
              Ordered(pipe[c], TagCommand("SREM t", k, t), Command("SET v", k))
         /\ intact[c] => \A k \in KeysOf(c), t \in TagsOf(c) :
              Ordered(pipe[c], Command("SET v", k), TagCommand("SADD t", k, t))

\* Only writes overlap.
Apart == \A c, d \in Busy : c # d => op[c].do = "set"

\* A call stores under its key, once it has sent its pipeline, and no other.
OneKeyEach ==
  \A k \in Keys : values[k] # None =>
    LET d == values[k].by IN
    /\ pc[d] \in {"piping", "failing", "returned", "thrown"}
    /\ d \in Busy => op[d].do = "set" /\ op[d].key = k
    /\ \A j \in Keys : values[j] # None /\ values[j].by = d => j = k

\* A stored value is listed under its tags, or will be, or is about to go.
Listed ==
  \A k \in Keys : Intact(k) =>
    \A t \in values[k].tags :
      \/ k \in members[t]
      \/ Pending(values[k].by, TagCommand("SADD t", k, t))
      \/ \E c \in Calls : Ends(c, k)

\* Once invalidateTag has read its members, nobody adds to them.
MembersRead ==
  \A c \in Busy : op[c].do = "invalidateTag" /\ pc[c] # "members" =>
    members[op[c].tag] \subseteq KeysOf(c)

\* The values a removal is about go before anything else of them.
Removing ==
  \A c \in Busy : op[c].do # "set" /\ pc[c] \in {"piping", "failing"} =>
    \A k \in KeysOf(c) : Intact(k) => Pending(c, Command("DEL v", k))

\* What a call is to put an end to is among what it will replace or remove.
Doomed ==
  \A c \in Calls :
    /\ \A d \in undoes[c] : pc[d] = "returned"
    /\ \A k \in Keys : Intact(k) /\ values[k].by \in undoes[c] =>
         /\ pc[c] = "members" => op[c].tag \in values[k].tags
         /\ pc[c] = "listing" => k \in KeysOf(c)
         /\ pc[c] = "piping" => Ends(c, k)

UndoneReturned == \A d \in undone : pc[d] = "returned"

IInv ==
  /\ TypeOK /\ Asked /\ Piped /\ Apart /\ OneKeyEach
  /\ Listed /\ MembersRead /\ Removing /\ Doomed /\ UndoneReturned
  /\ NothingStale
=============================================================================
