--------------------------- MODULE MemoryBackend ---------------------------
(***************************************************************************)
(* createMemoryBackend (cache-kit/src/backends/memory.ts).  None of its    *)
(* methods awaits anything, so each is one step.  The Map `store` is a     *)
(* function on the keys it holds together with `older`, its insertion      *)
(* order, which the code keeps as recency: <<j, k>> is in it when j comes  *)
(* before k.  A list of tags is a set: the code's loops are indifferent to *)
(* duplicates, and an empty Set of the tag index is one it has removed.    *)
(*                                                                         *)
(* A definition marked "Faulty" is not the code: it is a plausible mistake *)
(* in the definition that follows, which some property must catch.         *)
(***************************************************************************)
EXTENDS Naturals, FiniteSets, Functions

CONSTANTS
  Keys, Tags, Values,
  None,        \* the code's undefined
  MaxEntries,  \* maxEntries
  Options,     \* bound: the SetOptions callers give, lifetimes and tags
  MaxTime      \* bound: the clock stops here

ASSUME MaxEntriesAssumption == MaxEntries \in Nat \ {0}
ASSUME OptionsAssumption ==
  Options \subseteq [ttl : (Nat \ {0}) \cup {None}, tags : SUBSET Tags]
ASSUME MaxTimeAssumption == MaxTime \in Nat
ASSUME NoneIsNoWrite ==
  None \notin Values /\ None \notin [value : Values, tags : SUBSET Tags]

VARIABLES
  now,       \* Date.now()
  store,     \* the entries of the Map
  older,     \* its order, least recently used first
  tagIndex,  \* tag -> keys
  latest,    \* history: each key's last write, until it is invalidated
  since      \* history: the other keys used since each key's last use

map == << store, older, tagIndex >>
backendVars == << now, store, older, tagIndex, latest, since >>

Entry == [value : Values, expiresAt : Nat \cup {None}, tags : SUBSET Tags]

Current == [store |-> store, older |-> older, tagIndex |-> tagIndex]

\* The Map and its index become m.
Become(m) == store' = m.store /\ older' = m.older /\ tagIndex' = m.tagIndex

IsExpired(entry) == entry.expiresAt # None /\ now >= entry.expiresAt

\* Map.delete, as far as the order goes.
Without(order, gone) == {p \in order : p[1] \notin gone /\ p[2] \notin gone}

\* Map.set of a key that is not in the Map, to go after those that are.
Last(order, present, key) == order \cup {<< j, key >> : j \in present \ {key}}

\* Faulty: the keys leave the Map and stay in the index.
RemoveUntagged(m, keys) ==
  LET gone == keys \cap DOMAIN m.store IN
  [ store    |-> Restrict(m.store, DOMAIN m.store \ gone),
    older    |-> Without(m.older, gone),
    tagIndex |-> m.tagIndex ]

\* removeKey, of each of some keys: value and every tag membership.
Remove(m, keys) ==
  LET gone == keys \cap DOMAIN m.store IN
  [ store    |-> Restrict(m.store, DOMAIN m.store \ gone),
    older    |-> Without(m.older, gone),
    tagIndex |-> [t \in Tags |-> m.tagIndex[t] \ {k \in gone : t \in m.store[k].tags}] ]

\* Faulty: a read leaves the order alone.
TouchNothing(m, key) == m

\* touch: to the most recently used end.
Touch(m, key) ==
  [m EXCEPT !.older = Last(Without(@, {key}), DOMAIN m.store, key)]

Insert(m, key, entry) ==
  [ store    |-> [k \in DOMAIN m.store \cup {key} |->
                    IF k = key THEN entry ELSE m.store[k]],
    older    |-> Last(m.older, DOMAIN m.store, key),
    tagIndex |-> [t \in Tags |-> m.tagIndex[t] \cup (IF t \in entry.tags THEN {key} ELSE {})] ]

\* store.keys().next(): the first key of the Map, if there is one.
Oldest(m) ==
  {k \in DOMAIN m.store : \A j \in DOMAIN m.store \ {k} : << k, j >> \in m.older}

\* The least recently used key makes room if it must.
Evict(m) ==
  IF Cardinality(DOMAIN m.store) > MaxEntries THEN Remove(m, Oldest(m)) ELSE m

\* Faulty: the old entry is overwritten without leaving its tags.
StoreOver(m, key, entry) ==
  Evict(Insert([m EXCEPT !.older = Without(@, {key})], key, entry))

\* set: out of the old tags, and into the new ones.
StoreEntry(m, key, entry) == Evict(Insert(Remove(m, {key}), key, entry))

\* Every member of the tag goes, out of all its tags.
RemoveTagged(m, tag) == Remove(m, m.tagIndex[tag])

\* History: key was read or written.
Used(key) ==
  since' = [k \in Keys |-> IF k = key THEN {} ELSE since[k] \cup {key}]

BackendInit ==
  /\ now = 0
  /\ store = << >>
  /\ older = {}
  /\ tagIndex = [t \in Tags |-> {}]
  /\ latest = [k \in Keys |-> None]
  /\ since = [k \in Keys |-> {}]

-----------------------------------------------------------------------------
Fresh(key) == key \in DOMAIN store /\ ~ IsExpired(store[key])

\* get, answering answer: a stored value, or None for a miss.
BackendGet(key, answer) ==
  /\ IF Fresh(key)
       THEN answer = store[key].value /\ Become(Touch(Current, key)) /\ Used(key)
       ELSE answer = None /\ Become(Remove(Current, {key})) /\ UNCHANGED since
  /\ UNCHANGED << now, latest >>

BackendSet(key, value, options) ==
  /\ Become(StoreEntry(Current, key,
        [ value     |-> value,
          expiresAt |-> IF options.ttl = None THEN None ELSE now + options.ttl,
          tags      |-> options.tags ]))
  /\ latest' = [latest EXCEPT ![key] = [value |-> value, tags |-> options.tags]]
  /\ Used(key)
  /\ UNCHANGED now

BackendDelete(key) ==
  /\ Become(Remove(Current, {key}))
  /\ latest' = [latest EXCEPT ![key] = None]
  /\ UNCHANGED << now, since >>

BackendInvalidateTag(tag) ==
  /\ Become(RemoveTagged(Current, tag))
  /\ latest' = [k \in Keys |->
                  IF latest[k] # None /\ tag \in latest[k].tags THEN None
                  ELSE latest[k]]
  /\ UNCHANGED << now, since >>

Tick ==
  /\ now < MaxTime
  /\ now' = now + 1
  /\ UNCHANGED << map, latest, since >>
=============================================================================
