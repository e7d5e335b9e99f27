------------------------- MODULE CacheClientProofs -------------------------
(***************************************************************************)
(* Theorems about CacheClient, for any sets of keys, tags and calls, any   *)
(* capacity and any number of failing operations.                          *)
(***************************************************************************)
EXTENDS CacheClientProps, FiniteSetTheorems, TLAPS

-----------------------------------------------------------------------------
(* The operations on the Map and its index.                                *)

\* Removing keys leaves the other entries as they were, and a good map.
LEMMA RemoveOK ==
  ASSUME NEW m, MapOK(m), NEW S
  PROVE  /\ MapOK(Remove(m, S))
         /\ DOMAIN Remove(m, S).store = DOMAIN m.store \ S
         /\ \A k \in DOMAIN m.store \ S : Remove(m, S).store[k] = m.store[k]
<1> DEFINE gone == S \cap DOMAIN m.store
           left == DOMAIN m.store \ gone
           r    == Remove(m, S)
<1>1. /\ r.store = [k \in left |-> m.store[k]]
      /\ r.older = {p \in m.older : p[1] \notin gone /\ p[2] \notin gone}
      /\ r.tagIndex = [t \in Tags |->
                        m.tagIndex[t] \ {k \in gone : t \in m.store[k].tags}]
  BY DEF Remove, Restrict, Without
<1>2. /\ left = DOMAIN m.store \ S
      /\ DOMAIN r.store = left
      /\ \A k \in left : r.store[k] = m.store[k]
  BY <1>1
<1>3. r.store \in [left -> Entry] /\ left \subseteq Keys
  BY <1>1 DEF MapOK
<1>4. IsFiniteSet(left)
  BY FS_Subset DEF MapOK
<1>5. r.older \subseteq left \X left
  BY <1>1 DEF MapOK
<1>6. WellOrdered(r)
  <2> SUFFICES ASSUME NEW T \in SUBSET left, T # {}
               PROVE  \E k \in T : \A j \in T \ {k} : << k, j >> \in r.older
    BY <1>2 DEF WellOrdered
  <2>1. PICK k \in T : \A j \in T \ {k} : << k, j >> \in m.older
    BY DEF MapOK, WellOrdered
  <2>2. \A j \in T \ {k} : << k, j >> \in r.older
    BY <1>1, <2>1
  <2> QED BY <2>2
<1>7. r.tagIndex = [t \in Tags |-> {k \in left : t \in r.store[k].tags}]
  <2>1. ASSUME NEW t \in Tags
        PROVE  m.tagIndex[t] \ {k \in gone : t \in m.store[k].tags}
                 = {k \in left : t \in r.store[k].tags}
    BY <1>2 DEF MapOK
  <2> QED BY <1>1, <2>1
<1> HIDE DEF r
<1> QED BY <1>2, <1>3, <1>4, <1>5, <1>6, <1>7 DEF MapOK, r

\* A key that was not in the map becomes its last.
LEMMA InsertOK ==
  ASSUME NEW m, MapOK(m), NEW key \in Keys, key \notin DOMAIN m.store,
         NEW entry \in Entry
  PROVE  LET i == Insert(m, key, entry) IN
         /\ MapOK(i)
         /\ DOMAIN i.store = DOMAIN m.store \cup {key}
         /\ i.store[key] = entry
         /\ \A k \in DOMAIN m.store : i.store[k] = m.store[k]
         /\ \A j : << key, j >> \notin i.older
<1> DEFINE i   == Insert(m, key, entry)
           all == DOMAIN m.store \cup {key}
<1>1. /\ i.store = [k \in all |-> IF k = key THEN entry ELSE m.store[k]]
      /\ i.older = m.older \cup {<< j, key >> : j \in DOMAIN m.store \ {key}}
      /\ i.tagIndex = [t \in Tags |->
                        m.tagIndex[t] \cup (IF t \in entry.tags THEN {key} ELSE {})]
  BY DEF Insert, Last
<1>2. /\ DOMAIN i.store = all
      /\ i.store[key] = entry
      /\ \A k \in DOMAIN m.store : i.store[k] = m.store[k]
  BY <1>1
<1>3. i.store \in [all -> Entry] /\ all \subseteq Keys
  BY <1>1 DEF MapOK
<1>4. IsFiniteSet(all)
  BY FS_AddElement DEF MapOK
<1>5. i.older \subseteq all \X all
  BY <1>1 DEF MapOK
<1>6. \A j : << key, j >> \notin i.older
  BY <1>1 DEF MapOK
<1>7. WellOrdered(i)
  <2> SUFFICES ASSUME NEW T \in SUBSET all, T # {}
               PROVE  \E k \in T : \A j \in T \ {k} : << k, j >> \in i.older
    BY <1>2 DEF WellOrdered
  <2>1. CASE T = {key}
    BY <2>1
  <2>2. CASE T # {key}
    <3>1. T \ {key} \in SUBSET DOMAIN m.store /\ T \ {key} # {}
      BY <2>2
    <3>2. PICK k \in T \ {key} : \A j \in (T \ {key}) \ {k} : << k, j >> \in m.older
      BY <3>1 DEF MapOK, WellOrdered
    <3>3. \A j \in T \ {k} : << k, j >> \in i.older
      BY <1>1, <3>1, <3>2
    <3> QED BY <3>2, <3>3
  <2> QED BY <2>1, <2>2
<1>8. i.tagIndex = [t \in Tags |-> {k \in all : t \in i.store[k].tags}]
  <2>1. ASSUME NEW t \in Tags
        PROVE  m.tagIndex[t] \cup (IF t \in entry.tags THEN {key} ELSE {})
                 = {k \in all : t \in i.store[k].tags}
    BY <1>2 DEF MapOK
  <2> QED BY <1>1, <2>1
<1> HIDE DEF i
<1> QED BY <1>2, <1>3, <1>4, <1>5, <1>6, <1>7, <1>8 DEF MapOK, i

\* One entry too many is none after the eviction, and the newest stays.
LEMMA EvictOK ==
  ASSUME NEW m, MapOK(m), Cardinality(DOMAIN m.store) <= MaxEntries + 1
  PROVE  /\ MapOK(Evict(m))
         /\ Cardinality(DOMAIN Evict(m).store) <= MaxEntries
         /\ DOMAIN Evict(m).store \subseteq DOMAIN m.store
         /\ \A k \in DOMAIN Evict(m).store : Evict(m).store[k] = m.store[k]
         /\ \A k \in DOMAIN m.store :
              (\A j : << k, j >> \notin m.older) => k \in DOMAIN Evict(m).store
<1> DEFINE D == DOMAIN m.store
<1>0. MaxEntries \in Nat \ {0} /\ IsFiniteSet(D) /\ Cardinality(D) \in Nat
  BY MaxEntriesAssumption, FS_CardinalityType DEF MapOK
<1>1. CASE ~ (Cardinality(D) > MaxEntries)
  BY <1>0, <1>1 DEF Evict
<1>2. CASE Cardinality(D) > MaxEntries
  <2>1. Evict(m) = Remove(m, Oldest(m))
    BY <1>2 DEF Evict
  <2>2. /\ MapOK(Evict(m))
        /\ DOMAIN Evict(m).store = D \ Oldest(m)
        /\ \A k \in D \ Oldest(m) : Evict(m).store[k] = m.store[k]
    BY <2>1, RemoveOK
  <2>3. D # {}
    BY <1>0, <1>2, FS_EmptySet
  <2>4. PICK k \in D : \A j \in D \ {k} : << k, j >> \in m.older
    BY <2>3 DEF MapOK, WellOrdered
  <2>5. k \in Oldest(m) /\ Oldest(m) \subseteq D
    BY <2>4 DEF Oldest
  <2>6. Cardinality(D \ Oldest(m)) \in Nat /\ Cardinality(D \ Oldest(m)) < Cardinality(D)
    <3>1. /\ IsFiniteSet(D \ Oldest(m))
          /\ Cardinality(D \ Oldest(m)) <= Cardinality(D)
          /\ Cardinality(D \ Oldest(m)) = Cardinality(D) => D = D \ Oldest(m)
      BY <1>0, FS_Subset
    <3>2. D # D \ Oldest(m)
      BY <2>5
    <3> QED BY <1>0, <3>1, <3>2, FS_CardinalityType
  <2>7. ASSUME NEW n \in D, \A j : << n, j >> \notin m.older PROVE n \notin Oldest(m)
    <3>1. D # {n}
      BY <1>0, <1>2, FS_Singleton
    <3>2. PICK j \in D : j # n
      BY <3>1
    <3> QED BY <2>7, <3>2 DEF Oldest
  <2> QED BY <1>0, <2>2, <2>6, <2>7
<1> QED BY <1>1, <1>2

\* What a set leaves behind.
LEMMA StoreOK ==
  ASSUME NEW m, MapOK(m), Cardinality(DOMAIN m.store) <= MaxEntries,
         NEW key \in Keys, NEW entry \in Entry
  PROVE  LET s == StoreEntry(m, key, entry) IN
         /\ MapOK(s)
         /\ Cardinality(DOMAIN s.store) <= MaxEntries
         /\ key \in DOMAIN s.store /\ s.store[key] = entry
         /\ \A k \in DOMAIN s.store \ {key} :
              k \in DOMAIN m.store /\ s.store[k] = m.store[k]
<1> DEFINE r == Remove(m, {key})
           i == Insert(r, key, entry)
<1>1. /\ MapOK(r) /\ DOMAIN r.store = DOMAIN m.store \ {key}
      /\ \A k \in DOMAIN m.store \ {key} : r.store[k] = m.store[k]
  BY RemoveOK
<1>2. key \notin DOMAIN r.store
  BY <1>1
<1> HIDE DEF r
<1>3. /\ MapOK(i)
      /\ DOMAIN i.store = DOMAIN r.store \cup {key}
      /\ i.store[key] = entry
      /\ \A k \in DOMAIN r.store : i.store[k] = r.store[k]
      /\ \A j : << key, j >> \notin i.older
  BY <1>1, <1>2, InsertOK
<1> HIDE DEF i
<1>4. Cardinality(DOMAIN i.store) <= MaxEntries + 1
  <2>1. IsFiniteSet(DOMAIN m.store) /\ IsFiniteSet(DOMAIN r.store)
    BY <1>1 DEF MapOK
  <2>2. Cardinality(DOMAIN r.store) <= Cardinality(DOMAIN m.store)
    BY <1>1, <2>1, FS_Subset
  <2>3. Cardinality(DOMAIN i.store) = Cardinality(DOMAIN r.store) + 1
    BY <1>2, <1>3, <2>1, FS_AddElement
  <2> QED BY <2>1, <2>2, <2>3, FS_CardinalityType, MaxEntriesAssumption
<1>5. StoreEntry(m, key, entry) = Evict(i)
  BY DEF StoreEntry, i, r
<1>6. /\ MapOK(Evict(i))
      /\ Cardinality(DOMAIN Evict(i).store) <= MaxEntries
      /\ DOMAIN Evict(i).store \subseteq DOMAIN i.store
      /\ \A k \in DOMAIN Evict(i).store : Evict(i).store[k] = i.store[k]
      /\ \A k \in DOMAIN i.store :
           (\A j : << k, j >> \notin i.older) => k \in DOMAIN Evict(i).store
  BY <1>3, <1>4, EvictOK
<1>7. key \in DOMAIN Evict(i).store
  BY <1>3, <1>6
<1> QED BY <1>1, <1>3, <1>5, <1>6, <1>7

-----------------------------------------------------------------------------
(* The operations of the backend as steps.                                 *)

BackendType ==
  /\ now \in Nat
  /\ latest \in [Keys -> [value : Values, tags : SUBSET Tags] \cup {None}]
  /\ since \in [Keys -> SUBSET Keys]

BackendInv ==
  /\ BackendType
  /\ MapOK(Current) /\ MemoryBounded
  /\ HeldIsLatest

\* The map becomes a good one: then Current is a good one.
LEMMA BecomeOK ==
  ASSUME NEW m, MapOK(m), Become(m)
  PROVE  MapOK(Current)'
<1>1. Current' = [store |-> m.store, older |-> m.older, tagIndex |-> m.tagIndex]
  BY DEF Become, Current
<1>2. MapOK([store |-> m.store, older |-> m.older, tagIndex |-> m.tagIndex])
  BY DEF MapOK, WellOrdered
<1> QED BY <1>1, <1>2 DEF MapOK, WellOrdered

LEMMA UsedType ==
  ASSUME BackendType, NEW key \in Keys, Used(key)
  PROVE  since' \in [Keys -> SUBSET Keys]
BY DEF BackendType, Used

\* The fields of Current.
LEMMA CurrentFields ==
  ASSUME BackendInv
  PROVE  /\ MapOK(Current)
         /\ Current.store = store /\ Current.older = older /\ Current.tagIndex = tagIndex
         /\ store \in [DOMAIN store -> Entry] /\ DOMAIN store \subseteq Keys
         /\ IsFiniteSet(DOMAIN store)
         /\ Cardinality(DOMAIN store) \in Nat
         /\ Cardinality(DOMAIN store) <= MaxEntries
BY FS_CardinalityType DEF BackendInv, MapOK, Current, MemoryBounded

\* Removing keys, whatever becomes of the history of each.
LEMMA RemoveStep ==
  ASSUME BackendInv, NEW S, Become(Remove(Current, S)),
         BackendType',
         \A k \in DOMAIN store \ S : latest'[k] = latest[k]
  PROVE  /\ BackendInv'
         /\ \A k \in Keys : Held(k)' = IF k \in S THEN None ELSE Held(k)
<1> DEFINE r == Remove(Current, S)
<1>1. /\ MapOK(r) /\ DOMAIN r.store = DOMAIN store \ S
      /\ \A k \in DOMAIN store \ S : r.store[k] = store[k]
  BY RemoveOK, CurrentFields
<1>2. store' = r.store /\ MapOK(Current)'
  BY <1>1, BecomeOK DEF Become
<1> HIDE DEF r
<1>3. MemoryBounded'
  <2>1. DOMAIN store' \subseteq DOMAIN store
    BY <1>1, <1>2
  <2>2. /\ IsFiniteSet(DOMAIN store')
        /\ Cardinality(DOMAIN store') <= Cardinality(DOMAIN store)
    BY <2>1, CurrentFields, FS_Subset
  <2>3. Cardinality(DOMAIN store') \in Nat
    BY <2>2, FS_CardinalityType
  <2> QED BY <2>2, <2>3, CurrentFields, MaxEntriesAssumption DEF MemoryBounded
<1>4. HeldIsLatest'
  BY <1>1, <1>2 DEF BackendInv, HeldIsLatest
<1>5. ASSUME NEW k \in Keys PROVE Held(k)' = IF k \in S THEN None ELSE Held(k)
  BY <1>1, <1>2 DEF Held
<1> QED BY <1>2, <1>3, <1>4, <1>5 DEF BackendInv

\* A read forgets at most the key it misses.
LEMMA GetStep ==
  ASSUME BackendInv, NEW key \in Keys, NEW answer, BackendGet(key, answer)
  PROVE  /\ BackendInv'
         /\ answer \in Values \cup {None}
         /\ latest' = latest
         /\ \A k \in Keys : Held(k)' = Held(k) \/ (k = key /\ Held(k)' = None)
<1>1. CASE Fresh(key)
  <2> DEFINE t == Touch(Current, key)
  <2>1. /\ t.store = store
        /\ t.older = Last(Without(older, {key}), DOMAIN store, key)
        /\ t.tagIndex = tagIndex
    BY DEF Touch, Current
  <2>2. MapOK(t)
    <3>1. key \in DOMAIN store /\ MapOK(Current)
      BY <1>1, CurrentFields DEF Fresh
    <3>2. t.older \subseteq (DOMAIN store) \X (DOMAIN store)
      BY <2>1, <3>1 DEF MapOK, Current, Last, Without
    <3>3. WellOrdered(t)
      <4> SUFFICES ASSUME NEW T \in SUBSET DOMAIN store, T # {}
                   PROVE  \E k \in T : \A j \in T \ {k} : << k, j >> \in t.older
        BY <2>1 DEF WellOrdered
      <4>1. CASE T = {key}
        BY <4>1
      <4>2. CASE T # {key}
        <5>1. T \ {key} \in SUBSET DOMAIN store /\ T \ {key} # {}
          BY <4>2
        <5>2. PICK k \in T \ {key} : \A j \in (T \ {key}) \ {k} : << k, j >> \in older
          BY <3>1, <5>1 DEF MapOK, WellOrdered, Current
        <5>3. \A j \in T \ {k} : << k, j >> \in t.older
          BY <2>1, <5>1, <5>2 DEF Last, Without
        <5> QED BY <5>2, <5>3
      <4> QED BY <4>1, <4>2
    <3> HIDE DEF t
    <3> QED BY <2>1, <3>1, <3>2, <3>3 DEF MapOK, Current
  <2>3. Become(t) /\ Used(key) /\ answer = store[key].value /\ UNCHANGED << now, latest >>
    BY <1>1 DEF BackendGet
  <2>4. MapOK(Current)' /\ store' = store
    BY <2>1, <2>2, <2>3, BecomeOK DEF Become
  <2>5. BackendType'
    BY <2>3, UsedType DEF BackendInv, BackendType
  <2>6. MemoryBounded' /\ HeldIsLatest'
    BY <2>3, <2>4 DEF BackendInv, MemoryBounded, HeldIsLatest
  <2>7. answer \in Values
    BY <1>1, <2>3, CurrentFields DEF Fresh, Entry
  <2>8. \A k \in Keys : Held(k)' = Held(k)
    BY <2>4 DEF Held
  <2> QED BY <2>3, <2>4, <2>5, <2>6, <2>7, <2>8 DEF BackendInv
<1>2. CASE ~ Fresh(key)
  <2>1. /\ answer = None /\ Become(Remove(Current, {key}))
        /\ UNCHANGED << since, now, latest >>
    BY <1>2 DEF BackendGet
  <2>2. BackendType'
    BY <2>1 DEF BackendInv, BackendType
  <2>3. /\ BackendInv'
        /\ \A k \in Keys : Held(k)' = IF k \in {key} THEN None ELSE Held(k)
    BY <2>1, <2>2, RemoveStep
  <2> QED BY <2>1, <2>3
<1> QED BY <1>1, <1>2

\* A write holds what it wrote, and what else it holds it held before.
LEMMA SetStep ==
  ASSUME BackendInv, NEW key \in Keys, NEW value \in Values,
         NEW options \in Options, BackendSet(key, value, options)
  PROVE  LET w == [value |-> value, tags |-> options.tags] IN
         /\ BackendInv'
         /\ w \in [value : Values, tags : SUBSET Tags]
         /\ latest' = [latest EXCEPT ![key] = w]
         /\ Held(key)' = w
         /\ \A k \in Keys \ {key} : Held(k)' = Held(k) \/ Held(k)' = None
<1> DEFINE w == [value |-> value, tags |-> options.tags]
           entry == [ value     |-> value,
                      expiresAt |-> IF options.ttl = None THEN None ELSE now + options.ttl,
                      tags      |-> options.tags ]
           s == StoreEntry(Current, key, entry)
<1>1. /\ options.tags \in SUBSET Tags
      /\ options.ttl \in (Nat \ {0}) \cup {None}
      /\ now \in Nat
  BY OptionsAssumption DEF BackendInv, BackendType
<1>2. entry \in Entry /\ w \in [value : Values, tags : SUBSET Tags]
  BY <1>1 DEF Entry
<1>3. /\ Become(s) /\ latest' = [latest EXCEPT ![key] = w] /\ Used(key) /\ UNCHANGED now
  BY DEF BackendSet
<1>4. entry.value = value /\ entry.tags = options.tags
  OBVIOUS
<1> HIDE DEF entry
<1>5. /\ MapOK(s)
      /\ Cardinality(DOMAIN s.store) <= MaxEntries
      /\ key \in DOMAIN s.store /\ s.store[key] = entry
      /\ \A k \in DOMAIN s.store \ {key} :
           k \in DOMAIN store /\ s.store[k] = store[k]
  BY <1>2, StoreOK, CurrentFields
<1>6. MapOK(Current)' /\ store' = s.store
  BY <1>3, <1>5, BecomeOK DEF Become
<1> HIDE DEF s
<1>7. BackendType'
  BY <1>2, <1>3, UsedType DEF BackendInv, BackendType
<1>8. MemoryBounded'
  BY <1>5, <1>6 DEF MemoryBounded
<1>9. HeldIsLatest'
  <2> SUFFICES ASSUME NEW k \in DOMAIN store'
               PROVE  latest'[k] = [value |-> store'[k].value, tags |-> store'[k].tags]
    BY DEF HeldIsLatest
  <2>1. CASE k = key
    BY <1>3, <1>4, <1>5, <1>6, <2>1 DEF BackendInv, BackendType
  <2>2. CASE k # key
    <3>1. k \in DOMAIN store /\ store'[k] = store[k]
      BY <1>5, <1>6, <2>2
    <3>2. latest'[k] = latest[k]
      BY <1>3, <2>2, <3>1, CurrentFields DEF BackendInv, BackendType
    <3> QED BY <3>1, <3>2 DEF BackendInv, HeldIsLatest
  <2> QED BY <2>1, <2>2
<1>10. Held(key)' = w
  BY <1>4, <1>5, <1>6 DEF Held
<1>11. ASSUME NEW k \in Keys \ {key} PROVE Held(k)' = Held(k) \/ Held(k)' = None
  BY <1>5, <1>6 DEF Held
<1> QED BY <1>2, <1>3, <1>6, <1>7, <1>8, <1>9, <1>10, <1>11 DEF BackendInv

LEMMA DeleteStep ==
  ASSUME BackendInv, NEW key \in Keys, BackendDelete(key)
  PROVE  /\ BackendInv'
         /\ latest' = [latest EXCEPT ![key] = None]
         /\ \A k \in Keys : Held(k)' = IF k = key THEN None ELSE Held(k)
<1>1. /\ Become(Remove(Current, {key}))
      /\ latest' = [latest EXCEPT ![key] = None] /\ UNCHANGED << now, since >>
  BY DEF BackendDelete
<1>2. BackendType'
  BY <1>1 DEF BackendInv, BackendType
<1>3. \A k \in DOMAIN store \ {key} : latest'[k] = latest[k]
  BY <1>1, CurrentFields DEF BackendInv, BackendType
<1> QED BY <1>1, <1>2, <1>3, RemoveStep

\* The keys invalidated with a tag are those whose last write carried it.
LEMMA InvalidateStep ==
  ASSUME BackendInv, NEW tag \in Tags, BackendInvalidateTag(tag)
  PROVE  LET tagged == {k \in Keys : latest[k] # None /\ tag \in latest[k].tags} IN
         /\ BackendInv'
         /\ latest' = [k \in Keys |-> IF k \in tagged THEN None ELSE latest[k]]
         /\ \A k \in Keys : Held(k)' = IF k \in tagged THEN None ELSE Held(k)
<1> DEFINE tagged == {k \in Keys : latest[k] # None /\ tag \in latest[k].tags}
           S == tagIndex[tag]
<1>1. /\ Become(Remove(Current, S))
      /\ latest' = [k \in Keys |-> IF k \in tagged THEN None ELSE latest[k]]
      /\ UNCHANGED << now, since >>
  BY DEF BackendInvalidateTag, RemoveTagged, Current
<1>2. BackendType'
  BY <1>1 DEF BackendInv, BackendType
<1>3. S = {k \in DOMAIN store : tag \in store[k].tags}
  BY CurrentFields DEF MapOK, Current
<1>4. \A k \in DOMAIN store : latest[k] # None /\ latest[k].tags = store[k].tags
  <2> SUFFICES ASSUME NEW k \in DOMAIN store
               PROVE  latest[k] # None /\ latest[k].tags = store[k].tags
    OBVIOUS
  <2>1. latest[k] = [value |-> store[k].value, tags |-> store[k].tags]
    BY DEF BackendInv, HeldIsLatest
  <2>2. store[k] \in Entry
    BY CurrentFields
  <2>3. [value |-> store[k].value, tags |-> store[k].tags] \in [value : Values, tags : SUBSET Tags]
    BY <2>2 DEF Entry
  <2> QED BY <2>1, <2>3, NoneIsNoWrite
<1>5. \A k \in DOMAIN store : k \in S <=> k \in tagged
  BY <1>3, <1>4, CurrentFields
<1>6. \A k \in DOMAIN store \ S : latest'[k] = latest[k]
  BY <1>1, <1>5, CurrentFields
<1>7. /\ BackendInv'
      /\ \A k \in Keys : Held(k)' = IF k \in S THEN None ELSE Held(k)
  BY <1>1, <1>2, <1>6, RemoveStep
<1>8. ASSUME NEW k \in Keys PROVE Held(k)' = IF k \in tagged THEN None ELSE Held(k)
  BY <1>3, <1>5, <1>7 DEF Held
<1> QED BY <1>1, <1>7, <1>8

LEMMA TickStep ==
  ASSUME BackendInv, Tick
  PROVE  BackendInv' /\ UNCHANGED << store, latest >>
<1>1. now' \in Nat /\ UNCHANGED << store, older, tagIndex, latest, since >>
  BY DEF Tick, map, BackendInv, BackendType
<1>2. Current' = Current
  BY <1>1 DEF Current
<1> QED BY <1>1, <1>2 DEF BackendInv, BackendType, MemoryBounded, HeldIsLatest,
                          MapOK, WellOrdered

\* Nothing of the backend changes.
LEMMA BackendStutter ==
  ASSUME BackendInv, UNCHANGED backendVars
  PROVE  BackendInv' /\ UNCHANGED << store, latest >>
<1>1. UNCHANGED << now, store, older, tagIndex, latest, since >>
  BY DEF backendVars
<1>2. Current' = Current
  BY <1>1 DEF Current
<1> QED BY <1>1, <1>2 DEF BackendInv, BackendType, MemoryBounded, HeldIsLatest,
                          MapOK, WellOrdered

-----------------------------------------------------------------------------
(* The client.                                                             *)

ClientType ==
  /\ inFlight \in [Keys -> Calls \cup {None}]
  /\ pc \in [Calls -> {"idle", "reading", "answered", "waiting", "done"}]
  /\ ask \in [Calls -> Ask]
  /\ found \in [Calls -> Values \cup {None}]
  /\ flight \in [Calls -> Calls \cup {None}]
  /\ \A c \in Calls : pc[c] = "waiting" => flight[c] \in Calls
  /\ stage \in [Calls -> {"none", "running", "storing", "stored", "resolved", "rejected"}]
  /\ result \in [Calls -> Values \cup {"none", "rejected"}]
  /\ faults \in Nat /\ direct \in Nat

LEMMA InvParts == IInv <=> BackendInv /\ ClientType /\ Registered
<1>1. ASSUME BackendInv, ClientType PROVE TypeOK
  BY <1>1 DEF TypeOK, ClientType, BackendInv, BackendType, MapOK, Current
<1>2. ASSUME TypeOK PROVE BackendType /\ ClientType
  BY <1>2 DEF TypeOK, ClientType, BackendType
<1> QED BY <1>1, <1>2 DEF IInv, BackendInv

\* Every step is a step of the backend that leaves what the cache holds
\* related to what was written: what the refinement needs of it.
Forgets(k) ==
  /\ latest' = latest
  /\ \A j \in Keys : Held(j)' = Held(j) \/ (j = k /\ Held(j)' = None)

Writes(k, w) ==
  /\ w \in [value : Values, tags : SUBSET Tags]
  /\ latest' = [latest EXCEPT ![k] = w]
  /\ Held(k)' = w
  /\ \A j \in Keys \ {k} : Held(j)' = Held(j) \/ Held(j)' = None

Deletes(k) ==
  /\ latest' = [latest EXCEPT ![k] = None]
  /\ \A j \in Keys : Held(j)' = IF j = k THEN None ELSE Held(j)

Invalidates(t) ==
  LET tagged == {k \in Keys : latest[k] # None /\ t \in latest[k].tags} IN
  /\ latest' = [k \in Keys |-> IF k \in tagged THEN None ELSE latest[k]]
  /\ \A k \in Keys : Held(k)' = IF k \in tagged THEN None ELSE Held(k)

Abstract ==
  \/ UNCHANGED << store, latest >>
  \/ \E k \in Keys : Forgets(k) \/ Deletes(k)
  \/ \E k \in Keys, w \in [value : Values, tags : SUBSET Tags] : Writes(k, w)
  \/ \E t \in Tags : Invalidates(t)

\* The backend is left in order by every step.
LEMMA BackendStep ==
  ASSUME IInv, [Next]_vars
  PROVE  BackendInv' /\ Abstract
<1> USE InvParts
<1>1. CASE \E k \in Keys : Get(k)
  BY <1>1, GetStep DEF Get, Direct, Abstract, Forgets
<1>2. CASE \E k \in Keys : Set(k)
  <2>1. PICK k \in Keys, v \in Values \ Calls, o \in Options : BackendSet(k, v, o)
    BY <1>2 DEF Set, Direct
  <2> QED BY <2>1, SetStep DEF Abstract, Writes
<1>3. CASE \E k \in Keys : Invalidate(k)
  BY <1>3, DeleteStep DEF Invalidate, Direct, Abstract, Deletes
<1>4. CASE \E t \in Tags : InvalidateTag(t)
  BY <1>4, InvalidateStep DEF InvalidateTag, Direct, Abstract, Invalidates
<1>5. CASE \E c \in Calls : ReadEffect(c)
  <2>1. PICK c \in Calls, answer \in Values \cup {None} :
          pc[c] = "reading" /\ BackendGet(Key(c), answer)
    BY <1>5 DEF ReadEffect
  <2>2. Key(c) \in Keys
    BY <2>1 DEF Registered
  <2> QED BY <2>1, <2>2, GetStep DEF Abstract, Forgets
<1>6. CASE \E c \in Calls : StoreEffect(c)
  <2>1. PICK c \in Calls : stage[c] = "storing" /\ BackendSet(Key(c), c, ask[c].options)
    BY <1>6 DEF StoreEffect
  <2>2. Key(c) \in Keys /\ ask[c].options \in Options /\ c \in Values
    BY <2>1, CallsAssumption DEF Registered, Pending
  <2> QED BY <2>1, <2>2, SetStep DEF Abstract, Writes
<1>7. CASE Passing
  BY <1>7, TickStep DEF Passing, Abstract
<1>8. CASE UNCHANGED backendVars
  BY <1>8, BackendStutter DEF Abstract
<1>9. ASSUME NEW c \in Calls,
             \/ CallWrap(c) \/ Hit(c) \/ Join(c) \/ StartFetch(c) \/ Settle(c)
             \/ FetchResolves(c) \/ FetchRejects(c) \/ FetchEnds(c) \/ Fault(c)
      PROVE  UNCHANGED backendVars
  BY <1>9 DEF CallWrap, Hit, Join, StartFetch, Settle, FetchResolves, FetchRejects,
              FetchEnds, Fault, ReadFails, StoreFails
<1>10. CASE AllSettled \/ UNCHANGED vars
  BY <1>8, <1>10 DEF AllSettled, vars
<1> QED BY <1>1, <1>2, <1>3, <1>4, <1>5, <1>6, <1>7, <1>8, <1>9, <1>10
        DEF Next, Pass, Wrap, Fetch

\* The client keeps its types, and fetches stay registered until they settle.
LEMMA ClientStep ==
  ASSUME IInv, [Next]_vars
  PROVE  ClientType' /\ Registered'
<1>0. BackendInv /\ ClientType /\ Registered
  BY InvParts
<1> USE DEF ClientType, Registered, Pending, Key
<1>1. ASSUME UNCHANGED clientVars, faults' \in Nat, direct' \in Nat
      PROVE  ClientType' /\ Registered'
  BY <1>0, <1>1 DEF clientVars
<1>2. CASE Pass
  <2>1. UNCHANGED << clientVars, faults >> /\ direct' = direct + 1
    BY <1>2 DEF Pass, Get, Set, Invalidate, InvalidateTag, Direct
  <2> QED BY <1>0, <1>1, <2>1
<1>3. CASE Passing \/ AllSettled \/ UNCHANGED vars
  BY <1>0, <1>1, <1>3 DEF Passing, AllSettled, vars
<1>4. ASSUME NEW c \in Calls, CallWrap(c) PROVE ClientType' /\ Registered'
  <2>1. PICK k \in Keys, o \in Options :
          ask' = [ask EXCEPT ![c] = [key |-> k, options |-> o]]
    BY <1>4 DEF CallWrap
  <2>2. ask' \in [Calls -> Ask] /\ ask'[c].key \in Keys /\ ask'[c].options \in Options
    BY <1>0, <2>1 DEF Ask
  <2>3. stage[c] = "none"
    BY <1>0, <1>4 DEF CallWrap
  <2> QED BY <1>0, <1>4, <2>1, <2>2, <2>3 DEF CallWrap
<1>5. ASSUME NEW c \in Calls, ReadEffect(c) PROVE ClientType' /\ Registered'
  BY <1>0, <1>5 DEF ReadEffect
<1>6. ASSUME NEW c \in Calls, Hit(c) PROVE ClientType' /\ Registered'
  BY <1>0, <1>6 DEF Hit
<1>7. ASSUME NEW c \in Calls, Join(c) PROVE ClientType' /\ Registered'
  BY <1>0, <1>7 DEF Join
<1>8. ASSUME NEW c \in Calls, StartFetch(c) PROVE ClientType' /\ Registered'
  <2>1. Key(c) \in Keys /\ inFlight[Key(c)] = None /\ ask[c].options \in Options
    BY <1>0, <1>8 DEF StartFetch, Starts
  <2>2. \A d \in Calls : Pending(d) => Key(d) # Key(c)
    BY <1>0, <2>1, CallsAssumption, NoneIsNoWrite
  <2>3. PICK first \in {"running", "rejected"} : stage' = [stage EXCEPT ![c] = first]
    BY <1>8 DEF StartFetch, FirstStage
  <2> QED BY <1>0, <1>8, <2>1, <2>2, <2>3 DEF StartFetch
<1>9. ASSUME NEW c \in Calls, Settle(c) PROVE ClientType' /\ Registered'
  BY <1>0, <1>9, CallsAssumption DEF Settle
<1>10. ASSUME NEW c \in Calls, FetchResolves(c) PROVE ClientType' /\ Registered'
  BY <1>0, <1>10 DEF FetchResolves
<1>11. ASSUME NEW c \in Calls, FetchRejects(c) PROVE ClientType' /\ Registered'
  BY <1>0, <1>11 DEF FetchRejects, Release
<1>12. ASSUME NEW c \in Calls, StoreEffect(c) PROVE ClientType' /\ Registered'
  BY <1>0, <1>12 DEF StoreEffect
<1>13. ASSUME NEW c \in Calls, FetchEnds(c) PROVE ClientType' /\ Registered'
  BY <1>0, <1>13 DEF FetchEnds, Release
<1>14. ASSUME NEW c \in Calls, Fault(c) PROVE ClientType' /\ Registered'
  BY <1>0, <1>14 DEF Fault, ReadFails, StoreFails
<1> QED BY <1>2, <1>3, <1>4, <1>5, <1>6, <1>7, <1>8, <1>9, <1>10, <1>11, <1>12,
           <1>13, <1>14 DEF Next, Wrap, Fetch

LEMMA InitInv == Init => IInv
<1> SUFFICES ASSUME Init PROVE IInv
  OBVIOUS
<1>1. store = << >> /\ DOMAIN store = {} /\ older = {}
  BY DEF Init, BackendInit
<1>2. MapOK(Current)
  BY <1>1, FS_EmptySet DEF Init, BackendInit, MapOK, WellOrdered, Current
<1>3. MemoryBounded
  BY <1>1, FS_EmptySet, MaxEntriesAssumption DEF MemoryBounded
<1>4. HeldIsLatest /\ BackendType
  BY <1>1 DEF Init, BackendInit, HeldIsLatest, BackendType
<1>5. ClientType /\ Registered
  BY DEF Init, ClientType, Registered, Pending, NothingAsked, Ask
<1> QED BY <1>2, <1>3, <1>4, <1>5, InvParts DEF BackendInv

-----------------------------------------------------------------------------
(* The theorems.                                                           *)

\* The invariant holds in every reachable state.
THEOREM Inductive == Spec => []IInv
<1>1. Init => IInv
  BY InitInv
<1>2. IInv /\ [Next]_vars => IInv'
  <2> SUFFICES ASSUME IInv, [Next]_vars PROVE IInv'
    OBVIOUS
  <2>1. BackendInv' /\ ClientType' /\ Registered'
    BY BackendStep, ClientStep
  <2>2. TypeOK'
    BY <2>1 DEF TypeOK, ClientType, BackendInv, BackendType, MapOK, Current
  <2> QED BY <2>1, <2>2 DEF IInv, BackendInv
<1> QED BY <1>1, <1>2, PTL DEF Spec

\* Every variable of the client and the backend keeps its shape.
THEOREM TypeCorrect == Spec => []TypeOK
<1>1. IInv => TypeOK
  BY DEF IInv
<1> QED BY <1>1, Inductive, PTL

\* After any sequence of operations the tag index lists exactly the tags of
\* the entries (removeKey, set and invalidateTag keep both directions).
THEOREM IndexIsExact == Spec => []IndexExact
<1>1. IInv => IndexExact
  BY DEF IInv, IndexExact, MapOK, Current
<1> QED BY <1>1, Inductive, PTL

\* The Map never holds more than maxEntries.
THEOREM CapacityHolds == Spec => []MemoryBounded
<1>1. IInv => MemoryBounded
  BY DEF IInv
<1> QED BY <1>1, Inductive, PTL

\* However many calls miss at once, and however the backend and the fetchers
\* behave, a key has at most one fetch under way.
THEOREM FetchesOnceAtATime == Spec => []SingleFlight
<1>1. IInv => SingleFlight
  BY DEF IInv, Registered, SingleFlight
<1> QED BY <1>1, Inductive, PTL

\* No step leaves a fetch registered that has settled.
LEMMA LiveStep ==
  ASSUME ~ SyncThrows, IInv, NoStuckFlight, [Next]_vars
  PROVE  NoStuckFlight'
<1>0. ClientType /\ Registered
  BY InvParts
<1> USE DEF ClientType, Registered, Pending, Key, NoStuckFlight
<1>1. ASSUME UNCHANGED << inFlight, stage, ask >> PROVE NoStuckFlight'
  BY <1>1
<1>2. CASE Pass \/ Passing \/ AllSettled \/ UNCHANGED vars
  BY <1>1, <1>2 DEF Pass, Get, Set, Invalidate, InvalidateTag, Direct, Passing,
                    AllSettled, vars, clientVars
<1>3. ASSUME NEW c \in Calls,
             ReadEffect(c) \/ Hit(c) \/ Join(c) \/ Settle(c) \/ ReadFails(c)
      PROVE  NoStuckFlight'
  BY <1>1, <1>3 DEF ReadEffect, Hit, Join, Settle, ReadFails
<1>4. ASSUME NEW c \in Calls, CallWrap(c) PROVE NoStuckFlight'
  <2>1. stage[c] = "none"
    BY <1>0, <1>4 DEF CallWrap
  <2>2. PICK k \in Keys, o \in Options :
          ask' = [ask EXCEPT ![c] = [key |-> k, options |-> o]]
    BY <1>4 DEF CallWrap
  <2> QED BY <1>0, <1>4, <2>1, <2>2 DEF CallWrap
<1>5. ASSUME NEW c \in Calls, StartFetch(c) PROVE NoStuckFlight'
  BY <1>0, <1>5 DEF StartFetch, Starts, FirstStage
<1>6. ASSUME NEW c \in Calls, FetchResolves(c) \/ StoreEffect(c) \/ StoreFails(c)
      PROVE  NoStuckFlight'
  BY <1>0, <1>6 DEF FetchResolves, StoreEffect, StoreFails
<1>7. ASSUME NEW c \in Calls, FetchRejects(c) \/ FetchEnds(c) PROVE NoStuckFlight'
  <2>1. /\ inFlight' = [inFlight EXCEPT ![Key(c)] = None]
        /\ Pending(c) /\ UNCHANGED ask
        /\ \A d \in Calls \ {c} : stage'[d] = stage[d]
    BY <1>0, <1>7 DEF FetchRejects, FetchEnds, Release
  <2> QED BY <1>0, <2>1
<1> QED BY <1>2, <1>3, <1>4, <1>5, <1>6, <1>7 DEF Next, Wrap, Fetch, Fault

\* What is registered for a key is a fetch of that key that has yet to
\* settle, if fetchers return a promise before they fail: nobody joins a
\* dead one, and a later call fetches again.
THEOREM NoDeadFlight == ASSUME ~ SyncThrows PROVE Spec => []NoStuckFlight
<1>1. Init => NoStuckFlight
  BY DEF Init, NoStuckFlight
<1>2. IInv /\ NoStuckFlight /\ [Next]_vars => NoStuckFlight'
  BY LiveStep
<1> QED BY <1>1, <1>2, Inductive, PTL DEF Spec

-----------------------------------------------------------------------------
(* The backend under the client keeps the contract of a tagged cache.      *)

\* Each step is one of the contract, or none.
LEMMA ContractStep ==
  ASSUME IInv, [Next]_vars
  PROVE  [Promise!Next]_(Promise!vars)
<1>0. /\ latest \in [Keys -> [value : Values, tags : SUBSET Tags] \cup {None}]
      /\ Abstract
  BY BackendStep DEF IInv, TypeOK
<1> DEFINE held == [k \in Keys |-> Held(k)]
<1>h. held' = [k \in Keys |-> Held(k)']
  OBVIOUS
<1>1. CASE UNCHANGED << store, latest >>
  BY <1>1 DEF Promise!vars, Held
<1>2. ASSUME NEW k \in Keys, Forgets(k) PROVE Promise!Forget(k) \/ UNCHANGED Promise!vars
  <2>1. CASE Held(k)' = Held(k)
    BY <1>2, <2>1 DEF Forgets, Promise!vars
  <2>2. CASE Held(k)' = None
    <3>1. held' = [held EXCEPT ![k] = None]
      BY <1>2, <2>2 DEF Forgets
    <3> QED BY <1>2, <3>1 DEF Forgets, Promise!Forget
  <2> QED BY <1>2, <2>1, <2>2 DEF Forgets
<1>3. ASSUME NEW k \in Keys, Deletes(k) PROVE Promise!Delete(k)
  <2>1. held' = [held EXCEPT ![k] = None]
    BY <1>3 DEF Deletes
  <2> QED BY <1>3, <2>1 DEF Deletes, Promise!Delete
<1>4. ASSUME NEW k \in Keys, NEW w \in [value : Values, tags : SUBSET Tags], Writes(k, w)
      PROVE  Promise!Write(k, w)
  <2> DEFINE lost == {j \in Keys \ {k} : Held(j)' # Held(j)}
  <2>1. held' = [j \in Keys |-> IF j = k THEN w
                                ELSE IF j \in lost THEN None ELSE held[j]]
    BY <1>4 DEF Writes
  <2>2. lost \in SUBSET (Keys \ {k})
    OBVIOUS
  <2> HIDE DEF lost
  <2> QED BY <1>4, <2>1, <2>2 DEF Writes, Promise!Write
<1>5. ASSUME NEW t \in Tags, Invalidates(t) PROVE Promise!InvalidateTag(t)
  <2>1. held' = [k \in Keys |-> IF k \in Promise!Tagged(t) THEN None ELSE held[k]]
    BY <1>5 DEF Invalidates, Promise!Tagged
  <2> QED BY <1>5, <2>1 DEF Invalidates, Promise!InvalidateTag, Promise!Tagged
<1> QED BY <1>0, <1>1, <1>2, <1>3, <1>4, <1>5 DEF Abstract, Promise!Next, Promise!Written

\* Whatever is evicted, expires, is re-tagged or fails in between, the cache
\* answers with the last write or not at all, and invalidations reach the
\* keys that carry the tag and no others.
THEOREM BackendKeepsContract == Spec => ImplementsTaggedCache
<1>1. Init => Promise!Init
  BY DEF Init, BackendInit, Promise!Init, Held
<1>2. IInv /\ [Next]_vars => [Promise!Next]_(Promise!vars)
  BY ContractStep
<1> QED BY <1>1, <1>2, Inductive, PTL DEF Spec, ImplementsTaggedCache, Promise!Spec

-----------------------------------------------------------------------------
(* Nothing is lost without a cause.                                        *)

Cause(k) ==
  \/ latest'[k] = None
  \/ IsExpired(store[k])
  \/ Cardinality(since'[k]) >= MaxEntries

Lost == DOMAIN store \ DOMAIN store'

\* A use is one more reason to evict the others.
LEMMA UsedGrows ==
  ASSUME BackendType, UsedSince, NEW key \in Keys, Used(key), NEW k \in Keys
  PROVE  /\ IsFiniteSet(since'[k])
         /\ k # key => since'[k] = since[k] \cup {key}
<1>1. since'[k] = IF k = key THEN {} ELSE since[k] \cup {key}
  BY DEF Used
<1>2. IsFiniteSet(since[k]) /\ IsFiniteSet({})
  BY FS_EmptySet DEF UsedSince
<1>3. IsFiniteSet(since[k] \cup {key})
  BY <1>2, FS_AddElement
<1> QED BY <1>1, <1>2, <1>3

\* Removing keys leaves the order of the others.
LEMMA RemoveKeepsOrder ==
  ASSUME BackendInv, UsedSince, NEW S, Become(Remove(Current, S)), since' = since
  PROVE  UsedSince' /\ Lost \subseteq S
<1>1. /\ DOMAIN store' = DOMAIN store \ S
  <2>1. DOMAIN Remove(Current, S).store = DOMAIN store \ S
    BY RemoveOK, CurrentFields
  <2> QED BY <2>1 DEF Become
<1>2. older' \subseteq older
  BY DEF Become, Remove, Without, Current
<1> QED BY <1>1, <1>2 DEF UsedSince, Lost

\* A read that hits makes its key the most recent.
LEMMA HitKeepsOrder ==
  ASSUME BackendInv, UsedSince, NEW key \in Keys, Fresh(key),
         Become(Touch(Current, key)), Used(key)
  PROVE  UsedSince' /\ Lost = {}
<1>1. /\ store' = store
      /\ older' = Last(Without(older, {key}), DOMAIN store, key)
  BY DEF Become, Touch, Current
<1>2. \A k \in Keys : IsFiniteSet(since'[k])
  BY UsedGrows DEF BackendInv
<1>3. ASSUME NEW k \in DOMAIN store, NEW j \in DOMAIN store, << k, j >> \in older'
      PROVE  j \in since'[k]
  <2>1. \/ << k, j >> \in older /\ k # key
        \/ j = key /\ k # key
    BY <1>1, <1>3 DEF Last, Without
  <2>2. k \in Keys /\ since'[k] = since[k] \cup {key}
    BY <2>1, CurrentFields, UsedGrows DEF BackendInv
  <2> QED BY <2>1, <2>2 DEF UsedSince
<1> QED BY <1>1, <1>2, <1>3 DEF UsedSince, Lost

\* A write evicts, if it must, the key that was used longest ago; as many
\* others have been used since as the cache holds.
LEMMA SetEvictsOldest ==
  ASSUME BackendInv, UsedSince, NEW key \in Keys, NEW entry \in Entry,
         Become(StoreEntry(Current, key, entry)), Used(key)
  PROVE  UsedSince' /\ \A k \in Lost : Cardinality(since'[k]) >= MaxEntries
<1> DEFINE r == Remove(Current, {key})
           i == Insert(r, key, entry)
           D == DOMAIN i.store
<1>1. /\ MapOK(r) /\ DOMAIN r.store = DOMAIN store \ {key}
      /\ r.older \subseteq older
      /\ r.older \subseteq (DOMAIN r.store) \X (DOMAIN r.store)
  <2>1. MapOK(r) /\ DOMAIN r.store = DOMAIN store \ {key}
    BY RemoveOK, CurrentFields
  <2>2. r.older \subseteq older
    BY DEF Remove, Without, Current
  <2> HIDE DEF r
  <2> QED BY <2>1, <2>2 DEF MapOK
<1>2. i.older = r.older \cup {<< j, key >> : j \in DOMAIN r.store \ {key}}
  BY DEF Insert, Last
<1>3. Become(Evict(i))
  BY DEF StoreEntry
<1> HIDE DEF r
<1>4. /\ MapOK(i) /\ D = DOMAIN store \cup {key}
      /\ \A j : << key, j >> \notin i.older
  BY <1>1, InsertOK
<1>5. ASSUME NEW k \in D, NEW j \in D, << k, j >> \in i.older
      PROVE  k # key /\ j \in since'[k]
  <2>1. k # key /\ k \in DOMAIN store /\ k \in Keys
    BY <1>4, <1>5, CurrentFields
  <2>2. since'[k] = since[k] \cup {key}
    BY <2>1, UsedGrows DEF BackendInv
  <2>3. \/ << k, j >> \in older /\ j \in DOMAIN store
        \/ j = key
    BY <1>1, <1>2, <1>4, <1>5
  <2> QED BY <2>1, <2>2, <2>3 DEF UsedSince
<1>6. i.older \subseteq D \X D /\ IsFiniteSet(D) /\ D \subseteq Keys
  BY <1>4 DEF MapOK
<1>7. \A k \in Keys : IsFiniteSet(since'[k])
  BY UsedGrows DEF BackendInv
<1> HIDE DEF i
<1>8. CASE ~ (Cardinality(D) > MaxEntries)
  <2>1. store' = i.store /\ older' = i.older
    BY <1>3, <1>8 DEF Evict, Become
  <2> QED BY <1>4, <1>5, <1>7, <2>1 DEF UsedSince, Lost
<1>9. CASE Cardinality(D) > MaxEntries
  <2>1. /\ store' = Remove(i, Oldest(i)).store
        /\ older' = Remove(i, Oldest(i)).older
    BY <1>3, <1>9 DEF Evict, Become
  <2>2. DOMAIN store' = D \ Oldest(i) /\ older' \subseteq i.older
    BY <1>4, <2>1, RemoveOK DEF Remove, Without
  <2>3. UsedSince'
    BY <1>5, <1>7, <2>2 DEF UsedSince
  <2>4. ASSUME NEW k \in Lost PROVE Cardinality(since'[k]) >= MaxEntries
    <3>1. k \in D /\ \A j \in D \ {k} : << k, j >> \in i.older
      BY <1>4, <2>2 DEF Lost, Oldest
    <3>2. D \ {k} \subseteq since'[k]
      BY <1>5, <3>1
    <3>3. /\ Cardinality(D \ {k}) = Cardinality(D) - 1 /\ IsFiniteSet(D \ {k})
          /\ Cardinality(D) \in Nat
      BY <1>6, <3>1, FS_RemoveElement, FS_CardinalityType
    <3>4. IsFiniteSet(since'[k])
      BY <1>6, <1>7, <3>1
    <3>5. Cardinality(D \ {k}) <= Cardinality(since'[k]) /\ Cardinality(since'[k]) \in Nat
      BY <3>2, <3>4, FS_Subset, FS_CardinalityType
    <3> QED BY <1>9, <3>3, <3>5, MaxEntriesAssumption
  <2> QED BY <2>3, <2>4
<1> QED BY <1>8, <1>9

\* Each operation keeps the order right and has a cause for what it loses.
LEMMA GetHasCause ==
  ASSUME BackendInv, UsedSince, NEW key \in Keys, NEW answer, BackendGet(key, answer)
  PROVE  UsedSince' /\ \A k \in Lost : Cause(k)
<1>1. CASE Fresh(key)
  BY <1>1, HitKeepsOrder DEF BackendGet
<1>2. CASE ~ Fresh(key)
  <2>1. UsedSince' /\ Lost \subseteq {key}
    BY <1>2, RemoveKeepsOrder DEF BackendGet
  <2>2. \A k \in Lost : IsExpired(store[k])
    BY <1>2, <2>1 DEF Fresh, Lost
  <2> QED BY <2>1, <2>2 DEF Cause
<1> QED BY <1>1, <1>2

LEMMA SetHasCause ==
  ASSUME BackendInv, UsedSince, NEW key \in Keys, NEW value \in Values,
         NEW options \in Options, BackendSet(key, value, options)
  PROVE  UsedSince' /\ \A k \in Lost : Cause(k)
<1> DEFINE entry == [ value     |-> value,
                      expiresAt |-> IF options.ttl = None THEN None ELSE now + options.ttl,
                      tags      |-> options.tags ]
<1>1. entry \in Entry
  <2>1. /\ options.tags \in SUBSET Tags
        /\ options.ttl \in (Nat \ {0}) \cup {None}
        /\ now \in Nat
    BY OptionsAssumption DEF BackendInv, BackendType
  <2> QED BY <2>1 DEF Entry
<1>2. Become(StoreEntry(Current, key, entry)) /\ Used(key)
  BY DEF BackendSet
<1> HIDE DEF entry
<1> QED BY <1>1, <1>2, SetEvictsOldest DEF Cause

LEMMA DeleteHasCause ==
  ASSUME BackendInv, UsedSince, NEW key \in Keys, BackendDelete(key)
  PROVE  UsedSince' /\ \A k \in Lost : Cause(k)
<1>1. UsedSince' /\ Lost \subseteq {key}
  BY RemoveKeepsOrder DEF BackendDelete
<1>2. latest'[key] = None
  BY DEF BackendDelete, BackendInv, BackendType
<1> QED BY <1>1, <1>2 DEF Cause

LEMMA InvalidateHasCause ==
  ASSUME BackendInv, UsedSince, NEW tag \in Tags, BackendInvalidateTag(tag)
  PROVE  UsedSince' /\ \A k \in Lost : Cause(k)
<1>1. UsedSince' /\ Lost \subseteq tagIndex[tag]
  BY RemoveKeepsOrder DEF BackendInvalidateTag, RemoveTagged, Current
<1>2. ASSUME NEW k \in Lost PROVE latest'[k] = None
  <2>1. k \in DOMAIN store /\ k \in Keys /\ tag \in store[k].tags
    BY <1>1, CurrentFields DEF Lost, MapOK, Current
  <2>2. latest[k] = [value |-> store[k].value, tags |-> store[k].tags]
    BY <2>1 DEF BackendInv, HeldIsLatest
  <2> QED BY <2>1, <2>2 DEF BackendInvalidateTag
<1> QED BY <1>1, <1>2 DEF Cause

LEMMA CauseStep ==
  ASSUME IInv, UsedSince, [Next]_vars
  PROVE  UsedSince' /\ \A k \in Lost : Cause(k)
<1> USE InvParts
<1>1. CASE \E k \in Keys : Get(k)
  BY <1>1, GetHasCause DEF Get, Direct
<1>2. CASE \E k \in Keys : Set(k)
  BY <1>2, SetHasCause DEF Set, Direct
<1>3. CASE \E k \in Keys : Invalidate(k)
  BY <1>3, DeleteHasCause DEF Invalidate, Direct
<1>4. CASE \E t \in Tags : InvalidateTag(t)
  BY <1>4, InvalidateHasCause DEF InvalidateTag, Direct
<1>5. CASE \E c \in Calls : ReadEffect(c)
  <2>1. PICK c \in Calls, answer \in Values \cup {None} :
          pc[c] = "reading" /\ BackendGet(Key(c), answer)
    BY <1>5 DEF ReadEffect
  <2>2. Key(c) \in Keys
    BY <2>1 DEF Registered
  <2> QED BY <2>1, <2>2, GetHasCause
<1>6. CASE \E c \in Calls : StoreEffect(c)
  <2>1. PICK c \in Calls : stage[c] = "storing" /\ BackendSet(Key(c), c, ask[c].options)
    BY <1>6 DEF StoreEffect
  <2>2. Key(c) \in Keys /\ ask[c].options \in Options /\ c \in Values
    BY <2>1, CallsAssumption DEF Registered, Pending
  <2> QED BY <2>1, <2>2, SetHasCause
<1>7. CASE UNCHANGED << store, older, since >>
  BY <1>7 DEF UsedSince, Lost
<1>8. CASE Passing \/ AllSettled \/ UNCHANGED vars
  BY <1>7, <1>8 DEF Passing, Tick, map, AllSettled, vars, backendVars
<1>9. ASSUME NEW c \in Calls,
             \/ CallWrap(c) \/ Hit(c) \/ Join(c) \/ StartFetch(c) \/ Settle(c)
             \/ FetchResolves(c) \/ FetchRejects(c) \/ FetchEnds(c) \/ Fault(c)
      PROVE  UNCHANGED << store, older, since >>
  BY <1>9 DEF CallWrap, Hit, Join, StartFetch, Settle, FetchResolves, FetchRejects,
              FetchEnds, Fault, ReadFails, StoreFails, backendVars
<1> QED BY <1>1, <1>2, <1>3, <1>4, <1>5, <1>6, <1>7, <1>8, <1>9 DEF Next, Pass, Wrap, Fetch

\* An entry leaves because it was deleted, expired, or is the least recently
\* used of more than the Map may hold, whatever mix of reads, writes,
\* invalidations and evictions came before.
THEOREM NothingLostForNothing == Spec => LossHasCause
<1>1. Init => UsedSince
  BY FS_EmptySet DEF Init, BackendInit, UsedSince
<1>2. IInv /\ UsedSince /\ [Next]_vars => UsedSince'
  BY CauseStep
<1>3. IInv /\ UsedSince /\ [Next]_vars =>
        [ \A k \in DOMAIN store \ DOMAIN store' :
            \/ latest'[k] = None
            \/ IsExpired(store[k])
            \/ Cardinality(since'[k]) >= MaxEntries ]_vars
  BY CauseStep DEF Lost, Cause
<1> QED BY <1>1, <1>2, <1>3, Inductive, PTL DEF Spec, LossHasCause
=============================================================================
