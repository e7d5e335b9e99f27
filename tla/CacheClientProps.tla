-------------------------- MODULE CacheClientProps --------------------------
(***************************************************************************)
(* What must hold of CacheClient and of the backend under it.              *)
(***************************************************************************)
EXTENDS CacheClient

\* The variables have the shapes the code's declarations give them, the
\* order is one of the keys of the Map, and who waits, waits for a fetch.
TypeOK ==
  /\ now \in Nat
  /\ DOMAIN store \subseteq Keys /\ \A k \in DOMAIN store : store[k] \in Entry
  /\ older \subseteq (DOMAIN store) \X (DOMAIN store)
  /\ tagIndex \in [Tags -> SUBSET Keys]
  /\ inFlight \in [Keys -> Calls \cup {None}]
  /\ pc \in [Calls -> {"idle", "reading", "answered", "waiting", "done"}]
  /\ ask \in [Calls -> Ask]
  /\ found \in [Calls -> Values \cup {None}]
  /\ flight \in [Calls -> Calls \cup {None}]
  /\ \A c \in Calls : pc[c] = "waiting" => flight[c] \in Calls
  /\ stage \in [Calls -> {"none", "running", "storing", "stored", "resolved", "rejected"}]
  /\ result \in [Calls -> Values \cup {"none", "rejected"}]
  /\ latest \in [Keys -> [value : Values, tags : SUBSET Tags] \cup {None}]
  /\ since \in [Keys -> SUBSET Keys]
  /\ faults \in Nat /\ direct \in Nat

-----------------------------------------------------------------------------
(* The backend.                                                            *)

\* The two directions of the tag bookkeeping agree after every operation,
\* removals by expiry and by eviction included (README of cache-kit, "Tag
\* bookkeeping is bidirectional"): a tag lists the keys stored with it, no
\* more, no fewer.
IndexExact ==
  \A t \in Tags : tagIndex[t] = {k \in DOMAIN store : t \in store[k].tags}

\* "maximum number of entries held at once", expired ones included.
MemoryBounded == Cardinality(DOMAIN store) <= MaxEntries

\* Nothing is lost without a cause: a key leaves the cache because it was
\* deleted or its tag invalidated, because its time was over, or because at
\* least maxEntries other keys were read or written since it last was.
LossHasCause ==
  [][ \A k \in DOMAIN store \ DOMAIN store' :
        \/ latest'[k] = None
        \/ IsExpired(store[k])
        \/ Cardinality(since'[k]) >= MaxEntries ]_vars

Held(k) ==
  IF k \in DOMAIN store THEN [value |-> store[k].value, tags |-> store[k].tags]
  ELSE None

Promise == INSTANCE TaggedCache WITH held <- [k \in Keys |-> Held(k)]

\* The backend under the client keeps the CacheBackend contract: nothing
\* survives its invalidation, no invalidation reaches a key that was tagged
\* away, and the last write is what is read.
ImplementsTaggedCache == Promise!Spec

-----------------------------------------------------------------------------
(* wrap.                                                                   *)

Pending(c) == stage[c] \in {"running", "storing", "stored"}

\* However many wrap calls miss at once, a key has at most one fetch under
\* way (README of cache-kit, "Cache-stampede protection").
SingleFlight ==
  \A c, d \in Calls : Pending(c) /\ Pending(d) /\ Key(c) = Key(d) => c = d

\* "does not leave a failed key permanently in-flight - a later wrap call
\* retries" (client.test.ts:65): what is registered for a key is a fetch of
\* that key which is still going to settle, so nobody joins a dead one.
NoStuckFlight ==
  \A k \in Keys : inFlight[k] # None =>
    Pending(inFlight[k]) /\ Key(inFlight[k]) = k

\* Every wrap call settles, with the fetch it started or with the one it
\* joined, provided fetchers settle.
WrapSettles == \A c \in Calls : pc[c] = "reading" ~> pc[c] = "done"

-----------------------------------------------------------------------------
(* What carries the theorems over a step.                                  *)

\* Any entries one looks at, one of them is the oldest; so there is always
\* one to evict.
WellOrdered(m) ==
  \A S \in SUBSET DOMAIN m.store :
    S # {} => \E k \in S : \A j \in S \ {k} : << k, j >> \in m.older

MapOK(m) ==
  /\ m.store \in [DOMAIN m.store -> Entry]
  /\ DOMAIN m.store \subseteq Keys
  /\ IsFiniteSet(DOMAIN m.store)
  /\ m.older \subseteq (DOMAIN m.store) \X (DOMAIN m.store)
  /\ WellOrdered(m)
  /\ m.tagIndex = [t \in Tags |-> {k \in DOMAIN m.store : t \in m.store[k].tags}]

\* What the cache holds is what was last written.
HeldIsLatest ==
  \A k \in DOMAIN store :
    latest[k] = [value |-> store[k].value, tags |-> store[k].tags]

\* Whatever is more recent than a key has been used since the key was.
UsedSince ==
  /\ \A k \in Keys : IsFiniteSet(since[k])
  /\ \A k, j \in DOMAIN store : << k, j >> \in older => j \in since[k]

\* A fetch that has not settled is the registered one, and its call has
\* gone past the point where it would start another.
Registered ==
  \A c \in Calls :
    /\ Pending(c) => Key(c) \in Keys /\ inFlight[Key(c)] = c
    /\ stage[c] # "none" => pc[c] \in {"waiting", "done"}
    /\ pc[c] \in {"reading", "answered", "waiting"} =>
         Key(c) \in Keys /\ ask[c].options \in Options
    /\ Pending(c) => ask[c].options \in Options

IInv ==
  /\ TypeOK
  /\ MapOK(Current) /\ MemoryBounded
  /\ HeldIsLatest
  /\ Registered
=============================================================================
