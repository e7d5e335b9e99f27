------------------------- MODULE RedisBackendProofs -------------------------
(***************************************************************************)
(* Proofs about the redis backend, for any number of calls, keys and tags, *)
(* and however writes interleave and fail.                                 *)
(***************************************************************************)
EXTENDS RedisBackendProps, SetInduction, FiniteSetTheorems, SequenceTheorems, TLAPS

-----------------------------------------------------------------------------
(* Sequences of commands.                                                  *)

LEMMA TailHolds ==
  ASSUME NEW S, NEW s \in Seq(S), s # << >>
  PROVE  /\ Head(s) \in S /\ Tail(s) \in Seq(S)
         /\ Holds(s, Head(s))
         /\ \A x : Holds(Tail(s), x) => Holds(s, x)
         /\ \A x : Holds(s, x) /\ x # Head(s) => Holds(Tail(s), x)
<1>1. /\ Len(s) \in Nat /\ Len(s) # 0 /\ DOMAIN s = 1 .. Len(s)
      /\ Head(s) = s[1] /\ Head(s) \in S
      /\ Tail(s) \in Seq(S) /\ Len(Tail(s)) = Len(s) - 1 /\ DOMAIN Tail(s) = 1 .. Len(s) - 1
      /\ \A i \in 1 .. Len(s) - 1 : Tail(s)[i] = s[i + 1]
  BY HeadTailProperties, LenProperties, EmptySeq
<1>2. Holds(s, Head(s))
  BY <1>1 DEF Holds
<1>3. ASSUME NEW x, Holds(Tail(s), x) PROVE Holds(s, x)
  <2>1. PICK i \in 1 .. Len(s) - 1 : s[i + 1] = x
    BY <1>1, <1>3 DEF Holds
  <2>2. i + 1 \in DOMAIN s
    BY <1>1
  <2> QED BY <2>1, <2>2 DEF Holds
<1>4. ASSUME NEW x, Holds(s, x), x # Head(s) PROVE Holds(Tail(s), x)
  <2>1. PICK i \in 1 .. Len(s) : s[i] = x
    BY <1>1, <1>4 DEF Holds
  <2>2. i # 1 /\ i - 1 \in 1 .. Len(s) - 1 /\ (i - 1) + 1 = i
    BY <1>1, <1>4, <2>1
  <2>3. Tail(s)[i - 1] = x
    BY <1>1, <2>1, <2>2
  <2> QED BY <1>1, <2>2, <2>3 DEF Holds
<1> QED BY <1>1, <1>2, <1>3, <1>4

LEMMA TailOrdered ==
  ASSUME NEW S, NEW s \in Seq(S), s # << >>, NEW x, NEW y, Ordered(s, x, y)
  PROVE  /\ Ordered(Tail(s), x, y)
         /\ Head(s) = x => Holds(Tail(s), y)
<1>1. /\ Len(s) \in Nat /\ Len(s) # 0 /\ DOMAIN s = 1 .. Len(s)
      /\ Head(s) = s[1]
      /\ DOMAIN Tail(s) = 1 .. Len(s) - 1
      /\ \A i \in 1 .. Len(s) - 1 : Tail(s)[i] = s[i + 1]
  BY HeadTailProperties, LenProperties, EmptySeq
<1>2. ASSUME NEW i \in 1 .. Len(s), s[i] = x
      PROVE  \E j \in 1 .. Len(s) - 1 : i - 1 < j /\ Tail(s)[j] = y
  <2>1. PICK j \in 1 .. Len(s) : i < j /\ s[j] = y
    BY <1>1, <1>2 DEF Ordered
  <2>2. j - 1 \in 1 .. Len(s) - 1 /\ i - 1 < j - 1 /\ (j - 1) + 1 = j
    BY <1>1, <2>1
  <2> QED BY <1>1, <2>1, <2>2
<1>3. ASSUME NEW i \in 1 .. Len(s) - 1, Tail(s)[i] = x
      PROVE  \E j \in 1 .. Len(s) - 1 : i < j /\ Tail(s)[j] = y
  <2>1. i + 1 \in 1 .. Len(s) /\ s[i + 1] = x /\ (i + 1) - 1 = i
    BY <1>1, <1>3
  <2>2. \E j \in 1 .. Len(s) - 1 : (i + 1) - 1 < j /\ Tail(s)[j] = y
    BY <1>2, <2>1
  <2> QED BY <2>1, <2>2
<1>4. ASSUME Head(s) = x PROVE Holds(Tail(s), y)
  <2>1. 1 \in 1 .. Len(s) /\ s[1] = x
    BY <1>1, <1>4
  <2> QED BY <1>1, <1>2, <2>1 DEF Holds
<1> QED BY <1>1, <1>3, <1>4 DEF Ordered

LEMMA ConcatHolds ==
  ASSUME NEW S, NEW s \in Seq(S), NEW t \in Seq(S)
  PROVE  /\ s \o t \in Seq(S)
         /\ \A x : Holds(s \o t, x) <=> Holds(s, x) \/ Holds(t, x)
<1>1. /\ Len(s) \in Nat /\ DOMAIN s = 1 .. Len(s)
      /\ Len(t) \in Nat /\ DOMAIN t = 1 .. Len(t)
      /\ s \o t \in Seq(S)
      /\ DOMAIN (s \o t) = 1 .. Len(s) + Len(t)
      /\ \A i \in 1 .. Len(s) + Len(t) :
           (s \o t)[i] = IF i <= Len(s) THEN s[i] ELSE t[i - Len(s)]
  BY ConcatProperties, LenProperties
<1>2. ASSUME NEW x, Holds(s \o t, x) PROVE Holds(s, x) \/ Holds(t, x)
  <2>1. PICK i \in 1 .. Len(s) + Len(t) : (s \o t)[i] = x
    BY <1>1, <1>2 DEF Holds
  <2>2. CASE i <= Len(s)
    <3>1. i \in 1 .. Len(s) /\ s[i] = x
      BY <1>1, <2>1, <2>2
    <3> QED BY <1>1, <3>1 DEF Holds
  <2>3. CASE ~ (i <= Len(s))
    <3>1. i - Len(s) \in 1 .. Len(t) /\ t[i - Len(s)] = x
      BY <1>1, <2>1, <2>3
    <3> QED BY <1>1, <3>1 DEF Holds
  <2> QED BY <2>2, <2>3
<1>3. ASSUME NEW x, Holds(s, x) PROVE Holds(s \o t, x)
  <2>1. PICK i \in 1 .. Len(s) : s[i] = x
    BY <1>1, <1>3 DEF Holds
  <2>2. i \in 1 .. Len(s) + Len(t) /\ i <= Len(s)
    BY <1>1
  <2> QED BY <1>1, <2>1, <2>2 DEF Holds
<1>4. ASSUME NEW x, Holds(t, x) PROVE Holds(s \o t, x)
  <2>1. PICK i \in 1 .. Len(t) : t[i] = x
    BY <1>1, <1>4 DEF Holds
  <2>2. /\ i + Len(s) \in 1 .. Len(s) + Len(t) /\ ~ (i + Len(s) <= Len(s))
        /\ (i + Len(s)) - Len(s) = i
    BY <1>1
  <2>3. (s \o t)[i + Len(s)] = x
    BY <1>1, <2>1, <2>2
  <2> QED BY <1>1, <2>2, <2>3 DEF Holds
<1> QED BY <1>1, <1>2, <1>3, <1>4

LEMMA ConcatOrdered ==
  ASSUME NEW S, NEW s \in Seq(S), NEW t \in Seq(S), NEW x, NEW y,
         ~ Holds(t, x), Holds(t, y) \/ Ordered(s, x, y)
  PROVE  Ordered(s \o t, x, y)
<1>1. /\ Len(s) \in Nat /\ DOMAIN s = 1 .. Len(s)
      /\ Len(t) \in Nat /\ DOMAIN t = 1 .. Len(t)
      /\ DOMAIN (s \o t) = 1 .. Len(s) + Len(t)
      /\ \A i \in 1 .. Len(s) + Len(t) :
           (s \o t)[i] = IF i <= Len(s) THEN s[i] ELSE t[i - Len(s)]
  BY ConcatProperties, LenProperties
<1> SUFFICES ASSUME NEW i \in 1 .. Len(s) + Len(t), (s \o t)[i] = x
             PROVE  \E j \in 1 .. Len(s) + Len(t) : i < j /\ (s \o t)[j] = y
  BY <1>1 DEF Ordered
<1>2. i \in 1 .. Len(s) /\ s[i] = x
  <2>1. CASE i <= Len(s)
    BY <1>1, <2>1
  <2>2. CASE ~ (i <= Len(s))
    <3>1. i - Len(s) \in 1 .. Len(t) /\ t[i - Len(s)] = x
      BY <1>1, <2>2
    <3> QED BY <1>1, <3>1 DEF Holds
  <2> QED BY <2>1, <2>2
<1>3. CASE Holds(t, y)
  <2>1. PICK j \in 1 .. Len(t) : t[j] = y
    BY <1>1, <1>3 DEF Holds
  <2>2. /\ j + Len(s) \in 1 .. Len(s) + Len(t) /\ ~ (j + Len(s) <= Len(s))
        /\ (j + Len(s)) - Len(s) = j /\ i < j + Len(s)
    BY <1>1, <1>2
  <2>3. (s \o t)[j + Len(s)] = y
    BY <1>1, <2>1, <2>2
  <2> QED BY <2>2, <2>3
<1>4. CASE Ordered(s, x, y)
  <2>1. PICK j \in 1 .. Len(s) : i < j /\ s[j] = y
    BY <1>1, <1>2, <1>4 DEF Ordered
  <2>2. j \in 1 .. Len(s) + Len(t) /\ j <= Len(s)
    BY <1>1
  <2> QED BY <1>1, <2>1, <2>2
<1> QED BY <1>3, <1>4

(* A set's sequence has its members and nothing else.                      *)
LEMMA SetToSeqIs ==
  ASSUME NEW T, IsFiniteSet(T)
  PROVE  /\ Cardinality(T) \in Nat
         /\ SetToSeq(T) \in [1 .. Cardinality(T) -> T]
         /\ \A x \in T : \E i \in 1 .. Cardinality(T) : SetToSeq(T)[i] = x
<1>1. Cardinality(T) \in Nat /\ ExistsBijection(1 .. Cardinality(T), T)
  BY FS_CardinalityType
<1>2. PICK f : f \in [1 .. Cardinality(T) -> T] /\ IsInjective(f)
  BY <1>1 DEF ExistsBijection, Bijection, Injection
<1>3. SetToSeq(T) \in [1 .. Cardinality(T) -> T] /\ IsInjective(SetToSeq(T))
  BY <1>2 DEF SetToSeq
<1>4. SetToSeq(T) \in Injection(1 .. Cardinality(T), T)
  BY <1>3 DEF Injection
<1>5. Cardinality(1 .. Cardinality(T)) = Cardinality(T)
  BY <1>1, FS_Interval
<1>6. SetToSeq(T) \in Surjection(1 .. Cardinality(T), T)
  BY <1>4, <1>5, FS_Injection
<1> QED BY <1>1, <1>3, <1>6 DEF Surjection

LEMMA PerTagIs ==
  ASSUME NEW do, NEW k, NEW T, IsFiniteSet(T)
  PROVE  /\ PerTag(do, k, T) \in Seq([do : {do}, key : {k}, tag : T])
         /\ \A t \in T : Holds(PerTag(do, k, T), TagCommand(do, k, t))
<1>1. PICK n, f : n = Cardinality(T) /\ f = SetToSeq(T)
  OBVIOUS
<1>2. n \in Nat /\ f \in [1 .. n -> T] /\ \A x \in T : \E i \in 1 .. n : f[i] = x
  BY <1>1, SetToSeqIs
<1>3. PerTag(do, k, T) = [i \in 1 .. n |-> [do |-> do, key |-> k, tag |-> f[i]]]
  BY <1>1, <1>2 DEF PerTag
<1>4. ASSUME NEW t \in T PROVE Holds(PerTag(do, k, T), TagCommand(do, k, t))
  <2>1. PICK i \in 1 .. n : f[i] = t
    BY <1>2
  <2> QED BY <1>3, <2>1 DEF Holds, TagCommand
<1>5. PerTag(do, k, T) \in Seq([do : {do}, key : {k}, tag : T])
  <2>1. \A i \in 1 .. n : [do |-> do, key |-> k, tag |-> f[i]] \in [do : {do}, key : {k}, tag : T]
    BY <1>2
  <2>2. PerTag(do, k, T) \in [1 .. n -> [do : {do}, key : {k}, tag : T]]
    BY <1>3, <2>1
  <2>3. \A S : \A g \in [1 .. n -> S] : g \in Seq(S)
    BY <1>2
  <2> QED BY <2>2, <2>3
<1> QED BY <1>4, <1>5

-----------------------------------------------------------------------------
(* FlattenSeq, whose recursion goes up to the length of its argument.      *)

IsFlat(f, n, seqs) ==
  f = [i \in 1 .. n |-> IF i = 1 THEN seqs[i] ELSE f[i - 1] \o seqs[i]]

LEMMA FlatExists ==
  ASSUME NEW seqs
  PROVE  \A n \in Nat : \E f : IsFlat(f, n, seqs)
<1> DEFINE S == {n \in Nat : \E f : IsFlat(f, n, seqs)}
<1>1. 0 \in S
  <2> DEFINE f == [i \in 1 .. 0 |-> seqs]
  <2>1. IsFlat(f, 0, seqs)
    <3>1. 1 .. 0 = {}
      OBVIOUS
    <3> QED BY <3>1 DEF IsFlat
  <2> QED BY <2>1
<1>2. ASSUME NEW n \in Nat, n \in S PROVE n + 1 \in S
  <2>1. PICK f : IsFlat(f, n, seqs)
    BY <1>2
  <2> DEFINE g == [i \in 1 .. n + 1 |->
                     IF i = n + 1 THEN IF i = 1 THEN seqs[i] ELSE f[n] \o seqs[i]
                     ELSE f[i]]
  <2>2. ASSUME NEW i \in 1 .. n + 1
        PROVE  g[i] = IF i = 1 THEN seqs[i] ELSE g[i - 1] \o seqs[i]
    <3>1. CASE i = 1
      <4>1. n = 0 \/ (1 \in 1 .. n /\ n + 1 # 1)
        OBVIOUS
      <4> QED BY <2>1, <3>1, <4>1 DEF IsFlat
    <3>2. CASE i # 1 /\ i = n + 1
      <4>1. i - 1 \in 1 .. n + 1 /\ i - 1 = n /\ n # n + 1
        BY <3>2
      <4>2. g[i - 1] = f[n]
        BY <4>1
      <4>3. g[i] = f[n] \o seqs[i]
        BY <3>2
      <4> QED BY <3>2, <4>2, <4>3
    <3>3. CASE i # 1 /\ i # n + 1
      <4>1. i \in 1 .. n /\ i - 1 \in 1 .. n + 1 /\ i - 1 # n + 1
        BY <3>3
      <4>2. g[i - 1] = f[i - 1] /\ g[i] = f[i]
        BY <3>3, <4>1
      <4>3. f[i] = f[i - 1] \o seqs[i]
        BY <2>1, <3>3, <4>1 DEF IsFlat
      <4> QED BY <3>3, <4>2, <4>3
    <3> QED BY <3>1, <3>2, <3>3
  <2>3. g = [i \in 1 .. n + 1 |-> g[i]]
    OBVIOUS
  <2>4. IsFlat(g, n + 1, seqs)
    <3> HIDE DEF g
    <3> QED BY <2>2, <2>3 DEF IsFlat
  <2> QED BY <2>4
<1>3. Nat \subseteq S
  <2> HIDE DEF S
  <2> QED BY <1>1, <1>2, NatSetInduction
<1> QED BY <1>3

LEMMA FlattenHolds ==
  ASSUME NEW S, NEW n \in Nat \ {0}, NEW seqs \in [1 .. n -> Seq(S)]
  PROVE  /\ FlattenSeq(seqs) \in Seq(S)
         /\ \A i \in 1 .. n : \A x : Holds(seqs[i], x) => Holds(FlattenSeq(seqs), x)
<1>1. seqs \in Seq(Seq(S)) /\ Len(seqs) = n
  OBVIOUS
<1>2. PICK f : f = CHOOSE g : IsFlat(g, n, seqs)
  OBVIOUS
<1>3. IsFlat(f, n, seqs)
  BY <1>2, FlatExists
<1>4. FlattenSeq(seqs) = f[n]
  BY <1>1, <1>2 DEF FlattenSeq, IsFlat
<1> DEFINE P(i) == f[i] \in Seq(S) /\ \A j \in 1 .. i : \A x : Holds(seqs[j], x) => Holds(f[i], x)
           T == {i \in Nat : i \in 1 .. n => P(i)}
<1>5. 0 \in T
  OBVIOUS
<1>6. ASSUME NEW i \in Nat, i \in T PROVE i + 1 \in T
  <2> SUFFICES ASSUME i + 1 \in 1 .. n PROVE P(i + 1)
    OBVIOUS
  <2>1. CASE i = 0
    <3>1. f[1] = seqs[1] /\ 1 \in 1 .. n
      BY <1>3 DEF IsFlat
    <3>2. \A j \in 1 .. 1 : j = 1
      OBVIOUS
    <3>3. P(1)
      BY <3>1, <3>2
    <3> QED BY <2>1, <3>3
  <2>2. CASE i # 0
    <3>1. i \in 1 .. n /\ i + 1 # 1 /\ (i + 1) - 1 = i
      BY <2>2
    <3>2. f[i + 1] = f[i] \o seqs[i + 1]
      BY <1>3, <3>1 DEF IsFlat
    <3>3. P(i)
      BY <1>6, <3>1
    <3>4. /\ f[i + 1] \in Seq(S)
          /\ \A x : Holds(f[i + 1], x) <=> Holds(f[i], x) \/ Holds(seqs[i + 1], x)
      BY <3>2, <3>3, ConcatHolds
    <3>5. \A j \in 1 .. i + 1 : j \in 1 .. i \/ j = i + 1
      OBVIOUS
    <3> QED BY <3>3, <3>4, <3>5
  <2> QED BY <2>1, <2>2
<1>7. Nat \subseteq T
  <2> HIDE DEF T
  <2> QED BY <1>5, <1>6, NatSetInduction
<1>8. P(n)
  <2>1. n \in T /\ n \in 1 .. n
    <3> HIDE DEF T
    <3> QED BY <1>7
  <2> QED BY <2>1
<1> QED BY <1>4, <1>8

-----------------------------------------------------------------------------
(* The pipelines.                                                          *)

LEMMA HoldsNoOther ==
  ASSUME NEW S, NEW s \in Seq(S), NEW x, x \notin S
  PROVE  ~ Holds(s, x)
BY LenProperties DEF Holds

LEMMA ShortSeqs ==
  ASSUME NEW S, NEW x \in S, NEW y \in S
  PROVE  /\ << >> \in Seq(S) /\ << x >> \in Seq(S) /\ << x, y >> \in Seq(S)
         /\ Holds(<< x, y >>, x)
<1>1. << >> \in Seq(S) /\ << x >> \in Seq(S) /\ << x, y >> \in Seq(S)
  OBVIOUS
<1>2. 1 \in DOMAIN << x, y >> /\ << x, y >>[1] = x
  OBVIOUS
<1> QED BY <1>1, <1>2 DEF Holds

TaggingCommands(c, k) ==
  [do : {"SADD kt", "PEXPIRE kt"}, key : {k}, tag : {None}]
    \cup [do : {"SADD t"}, key : {k}, tag : TagsOf(c)]

RemovalCommands(k) ==
  [do : {"DEL v", "DEL kt"}, key : {k}, tag : {None}]
    \cup [do : {"SREM t"}, key : {k}, tag : Tags]

LEMMA TaggingIs ==
  ASSUME NEW c, NEW k, k = op[c].key, TagsOf(c) \subseteq Tags
  PROVE  /\ Tagging(c) \in Seq(TaggingCommands(c, k))
         /\ \A t \in TagsOf(c) : Holds(Tagging(c), TagCommand("SADD t", k, t))
<1>1. CASE TagsOf(c) = {}
  <2>1. Tagging(c) = << >>
    BY <1>1 DEF Tagging
  <2> QED BY <1>1, <2>1, EmptySeq
<1>2. CASE TagsOf(c) # {}
  <2> DEFINE adds == PerTag("SADD t", k, TagsOf(c))
             D == TaggingCommands(c, k)
  <2>1. IsFiniteSet(TagsOf(c))
    BY KeysAndTagsAreFinite, FS_Subset
  <2>2. PICK E : E = [do : {"SADD t"}, key : {k}, tag : TagsOf(c)]
    OBVIOUS
  <2>3. /\ adds \in Seq(E)
        /\ \A t \in TagsOf(c) : Holds(adds, TagCommand("SADD t", k, t))
    BY <2>1, <2>2, PerTagIs
  <2>4. adds \in Seq(D)
    <3>1. E \subseteq D
      BY <2>2 DEF TaggingCommands
    <3> HIDE DEF adds, D
    <3> QED BY <2>3, <3>1, SeqMonotonic
  <2>5. Command("SADD kt", k) \in D /\ Command("PEXPIRE kt", k) \in D
    BY DEF Command, TaggingCommands
  <2>6. PICK first, last :
          /\ first = << Command("SADD kt", k) >>
          /\ last = IF op[c].options.ttl = None THEN << >> ELSE << Command("PEXPIRE kt", k) >>
    OBVIOUS
  <2>7. first \in Seq(D) /\ last \in Seq(D)
    BY <2>5, <2>6, ShortSeqs
  <2>8. Tagging(c) = first \o adds \o last
    BY <1>2, <2>6 DEF Tagging
  <2> HIDE DEF adds, D
  <2>9. /\ first \o adds \in Seq(D)
        /\ \A x : Holds(adds, x) => Holds(first \o adds, x)
    BY <2>4, <2>7, ConcatHolds
  <2>10. /\ (first \o adds) \o last \in Seq(D)
         /\ \A x : Holds(first \o adds, x) => Holds((first \o adds) \o last, x)
    BY <2>7, <2>9, ConcatHolds
  <2>11. /\ Tagging(c) \in Seq(D)
         /\ \A t \in TagsOf(c) : Holds(Tagging(c), TagCommand("SADD t", k, t))
    BY <2>3, <2>8, <2>9, <2>10
  <2> QED BY <2>11 DEF D
<1> QED BY <1>1, <1>2

LEMMA RemovalIs ==
  ASSUME NEW k, NEW previous \in SUBSET Tags,
         NEW D, RemovalCommands(k) \subseteq D
  PROVE  /\ Removal(k, previous) \in Seq(D)
         /\ Holds(Removal(k, previous), Command("DEL v", k))
<1> DEFINE rems == PerTag("SREM t", k, previous)
<1>1. IsFiniteSet(previous)
  BY KeysAndTagsAreFinite, FS_Subset
<1>2. PICK E : E = [do : {"SREM t"}, key : {k}, tag : previous]
  OBVIOUS
<1>3. rems \in Seq(E) /\ E \subseteq D
  BY <1>1, <1>2, PerTagIs DEF RemovalCommands
<1>4. rems \in Seq(D)
  <2> HIDE DEF rems
  <2> QED BY <1>3, SeqMonotonic
<1>5. PICK first : first = << Command("DEL v", k), Command("DEL kt", k) >>
  OBVIOUS
<1>6. first \in Seq(D) /\ Holds(first, Command("DEL v", k))
  <2>1. Command("DEL v", k) \in D /\ Command("DEL kt", k) \in D
    BY DEF Command, RemovalCommands
  <2> QED BY <1>5, <2>1, ShortSeqs
<1>7. Removal(k, previous) = first \o rems
  BY <1>5 DEF Removal
<1> HIDE DEF rems
<1>8. /\ first \o rems \in Seq(D)
      /\ \A x : Holds(first \o rems, x) <=> Holds(first, x) \/ Holds(rems, x)
  BY <1>4, <1>6, ConcatHolds
<1>9. Holds(first \o rems, Command("DEL v", k))
  BY <1>6, <1>8
<1> QED BY <1>7, <1>8, <1>9

LEMMA SetPipelineIs ==
  ASSUME NEW c, NEW k, k = op[c].key, op[c].do = "set", KeysOf(c) = {k},
         TagsOf(c) \subseteq Tags, NEW previous \in SUBSET Tags
  PROVE  /\ SetPipeline(c, previous) \in Seq(Sendable(c))
         /\ Holds(SetPipeline(c, previous), Command("SET v", k))
         /\ \A t \in Tags : Ordered(SetPipeline(c, previous),
                                    TagCommand("SREM t", k, t), Command("SET v", k))
         /\ \A t \in TagsOf(c) : Ordered(SetPipeline(c, previous),
                                         Command("SET v", k), TagCommand("SADD t", k, t))
<1> DEFINE old == previous \ TagsOf(c)
           rems == PerTag("SREM t", k, old)
           tagging == Tagging(c)
<1>1. PICK A, B, C, S :
        /\ A = [do : {"SREM t"}, key : {k}, tag : old]
        /\ B = {Command("SET v", k), Command("DEL kt", k)}
        /\ C = TaggingCommands(c, k)
        /\ S = Sendable(c)
  OBVIOUS
<1>2. A \subseteq S /\ B \subseteq S /\ C \subseteq S
  <2>1. /\ [do : {"SET v", "SADD kt", "PEXPIRE kt"}, key : {k}, tag : {None}] \subseteq S
        /\ [do : {"SADD t"}, key : {k}, tag : TagsOf(c)] \subseteq S
        /\ [do : {"DEL kt"}, key : {k}, tag : {None}] \subseteq S
        /\ [do : {"SREM t"}, key : {k}, tag : Tags] \subseteq S
    BY <1>1 DEF Sendable
  <2>2. A \subseteq S
    BY <1>1, <2>1
  <2>3. B \subseteq S
    <3>1. /\ Command("SET v", k) \in [do : {"SET v", "SADD kt", "PEXPIRE kt"}, key : {k}, tag : {None}]
          /\ Command("DEL kt", k) \in [do : {"DEL kt"}, key : {k}, tag : {None}]
      BY DEF Command
    <3> QED BY <1>1, <2>1, <3>1
  <2>4. C \subseteq S
    BY <1>1, <2>1 DEF TaggingCommands
  <2> QED BY <2>2, <2>3, <2>4
<1>3. rems \in Seq(A)
  <2>1. IsFiniteSet(old)
    BY KeysAndTagsAreFinite, FS_Subset
  <2> QED BY <1>1, <2>1, PerTagIs
<1>4. tagging \in Seq(C) /\ \A t \in TagsOf(c) : Holds(tagging, TagCommand("SADD t", k, t))
  BY <1>1, TaggingIs
<1>5. PICK value : value = << Command("SET v", k), Command("DEL kt", k) >>
  OBVIOUS
<1>6. value \in Seq(B) /\ Holds(value, Command("SET v", k))
  <2>1. Command("SET v", k) \in B /\ Command("DEL kt", k) \in B
    BY <1>1
  <2> QED BY <1>5, <2>1, ShortSeqs
<1>7. SetPipeline(c, previous) = (rems \o value) \o tagging
  BY <1>5 DEF SetPipeline
<1> HIDE DEF rems, tagging
<1>8. rems \in Seq(S) /\ value \in Seq(S) /\ tagging \in Seq(S)
  BY <1>2, <1>3, <1>4, <1>6, SeqMonotonic
<1>9. /\ Command("SET v", k) \notin C
      /\ \A t \in Tags : TagCommand("SREM t", k, t) \notin B \cup C
  BY <1>1 DEF Command, TagCommand, TaggingCommands
<1>10. /\ ~ Holds(tagging, Command("SET v", k))
       /\ \A t \in Tags : /\ ~ Holds(value, TagCommand("SREM t", k, t))
                          /\ ~ Holds(tagging, TagCommand("SREM t", k, t))
  BY <1>4, <1>6, <1>9, HoldsNoOther
<1>11. /\ rems \o value \in Seq(S)
       /\ Holds(rems \o value, Command("SET v", k))
  BY <1>6, <1>8, ConcatHolds
<1>12. /\ (rems \o value) \o tagging \in Seq(S)
       /\ Holds((rems \o value) \o tagging, Command("SET v", k))
  BY <1>8, <1>11, ConcatHolds
<1>13. ASSUME NEW t \in TagsOf(c)
       PROVE  Ordered((rems \o value) \o tagging, Command("SET v", k), TagCommand("SADD t", k, t))
  BY <1>4, <1>8, <1>10, <1>11, ConcatOrdered
<1>14. ASSUME NEW t \in Tags
       PROVE  Ordered((rems \o value) \o tagging, TagCommand("SREM t", k, t), Command("SET v", k))
  <2>1. Ordered(rems \o value, TagCommand("SREM t", k, t), Command("SET v", k))
    BY <1>6, <1>8, <1>10, ConcatOrdered
  <2> QED BY <1>8, <1>10, <1>11, <2>1, ConcatOrdered
<1> QED BY <1>1, <1>7, <1>12, <1>13, <1>14

(* What a call is about, once it waits for tags.                           *)
LEMMA ListingIs ==
  ASSUME TypeOK, Asked, NEW c \in Calls, pc[c] = "listing"
  PROVE  /\ op[c] \in Op /\ op[c].do \in {"set", "delete", "invalidateTag"}
         /\ KeysOf(c) \subseteq Keys /\ KeysOf(c) # {}
         /\ op[c].do # "invalidateTag" => KeysOf(c) = {op[c].key}
         /\ op[c].do = "set" => TagsOf(c) \subseteq Tags
<1>1. c \in Busy
  BY DEF Busy
<1>2. op[c] \in Op
  BY <1>1 DEF Asked
<1>3. op[c].do \in {"set", "delete", "invalidateTag"}
  BY <1>2 DEF Op
<1>4. KeysOf(c) # {} /\ (op[c].do # "invalidateTag" => KeysOf(c) = {op[c].key})
  BY <1>1 DEF Asked
<1>5. op[c].do = "set" => TagsOf(c) \subseteq Tags
  BY <1>2, RedisOptionsAssumption DEF Op, TagsOf
<1> QED BY <1>2, <1>3, <1>4, <1>5 DEF TypeOK

LEMMA RemovalIsSendable ==
  ASSUME NEW c, op[c].do # "set", NEW k \in KeysOf(c)
  PROVE  RemovalCommands(k) \subseteq Sendable(c)
<1>1. /\ [do : {"DEL v"}, key : KeysOf(c), tag : {None}] \subseteq Sendable(c)
      /\ [do : {"DEL kt"}, key : KeysOf(c), tag : {None}] \subseteq Sendable(c)
      /\ [do : {"SREM t"}, key : KeysOf(c), tag : Tags] \subseteq Sendable(c)
  BY DEF Sendable
<1> QED BY <1>1 DEF RemovalCommands

LEMMA KnownIs ==
  ASSUME NEW tags, tags = None \/ tags \subseteq Tags
  PROVE  Known(tags) \in SUBSET Tags
BY DEF Known

LEMMA InvalidationPipelineIs ==
  ASSUME TypeOK, Asked, NEW c \in Calls, pc[c] = "listing", op[c].do = "invalidateTag",
         NEW previous, \A k \in KeysOf(c) : previous[k] = None \/ previous[k] \subseteq Tags
  PROVE  /\ Pipeline(c, previous) \in Seq(Sendable(c))
         /\ \A k \in KeysOf(c) : Holds(Pipeline(c, previous), Command("DEL v", k))
<1>1. PICK S, T, n, key :
        S = Sendable(c) /\ T = KeysOf(c) /\ n = Cardinality(T) /\ key = SetToSeq(T)
  OBVIOUS
<1>2. T \subseteq Keys /\ T # {}
  BY <1>1, ListingIs
<1>3. IsFiniteSet(T)
  BY <1>2, KeysAndTagsAreFinite, FS_Subset
<1>4. /\ n \in Nat /\ key \in [1 .. n -> T]
      /\ \A k \in T : \E i \in 1 .. n : key[i] = k
  BY <1>1, <1>3, SetToSeqIs
<1>5. n # 0
  BY <1>2, <1>4
<1>6. PICK each : each = [i \in 1 .. n |-> Removal(key[i], Known(previous[key[i]]))]
  OBVIOUS
<1>7. ASSUME NEW i \in 1 .. n
      PROVE  each[i] \in Seq(S) /\ Holds(each[i], Command("DEL v", key[i]))
  <2>1. key[i] \in KeysOf(c) /\ Known(previous[key[i]]) \in SUBSET Tags
    BY <1>1, <1>4, KnownIs
  <2>2. RemovalCommands(key[i]) \subseteq S
    BY <1>1, <2>1, RemovalIsSendable
  <2>3. each[i] = Removal(key[i], Known(previous[key[i]]))
    BY <1>6
  <2> QED BY <2>1, <2>2, <2>3, RemovalIs
<1>8. each \in [1 .. n -> Seq(S)]
  BY <1>6, <1>7
<1>9. PICK flat : flat = FlattenSeq(each)
  OBVIOUS
<1>10. /\ flat \in Seq(S)
       /\ \A i \in 1 .. n : Holds(flat, Command("DEL v", key[i]))
  <2>1. n \in Nat \ {0}
    BY <1>4, <1>5
  <2> QED BY <1>7, <1>8, <1>9, <2>1, FlattenHolds
<1>11. PICK last : last = TagCommand("DEL t", None, op[c].tag)
  OBVIOUS
<1>12. last \in S
  BY <1>1, <1>11 DEF Sendable
<1>13. Pipeline(c, previous) = Append(flat, last)
  BY <1>1, <1>4, <1>6, <1>9, <1>11 DEF Pipeline, TagCommand
<1>14. Append(flat, last) = flat \o << last >>
  BY <1>10, <1>12, AppendIsConcat
<1>15. << last >> \in Seq(S)
  BY <1>12, ShortSeqs
<1>16. /\ flat \o << last >> \in Seq(S)
       /\ \A x : Holds(flat, x) => Holds(flat \o << last >>, x)
  BY <1>10, <1>15, ConcatHolds
<1>17. \A k \in T : Holds(flat \o << last >>, Command("DEL v", k))
  BY <1>4, <1>10, <1>16
<1> QED BY <1>1, <1>13, <1>14, <1>16, <1>17

\* What a call sends: all it sends is its own, it ends the value of each of its
\* keys, and a write leaves, stores and tags in this order.
LEMMA PipelineIs ==
  ASSUME TypeOK, Asked, NEW c \in Calls, pc[c] = "listing",
         NEW previous, \A k \in KeysOf(c) : previous[k] = None \/ previous[k] \subseteq Tags
  PROVE  /\ Pipeline(c, previous) \in Seq(Sendable(c))
         /\ Pipeline(c, previous) # << >>
         /\ op[c].do = "set" =>
              /\ \A k \in KeysOf(c) : Holds(Pipeline(c, previous), Command("SET v", k))
              /\ \A k \in KeysOf(c), t \in Tags : 
                   Ordered(Pipeline(c, previous), TagCommand("SREM t", k, t), Command("SET v", k))
              /\ \A k \in KeysOf(c), t \in TagsOf(c) : 
                   Ordered(Pipeline(c, previous), Command("SET v", k), TagCommand("SADD t", k, t))
         /\ op[c].do # "set" =>
              \A k \in KeysOf(c) : Holds(Pipeline(c, previous), Command("DEL v", k))
<1>1. /\ op[c].do \in {"set", "delete", "invalidateTag"}
      /\ KeysOf(c) # {}
      /\ op[c].do # "invalidateTag" => KeysOf(c) = {op[c].key}
      /\ op[c].do = "set" => TagsOf(c) \subseteq Tags
  BY ListingIs
<1>2. ASSUME NEW x, Holds(Pipeline(c, previous), x) PROVE Pipeline(c, previous) # << >>
  BY <1>2 DEF Holds
<1>3. CASE op[c].do = "invalidateTag"
  BY <1>1, <1>2, <1>3, InvalidationPipelineIs
<1>4. CASE op[c].do = "delete"
  <2>1. PICK k : k = op[c].key /\ KeysOf(c) = {k}
    BY <1>1, <1>4
  <2>2. Pipeline(c, previous) = Removal(k, Known(previous[k]))
    BY <1>4, <2>1 DEF Pipeline
  <2>3. Known(previous[k]) \in SUBSET Tags
    BY <2>1, KnownIs
  <2>4. RemovalCommands(k) \subseteq Sendable(c)
    BY <1>4, <2>1, RemovalIsSendable
  <2>5. /\ Pipeline(c, previous) \in Seq(Sendable(c))
        /\ Holds(Pipeline(c, previous), Command("DEL v", k))
    BY <2>2, <2>3, <2>4, RemovalIs
  <2> QED BY <1>2, <1>4, <2>1, <2>5
<1>5. CASE op[c].do = "set"
  <2>1. PICK k : k = op[c].key /\ KeysOf(c) = {k}
    BY <1>1, <1>5
  <2>2. PICK old : old = Known(previous[k]) /\ old \in SUBSET Tags
    BY <2>1, KnownIs
  <2>3. Pipeline(c, previous) = SetPipeline(c, old)
    BY <1>5, <2>1, <2>2 DEF Pipeline
  <2>4. /\ SetPipeline(c, old) \in Seq(Sendable(c))
        /\ Holds(SetPipeline(c, old), Command("SET v", k))
        /\ \A t \in Tags : Ordered(SetPipeline(c, old),
                                   TagCommand("SREM t", k, t), Command("SET v", k))
        /\ \A t \in TagsOf(c) : Ordered(SetPipeline(c, old),
                                        Command("SET v", k), TagCommand("SADD t", k, t))
    <3>1. TagsOf(c) \subseteq Tags
      BY <1>1, <1>5
    <3> QED BY <1>5, <2>1, <2>2, <3>1, SetPipelineIs
  <2> QED BY <1>2, <1>5, <2>1, <2>3, <2>4
<1> QED BY <1>1, <1>3, <1>4, <1>5

-----------------------------------------------------------------------------
(* What a step does to the calls.                                          *)

CallStep(c) == CallOnKey(c) \/ CallOnTag(c) \/ Work(c) \/ Fault(c)

Same(d) ==
  /\ op'[d] = op[d] /\ pc'[d] = pc[d] /\ lists'[d] = lists[d]
  /\ pipe'[d] = pipe[d] /\ undoes'[d] = undoes[d]

LEMMA OthersStay ==
  ASSUME TypeOK, NEW c \in Calls, CallStep(c), NEW d \in Calls, d # c
  PROVE  Same(d)
<1> USE DEF TypeOK, Same
<1>1. CASE CallOnKey(c) \/ CallOnTag(c)
  <2>1. CASE CallOnKey(c)
    BY <2>1 DEF CallOnKey, Start
  <2>2. CASE CallOnTag(c)
    BY <2>2 DEF CallOnTag, Start
  <2> QED BY <1>1, <2>1, <2>2
<1>2. CASE NoMembers(c) \/ SomeMembers(c) \/ Succeed(c) \/ Throw(c) \/ ReadFails(c)
  BY <1>2 DEF NoMembers, SomeMembers, Succeed, Throw, ReadFails, Return, End, redis, history
<1>3. CASE ListTags(c)
  BY <1>3 DEF ListTags, history
<1>4. CASE Execute(c)
  BY <1>4 DEF Execute, history
<1>5. CASE ConnectionLost(c) \/ CommandRefused(c)
  BY <1>5 DEF ConnectionLost, CommandRefused, Tear
<1> QED BY <1>1, <1>2, <1>3, <1>4, <1>5 DEF CallStep, Work, Fault

LEMMA SameCall ==
  ASSUME NEW d, Same(d)
  PROVE  /\ KeysOf(d)' = KeysOf(d)
         /\ TagsOf(d)' = TagsOf(d)
         /\ Sendable(d)' = Sendable(d)
         /\ (d \in Busy)' <=> d \in Busy
         /\ \A x : Pending(d, x)' <=> Pending(d, x)
         /\ \A k : Ends(d, k)' <=> Ends(d, k)
BY DEF Same, KeysOf, TagsOf, Sendable, Busy, Pending, Ends

(* What a call may have in its pipeline.                                   *)
LEMMA SendableIs ==
  ASSUME NEW c, NEW x \in Sendable(c)
  PROVE  /\ x.do \in {"SET v", "DEL v", "DEL kt", "SADD kt", "PEXPIRE kt",
                      "SADD t", "SREM t", "DEL t"}
         /\ x.do \in {"SET v", "SADD kt", "PEXPIRE kt", "SADD t"} => op[c].do = "set"
         /\ x.do = "DEL v" => op[c].do # "set"
         /\ x.do = "DEL t" => op[c].do = "invalidateTag" /\ x.tag = op[c].tag
         /\ x.do # "DEL t" => x.key \in KeysOf(c)
         /\ x.do = "SADD t" => x.tag \in TagsOf(c)
         /\ x.do = "SREM t" => x.tag \in Tags
         /\ x.do \in {"SADD t", "SREM t"} => x = TagCommand(x.do, x.key, x.tag)
         /\ x.do \in {"SET v", "DEL v"} => x = Command(x.do, x.key)
<1>1. CASE /\ op[c].do = "set"
           /\ x \in [do : {"SET v", "SADD kt", "PEXPIRE kt"}, key : KeysOf(c), tag : {None}]
  BY <1>1 DEF Command
<1>2. CASE /\ op[c].do = "set"
           /\ x \in [do : {"SADD t"}, key : KeysOf(c), tag : TagsOf(c)]
  BY <1>2 DEF TagCommand
<1>3. CASE op[c].do # "set" /\ x \in [do : {"DEL v"}, key : KeysOf(c), tag : {None}]
  BY <1>3 DEF Command
<1>4. CASE x \in [do : {"DEL kt"}, key : KeysOf(c), tag : {None}]
  BY <1>4
<1>5. CASE x \in [do : {"SREM t"}, key : KeysOf(c), tag : Tags]
  BY <1>5 DEF TagCommand
<1>6. CASE op[c].do = "invalidateTag" /\ x = TagCommand("DEL t", None, op[c].tag)
  BY <1>6 DEF TagCommand
<1> QED BY <1>1, <1>2, <1>3, <1>4, <1>5, <1>6 DEF Sendable

LEMMA OtherCommand ==
  ASSUME NEW cmd, NEW do, NEW k, cmd.do # do \/ cmd.key # k
  PROVE  Command(do, k) # cmd /\ \A t : TagCommand(do, k, t) # cmd
BY DEF Command, TagCommand

LEMMA OtherTag ==
  ASSUME NEW cmd, NEW do, NEW k, NEW t, cmd.tag # t
  PROVE  TagCommand(do, k, t) # cmd
BY DEF TagCommand

(* A pipeline that is not empty belongs to a call at work on its keys, and *)
(* what it still has to send is about those.                               *)
LEMMA PendingIs ==
  ASSUME TypeOK, Asked, Piped, NEW c \in Calls, pipe[c] # << >>
  PROVE  /\ pc[c] \in {"piping", "failing"} /\ c \in Busy
         /\ op[c] \in Op /\ KeysOf(c) # {} /\ KeysOf(c) \subseteq Keys
         /\ op[c].do = "set" =>
              /\ KeysOf(c) = {op[c].key} /\ op[c].options \in Options
              /\ TagsOf(c) \subseteq Tags
         /\ pipe[c] \in Seq(Sendable(c))
         /\ \A x : Pending(c, x) => x \in Sendable(c)
<1>1. pc[c] \in {"piping", "failing"} /\ c \in Busy
  BY DEF TypeOK, Busy
<1>2. op[c] \in Op /\ KeysOf(c) # {} /\ (op[c].do # "invalidateTag" => KeysOf(c) = {op[c].key})
  BY <1>1 DEF Asked
<1>3. KeysOf(c) \subseteq Keys
  BY DEF TypeOK
<1>4. op[c].do = "set" => op[c].options \in Options /\ TagsOf(c) \subseteq Tags
  BY <1>2, RedisOptionsAssumption DEF Op, TagsOf
<1>5. pipe[c] \in Seq(Sendable(c))
  BY DEF Piped
<1>6. \A x : Pending(c, x) => x \in Sendable(c)
  BY <1>5, HoldsNoOther DEF Pending
<1> QED BY <1>1, <1>2, <1>3, <1>4, <1>5, <1>6

LEMMA PendingOnlyIfSent ==
  ASSUME NEW c, NEW x, Pending(c, x)
  PROVE  pipe[c] # << >>
BY DEF Pending, Holds

LEMMA EndsIsAboutIt ==
  ASSUME TypeOK, Asked, Piped, NEW c \in Calls, NEW k, Ends(c, k)
  PROVE  c \in Busy /\ k \in KeysOf(c) /\ pc[c] \in {"piping", "failing"}
<1>1. PICK x : Pending(c, x) /\ x.key = k /\ x.do # "DEL t"
  <2>1. CASE Pending(c, Command("SET v", k))
    <3>1. Command("SET v", k).key = k /\ Command("SET v", k).do # "DEL t"
      BY DEF Command
    <3> QED BY <2>1, <3>1
  <2>2. CASE Pending(c, Command("DEL v", k))
    <3>1. Command("DEL v", k).key = k /\ Command("DEL v", k).do # "DEL t"
      BY DEF Command
    <3> QED BY <2>2, <3>1
  <2> QED BY <2>1, <2>2 DEF Ends
<1>2. x \in Sendable(c) /\ c \in Busy /\ pc[c] \in {"piping", "failing"}
  BY <1>1, PendingOnlyIfSent, PendingIs
<1> QED BY <1>1, <1>2, SendableIs

(* With every value of the tag of an invalidation that stands there, its   *)
(* key is among the members.                                               *)
LEMMA InvalidationFinds ==
  ASSUME TypeOK, Asked, Piped, Apart, Listed, Doomed, NEW c \in Calls, pc[c] = "members",
         NEW k \in Keys, Intact(k), values[k].by \in undoes[c]
  PROVE  k \in members[op[c].tag]
<1>1. c \in Busy /\ op[c].do = "invalidateTag"
  BY DEF Asked, Busy
<1>2. op[c].tag \in values[k].tags
  BY DEF Doomed
<1>3. values[k].by \in Calls
  BY DEF TypeOK, Intact
<1>4. ASSUME NEW d \in Calls, pipe[d] # << >> PROVE FALSE
  <2>1. d \in Busy /\ d # c
    BY <1>4, PendingIs
  <2> QED BY <1>1, <2>1 DEF Apart
<1>5. ASSUME NEW d \in Calls, Ends(d, k) PROVE FALSE
  BY <1>4, <1>5, PendingOnlyIfSent DEF Ends
<1>6. ~ Pending(values[k].by, TagCommand("SADD t", k, op[c].tag))
  BY <1>3, <1>4, PendingOnlyIfSent
<1> QED BY <1>2, <1>5, <1>6 DEF Listed

-----------------------------------------------------------------------------
(* The invariant, action by action.                                        *)

LEMMA InitEstablishes == Init => IInv
<1> SUFFICES ASSUME Init PROVE IInv
  OBVIOUS
<1> USE DEF Init
<1>1. \A c \in Calls : c \notin Busy /\ KeysOf(c) = {} /\ pipe[c] = << >>
  BY DEF Busy, KeysOf
<1>2. \A k \in Keys : values[k] = None /\ ~ Intact(k)
  BY DEF Intact
<1>3. TypeOK
  BY <1>1, RedisBoundsAssumption DEF TypeOK, NoTags
<1>4. Asked /\ Piped /\ Apart
  BY <1>1 DEF Asked, Piped, Apart, Busy
<1>5. OneKeyEach /\ Listed /\ MembersRead /\ Removing /\ Doomed
  BY <1>1, <1>2 DEF OneKeyEach, Listed, MembersRead, Removing, Doomed, Busy
<1>6. UndoneReturned /\ NothingStale
  BY <1>2 DEF UndoneReturned, NothingStale
<1> QED BY <1>3, <1>4, <1>5, <1>6 DEF IInv

LEMMA StartStep ==
  ASSUME IInv, TypeOK', Overlapping \subseteq {"set"}, NEW c \in Calls,
         CallOnKey(c) \/ CallOnTag(c)
  PROVE  IInv'
<1> USE DEF IInv
<1>1. PICK o \in Op :
        /\ Start(c, o)
        /\ \/ /\ o.do \in {"set", "delete"}
              /\ lists' = [lists EXCEPT ![c] = [k \in {o.key} |-> None]]
              /\ pc' = [pc EXCEPT ![c] = "listing"]
           \/ /\ o.do = "invalidateTag"
              /\ pc' = [pc EXCEPT ![c] = "members"] /\ lists' = lists
  BY DEF CallOnKey, CallOnTag
<1>2. /\ pc[c] = "idle" /\ op'[c] = o /\ undoes'[c] = Undoes(o)
      /\ Busy # {} => {o.do} \cup {op[d].do : d \in Busy} \subseteq Overlapping
      /\ UNCHANGED << values, keyTags, members, pipe, intact, undone >>
  BY <1>1 DEF Start, redis, TypeOK
<1>3. /\ pc'[c] \in {"listing", "members"} /\ (c \in Busy)' /\ c \notin Busy
      /\ o.do # "invalidateTag" => pc'[c] = "listing" /\ KeysOf(c)' = {o.key}
      /\ o.do = "invalidateTag" => pc'[c] = "members" /\ KeysOf(c)' = {}
      /\ o.do \in {"set", "delete", "invalidateTag"}
  <2>1. KeysOf(c) = {}
    BY <1>2 DEF Asked
  <2> QED BY <1>1, <1>2, <2>1 DEF TypeOK, KeysOf, Busy
<1>4. pipe[c] = << >>
  BY <1>2 DEF TypeOK
<1>5. ASSUME NEW d \in Calls, d # c
      PROVE  /\ Same(d) /\ KeysOf(d)' = KeysOf(d) /\ TagsOf(d)' = TagsOf(d)
             /\ Sendable(d)' = Sendable(d) /\ ((d \in Busy)' <=> d \in Busy)
  <2>1. Same(d)
    BY <1>5, OthersStay DEF CallStep
  <2> QED BY <2>1, SameCall
<1>6. \A d \in Calls : \A k : Intact(k)' = Intact(k) /\ (Ends(d, k)' <=> Ends(d, k))
  BY <1>2 DEF Intact, Ends, Pending
<1>7. Asked'
  BY <1>2, <1>3, <1>5 DEF Asked, Same
<1>8. Piped'
  BY <1>2, <1>4, <1>5 DEF Piped, Same
<1>9. Apart'
  <2>1. \A d \in Busy : op[d].do = "set" /\ o.do = "set"
    BY <1>2
  <2>2. \A d : (d \in Busy)' => d \in Calls
    BY DEF Busy
  <2> QED BY <1>2, <1>5, <2>1, <2>2 DEF Apart, Same
<1>10. OneKeyEach'
  BY <1>2, <1>5 DEF OneKeyEach, TypeOK, Same
<1>11. Listed'
  BY <1>2, <1>6 DEF Listed, Pending
<1>12. MembersRead'
  BY <1>2, <1>3, <1>5 DEF MembersRead, Same, Busy
<1>13. Removing'
  BY <1>2, <1>3, <1>5, <1>6 DEF Removing, Same, Busy, Pending
<1>14. Doomed'
  <2>1. ASSUME NEW d \in Undoes(o) PROVE pc'[d] = "returned"
    <3>1. d \in Calls /\ pc[d] = "returned"
      BY <2>1 DEF Undoes, TypeOK
    <3> QED BY <1>2, <1>5, <3>1 DEF Same
  <2>2. ASSUME NEW k \in Keys, Intact(k), values[k].by \in Undoes(o)
        PROVE  /\ o.do = "invalidateTag" => o.tag \in values[k].tags
               /\ o.do # "invalidateTag" => o.key = k
    <3>1. PICK j \in Keys :
            /\ values[j] # None /\ values[j].by = values[k].by
            /\ IF o.do = "invalidateTag" THEN o.tag \in values[j].tags ELSE o.key = j
      BY <2>2 DEF Undoes
    <3>2. j = k
      BY <2>2, <3>1 DEF OneKeyEach, Intact
    <3> QED BY <3>1, <3>2
  <2>3. ASSUME NEW d \in Calls, d # c
        PROVE  /\ \A e \in undoes'[d] : pc'[e] = "returned"
               /\ undoes'[d] = undoes[d] /\ pc'[d] = pc[d] /\ op'[d] = op[d]
               /\ KeysOf(d)' = KeysOf(d)
    <3>1. \A e \in undoes[d] : e \in Calls /\ e # c
      BY <1>2 DEF Doomed, TypeOK
    <3> QED BY <1>5, <2>3, <3>1 DEF Doomed, Same
  <2>4. ASSUME NEW k \in Keys, Intact(k)', values'[k].by \in undoes'[c]
        PROVE  /\ pc'[c] = "members" => op'[c].tag \in values'[k].tags
               /\ pc'[c] = "listing" => k \in KeysOf(c)'
               /\ pc'[c] # "piping"
    BY <1>2, <1>3, <1>6, <2>2, <2>4
  <2>5. ASSUME NEW d \in Calls, d # c, NEW k \in Keys, Intact(k)', values'[k].by \in undoes'[d]
        PROVE  /\ pc'[d] = "members" => op'[d].tag \in values'[k].tags
               /\ pc'[d] = "listing" => k \in KeysOf(d)'
               /\ pc'[d] = "piping" => Ends(d, k)'
    BY <1>2, <1>6, <2>3, <2>5 DEF Doomed
  <2> QED BY <1>2, <2>1, <2>3, <2>4, <2>5 DEF Doomed
<1>15. UndoneReturned'
  BY <1>2, <1>5 DEF UndoneReturned, TypeOK, Same
<1>16. NothingStale'
  BY <1>2, <1>6 DEF NothingStale
<1> QED BY <1>7, <1>8, <1>9, <1>10, <1>11, <1>12, <1>13, <1>14, <1>15, <1>16

LEMMA MembersStep ==
  ASSUME IInv, TypeOK', NEW c \in Calls, SomeMembers(c)
  PROVE  IInv'
<1> USE DEF IInv
<1>1. /\ pc[c] = "members" /\ pc'[c] = "listing" /\ op'[c] = op[c] /\ c \in Busy
      /\ (c \in Busy)' /\ KeysOf(c)' = members[op[c].tag] /\ members[op[c].tag] # {}
      /\ undoes' = undoes
      /\ UNCHANGED << values, members, pipe, intact, undone, op >>
  BY DEF SomeMembers, redis, history, TypeOK, Busy, KeysOf
<1>2. op[c].do = "invalidateTag" /\ op[c] \in Op /\ pipe[c] = << >>
  BY <1>1 DEF Asked, TypeOK
<1>3. ASSUME NEW d \in Calls, d # c
      PROVE  /\ Same(d) /\ KeysOf(d)' = KeysOf(d) /\ TagsOf(d)' = TagsOf(d)
             /\ Sendable(d)' = Sendable(d) /\ ((d \in Busy)' <=> d \in Busy)
  <2>1. Same(d)
    BY <1>3, OthersStay DEF CallStep, Work
  <2> QED BY <2>1, SameCall
<1>4. \A d \in Calls : \A k : Intact(k)' = Intact(k) /\ (Ends(d, k)' <=> Ends(d, k))
  BY <1>1 DEF Intact, Ends, Pending
<1>5. Asked'
  BY <1>1, <1>2, <1>3 DEF Asked, Same
<1>6. Piped'
  BY <1>1, <1>2, <1>3 DEF Piped, Same
<1>7. Apart'
  <2>1. \A d : (d \in Busy)' => d \in Busy
    BY <1>1, <1>3 DEF Busy
  <2> QED BY <1>1, <2>1 DEF Apart
<1>8. OneKeyEach'
  BY <1>1, <1>3 DEF OneKeyEach, TypeOK, Same
<1>9. Listed'
  BY <1>1, <1>4 DEF Listed, Pending
<1>10. MembersRead'
  BY <1>1, <1>3 DEF MembersRead, Same, Busy
<1>11. Removing'
  BY <1>1, <1>3, <1>4 DEF Removing, Same, Busy, Pending
<1>12. Doomed'
  <2>1. ASSUME NEW d \in Calls, NEW e \in undoes[d] PROVE pc'[e] = "returned"
    <3>1. pc[e] = "returned" /\ e \in Calls /\ e # c
      BY <1>1 DEF Doomed, TypeOK
    <3> QED BY <1>3, <3>1 DEF Same
  <2>2. ASSUME NEW k \in Keys, Intact(k), values[k].by \in undoes[c]
        PROVE  k \in KeysOf(c)'
    BY <1>1, <2>2, InvalidationFinds
  <2>3. ASSUME NEW d \in Calls, NEW k \in Keys, Intact(k)', values'[k].by \in undoes'[d]
        PROVE  /\ pc'[d] = "members" => op'[d].tag \in values'[k].tags
               /\ pc'[d] = "listing" => k \in KeysOf(d)'
               /\ pc'[d] = "piping" => Ends(d, k)'
    <3>1. CASE d = c
      BY <1>1, <1>4, <2>2, <2>3, <3>1
    <3>2. CASE d # c
      BY <1>1, <1>3, <1>4, <2>3, <3>2 DEF Doomed, Same
    <3> QED BY <3>1, <3>2
  <2> QED BY <1>1, <2>1, <2>3 DEF Doomed
<1>13. UndoneReturned'
  BY <1>1, <1>3 DEF UndoneReturned, TypeOK, Same
<1>14. NothingStale'
  BY <1>1, <1>4 DEF NothingStale
<1> QED BY <1>5, <1>6, <1>7, <1>8, <1>9, <1>10, <1>11, <1>12, <1>13, <1>14

LEMMA ListStep ==
  ASSUME IInv, TypeOK', NEW c \in Calls, ListTags(c)
  PROVE  IInv'
<1> USE DEF IInv
<1>1. PICK k0, known :
        /\ k0 \in KeysOf(c) /\ lists[c][k0] = None
        /\ known = [lists[c] EXCEPT ![k0] = keyTags[k0].tags]
        /\ lists' = [lists EXCEPT ![c] = known]
        /\ IF AllListed(known)
           THEN /\ pipe' = [pipe EXCEPT ![c] = Pipeline(c, known)]
                /\ pc' = [pc EXCEPT ![c] = "piping"]
           ELSE UNCHANGED << pipe, pc >>
  BY DEF ListTags
<1>2. /\ pc[c] = "listing" /\ pc'[c] \in {"listing", "piping"} /\ c \in Busy /\ (c \in Busy)'
      /\ UNCHANGED << values, members, intact, undone, op, undoes >>
      /\ pipe[c] = << >>
  BY <1>1 DEF ListTags, redis, history, TypeOK, Busy
<1>3. KeysOf(c)' = KeysOf(c) /\ TagsOf(c)' = TagsOf(c) /\ Sendable(c)' = Sendable(c)
  <2>1. KeysOf(c)' = KeysOf(c) /\ TagsOf(c)' = TagsOf(c)
    BY <1>1, <1>2 DEF KeysOf, TagsOf, TypeOK
  <2> QED BY <1>2, <2>1 DEF Sendable
<1>4. ASSUME NEW d \in Calls, d # c
      PROVE  /\ Same(d) /\ KeysOf(d)' = KeysOf(d) /\ TagsOf(d)' = TagsOf(d)
             /\ Sendable(d)' = Sendable(d) /\ ((d \in Busy)' <=> d \in Busy)
             /\ \A x : Pending(d, x)' <=> Pending(d, x)
             /\ \A k : Ends(d, k)' <=> Ends(d, k)
  <2>1. Same(d)
    BY <1>4, OthersStay DEF CallStep, Work
  <2> QED BY <2>1, SameCall
<1>5. \A d \in Calls : \A k : /\ Intact(k)' = Intact(k)
                              /\ \A x : Pending(d, x) => Pending(d, x)'
                              /\ Ends(d, k) => Ends(d, k)'
  <2>1. \A x : ~ Pending(c, x)
    BY <1>2 DEF Pending, Holds
  <2> QED BY <1>2, <1>4, <2>1 DEF Intact, Ends
<1>6. pc'[c] = "piping" =>
        /\ pipe'[c] = Pipeline(c, known)
        /\ pipe'[c] \in Seq(Sendable(c))
        /\ op[c].do = "set" =>
             /\ \A k \in KeysOf(c) : Pending(c, Command("SET v", k))'
             /\ \A k \in KeysOf(c), t \in Tags : 
                  Ordered(pipe'[c], TagCommand("SREM t", k, t), Command("SET v", k))
             /\ \A k \in KeysOf(c), t \in TagsOf(c) : 
                  Ordered(pipe'[c], Command("SET v", k), TagCommand("SADD t", k, t))
        /\ op[c].do # "set" => \A k \in KeysOf(c) : Pending(c, Command("DEL v", k))'
  <2> SUFFICES ASSUME pc'[c] = "piping"
               PROVE  /\ pipe'[c] = Pipeline(c, known)
                      /\ pipe'[c] \in Seq(Sendable(c))
                      /\ op[c].do = "set" =>
                           /\ \A k \in KeysOf(c) : Pending(c, Command("SET v", k))'
                           /\ \A k \in KeysOf(c), t \in Tags : 
                                Ordered(pipe'[c], TagCommand("SREM t", k, t), Command("SET v", k))
                           /\ \A k \in KeysOf(c), t \in TagsOf(c) : 
                                Ordered(pipe'[c], Command("SET v", k), TagCommand("SADD t", k, t))
                      /\ op[c].do # "set" => \A k \in KeysOf(c) : Pending(c, Command("DEL v", k))'
    OBVIOUS
  <2>1. pipe'[c] = Pipeline(c, known)
    BY <1>1, <1>2 DEF TypeOK
  <2>2. ASSUME NEW k \in KeysOf(c) PROVE known[k] = None \/ known[k] \subseteq Tags
    <3>1. k0 \in Keys
      BY <1>1 DEF TypeOK
    <3>2. keyTags[k0].tags \subseteq Tags
      BY <3>1 DEF TypeOK
    <3>3. known[k] = IF k = k0 THEN keyTags[k0].tags ELSE lists[c][k]
      BY <1>1 DEF KeysOf
    <3> QED BY <3>2, <3>3 DEF TypeOK
  <2> QED BY <1>2, <2>1, <2>2, PipelineIs DEF Pending
<1>7. Asked'
  BY <1>2, <1>3, <1>4 DEF Asked, Same
<1>8. Piped'
  <2>1. CASE pc'[c] = "piping"
    BY <1>2, <1>3, <1>4, <1>6, <2>1 DEF Piped, Same
  <2>2. CASE pc'[c] # "piping"
    <3>1. pipe'[c] = << >>
      BY <1>1, <1>2, <2>2 DEF TypeOK
    <3> QED BY <1>2, <1>4, <3>1 DEF Piped, Same
  <2> QED BY <2>1, <2>2
<1>9. Apart'
  <2>1. \A d : (d \in Busy)' => d \in Busy
    BY <1>2, <1>4 DEF Busy
  <2> QED BY <1>2, <2>1 DEF Apart
<1>10. OneKeyEach'
  BY <1>2, <1>4 DEF OneKeyEach, TypeOK, Same
<1>11. Listed'
  <2> SUFFICES ASSUME NEW k \in Keys, Intact(k), NEW t \in values[k].tags
               PROVE  \/ k \in members[t]
                      \/ Holds(pipe'[values[k].by], TagCommand("SADD t", k, t))
                      \/ \E d \in Calls : Ends(d, k)'
    BY <1>2, <1>5 DEF Listed, Pending
  <2>1. PICK a \in Calls : a = values[k].by
    BY DEF Intact, TypeOK
  <2>2. \/ k \in members[t]
        \/ Pending(a, TagCommand("SADD t", k, t))
        \/ \E d \in Calls : Ends(d, k)
    BY <2>1 DEF Listed
  <2>3. Pending(a, TagCommand("SADD t", k, t)) => Holds(pipe'[a], TagCommand("SADD t", k, t))
    BY <1>5 DEF Pending
  <2> QED BY <1>5, <2>1, <2>2, <2>3
<1>12. MembersRead'
  BY <1>2, <1>3, <1>4 DEF MembersRead, Same, Busy
<1>13. Removing'
  BY <1>2, <1>3, <1>4, <1>5, <1>6 DEF Removing, Same, Busy
<1>14. Doomed'
  <2>1. ASSUME NEW d \in Calls, NEW e \in undoes[d] PROVE pc'[e] = "returned"
    <3>1. pc[e] = "returned" /\ e \in Calls /\ e # c
      BY <1>2 DEF Doomed, TypeOK
    <3> QED BY <1>4, <3>1 DEF Same
  <2>2. ASSUME NEW k \in KeysOf(c), pc'[c] = "piping" PROVE Ends(c, k)'
    BY <1>6, <2>2 DEF Ends
  <2>3. ASSUME NEW d \in Calls, NEW k \in Keys, Intact(k)', values'[k].by \in undoes'[d]
        PROVE  /\ pc'[d] = "members" => op'[d].tag \in values'[k].tags
               /\ pc'[d] = "listing" => k \in KeysOf(d)'
               /\ pc'[d] = "piping" => Ends(d, k)'
    <3>1. CASE d = c
      BY <1>2, <1>3, <1>5, <2>2, <2>3, <3>1 DEF Doomed
    <3>2. CASE d # c
      BY <1>2, <1>4, <1>5, <2>3, <3>2 DEF Doomed, Same
    <3> QED BY <3>1, <3>2
  <2> QED BY <1>2, <2>1, <2>3 DEF Doomed
<1>15. UndoneReturned'
  BY <1>2, <1>4 DEF UndoneReturned, TypeOK, Same
<1>16. NothingStale'
  BY <1>2, <1>5 DEF NothingStale
<1> QED BY <1>7, <1>8, <1>9, <1>10, <1>11, <1>12, <1>13, <1>14, <1>15, <1>16

LEMMA EndStep ==
  ASSUME IInv, TypeOK', NEW c \in Calls,
         NoMembers(c) \/ Succeed(c) \/ Throw(c) \/ ReadFails(c)
  PROVE  IInv'
<1> USE DEF IInv
<1>1. /\ pc[c] \in {"members", "listing", "piping", "failing"} /\ pipe[c] = << >>
      /\ pc'[c] \in {"returned", "thrown"} /\ KeysOf(c)' = {} /\ undoes'[c] = {}
      /\ UNCHANGED << values, members, pipe, intact >>
      /\ undone' = undone \/ (undone' = undone \cup undoes[c] /\ pc'[c] = "returned")
      /\ c \in Busy /\ (c \notin Busy)'
  BY DEF NoMembers, Succeed, Throw, ReadFails, Return, End, redis, TypeOK, KeysOf, Busy
<1>2. ASSUME NEW d \in Calls, d # c
      PROVE  /\ Same(d) /\ KeysOf(d)' = KeysOf(d) /\ TagsOf(d)' = TagsOf(d)
             /\ Sendable(d)' = Sendable(d) /\ ((d \in Busy)' <=> d \in Busy)
  <2>1. Same(d)
    BY <1>2, OthersStay DEF CallStep, Work, Fault
  <2> QED BY <2>1, SameCall
<1>3. \A d \in Calls : \A k : Intact(k)' = Intact(k) /\ (Ends(d, k)' <=> Ends(d, k))
  BY <1>1 DEF Intact, Ends, Pending
<1>4. Asked'
  BY <1>1, <1>2 DEF Asked, Same
<1>5. Piped'
  BY <1>1, <1>2 DEF Piped, Same
<1>6. \A d : (d \in Busy)' => d \in Calls /\ d # c /\ d \in Busy
  BY <1>1, <1>2 DEF Busy
<1>7. Apart'
  BY <1>2, <1>6 DEF Apart, Same
<1>8. OneKeyEach'
  BY <1>1, <1>2, <1>6 DEF OneKeyEach, TypeOK, Same
<1>9. Listed'
  BY <1>1, <1>3 DEF Listed, Pending
<1>10. MembersRead'
  BY <1>1, <1>2, <1>6 DEF MembersRead, Same
<1>11. Removing'
  BY <1>1, <1>2, <1>3, <1>6 DEF Removing, Same, Pending
<1>12. ASSUME NEW d \in Calls, NEW e \in undoes[d] PROVE pc'[e] = "returned"
  <2>1. pc[e] = "returned" /\ e \in Calls /\ e # c
    BY <1>1 DEF Doomed, TypeOK
  <2> QED BY <1>2, <2>1 DEF Same
<1>13. Doomed'
  <2>1. ASSUME NEW d \in Calls, d # c, NEW k \in Keys, Intact(k)', values'[k].by \in undoes'[d]
        PROVE  /\ pc'[d] = "members" => op'[d].tag \in values'[k].tags
               /\ pc'[d] = "listing" => k \in KeysOf(d)'
               /\ pc'[d] = "piping" => Ends(d, k)'
    BY <1>1, <1>2, <1>3, <2>1 DEF Doomed, Same
  <2> QED BY <1>1, <1>2, <1>12, <2>1 DEF Doomed, Same
<1>14. UndoneReturned'
  <2>1. \A e \in undone : pc'[e] = "returned"
    BY <1>1, <1>2 DEF UndoneReturned, TypeOK, Same
  <2> QED BY <1>1, <1>12, <2>1 DEF UndoneReturned
<1>15. NothingStale'
  <2>1. ASSUME NoMembers(c) \/ Succeed(c), NEW k \in Keys, Intact(k)
        PROVE  values[k].by \notin undoes[c]
    <3>1. CASE NoMembers(c)
      BY <2>1, <3>1, InvalidationFinds DEF NoMembers
    <3>2. CASE Succeed(c)
      <4>1. pc[c] = "piping" /\ ~ Ends(c, k)
        BY <3>2 DEF Succeed, Ends, Pending, Holds
      <4> QED BY <2>1, <4>1 DEF Doomed
    <3> QED BY <2>1, <3>1, <3>2
  <2>2. NoMembers(c) \/ Succeed(c) \/ undone' = undone
    BY DEF Throw, ReadFails
  <2> QED BY <1>1, <1>3, <2>1, <2>2 DEF NothingStale
<1> QED BY <1>4, <1>5, <1>7, <1>8, <1>9, <1>10, <1>11, <1>13, <1>14, <1>15

(* A torn pipeline excuses every value that is, or will be, under one of   *)
(* its keys.                                                               *)
LEMMA TearStep ==
  ASSUME IInv, TypeOK', NEW c \in Calls, ConnectionLost(c) \/ CommandRefused(c)
  PROVE  IInv'
<1> USE DEF IInv
<1>1. PICK rest : Tear(c, rest) /\ rest \in {<< >>, Tail(pipe[c])}
  BY DEF ConnectionLost, CommandRefused
<1>2. /\ pc[c] \in {"piping", "failing"} /\ pipe[c] # << >>
      /\ pc'[c] = "failing" /\ pipe'[c] = rest /\ c \in Busy /\ (c \in Busy)'
      /\ intact' = [d \in Calls |-> intact[d] /\ StoredFor(d) \cap KeysOf(c) = {}]
      /\ UNCHANGED << values, members, op, lists, undoes, undone >>
      /\ KeysOf(c) # {} /\ pipe[c] \in Seq(Sendable(c))
  BY <1>1, PendingIs DEF Tear, redis, TypeOK, Busy
<1>3. KeysOf(c)' = KeysOf(c) /\ TagsOf(c)' = TagsOf(c) /\ Sendable(c)' = Sendable(c)
  BY <1>2 DEF KeysOf, TagsOf, Sendable
<1>4. ASSUME NEW d \in Calls, d # c
      PROVE  /\ Same(d) /\ KeysOf(d)' = KeysOf(d) /\ TagsOf(d)' = TagsOf(d)
             /\ Sendable(d)' = Sendable(d) /\ ((d \in Busy)' <=> d \in Busy)
             /\ \A x : Pending(d, x)' <=> Pending(d, x)
             /\ \A k : Ends(d, k)' <=> Ends(d, k)
  <2>1. Same(d)
    BY <1>4, OthersStay DEF CallStep, Fault
  <2> QED BY <2>1, SameCall
<1>5. ASSUME NEW k \in Keys, Intact(k)'
      PROVE  /\ Intact(k) /\ values'[k] = values[k] /\ values[k].by \in Calls
             /\ k \notin KeysOf(c) /\ values[k].by # c
  <2>1. /\ values'[k] = values[k] /\ values[k] # None
        /\ intact[values[k].by] /\ StoredFor(values[k].by) \cap KeysOf(c) = {}
        /\ values[k].by \in Calls
    BY <1>2, <1>5 DEF Intact, TypeOK
  <2>2. k \in StoredFor(values[k].by)
    BY <2>1 DEF StoredFor
  <2>3. values[k].by # c
    BY <1>2, <2>1 DEF StoredFor
  <2> QED BY <2>1, <2>2, <2>3 DEF Intact
<1>6. Asked'
  BY <1>2, <1>3, <1>4 DEF Asked, Same
<1>7. Piped'
  <2>1. \A d \in Calls : intact'[d] => intact[d]
    BY <1>2 DEF TypeOK
  <2>2. rest = << >> \/ rest \in Seq(Sendable(c))
    BY <1>1, <1>2, TailHolds
  <2>3. \A x, y : Ordered(pipe[c], x, y) /\ rest # << >> => Ordered(rest, x, y)
    BY <1>1, <1>2, TailOrdered
  <2> SUFFICES ASSUME NEW d \in Calls, pipe'[d] # << >>
               PROVE  /\ pipe'[d] \in Seq(Sendable(d)')
                      /\ op'[d].do = "set" =>
                           /\ \A k \in KeysOf(d)', t \in Tags :
                                Ordered(pipe'[d], TagCommand("SREM t", k, t), Command("SET v", k))
                           /\ intact'[d] => \A k \in KeysOf(d)', t \in TagsOf(d)' :
                                Ordered(pipe'[d], Command("SET v", k), TagCommand("SADD t", k, t))
    BY DEF Piped
  <2>4. CASE d = c
    BY <1>2, <1>3, <2>1, <2>2, <2>3, <2>4 DEF Piped
  <2>5. CASE d # c
    <3>1. pipe'[d] = pipe[d] /\ op'[d] = op[d]
      BY <1>4, <2>5 DEF Same
    <3> QED BY <1>4, <2>1, <2>5, <3>1 DEF Piped
  <2> QED BY <2>4, <2>5
<1>8. Apart'
  <2>1. \A d : (d \in Busy)' => d \in Busy
    BY <1>2, <1>4 DEF Busy
  <2> QED BY <1>2, <2>1 DEF Apart
<1>9. OneKeyEach'
  BY <1>2, <1>4 DEF OneKeyEach, TypeOK, Same
<1>10. Listed'
  <2> SUFFICES ASSUME NEW k \in Keys, Intact(k)', NEW t \in values[k].tags
               PROVE  \/ k \in members[t]
                      \/ Pending(values[k].by, TagCommand("SADD t", k, t))'
                      \/ \E d \in Calls : Ends(d, k)'
    BY <1>2 DEF Listed, Pending
  <2>1. Pending(values[k].by, TagCommand("SADD t", k, t))
          => Pending(values[k].by, TagCommand("SADD t", k, t))'
    BY <1>4, <1>5
  <2>2. ASSUME NEW d \in Calls, Ends(d, k) PROVE Ends(d, k)'
    BY <1>4, <1>5, <2>2, EndsIsAboutIt
  <2> QED BY <1>5, <2>1, <2>2 DEF Listed
<1>11. MembersRead'
  BY <1>2, <1>3, <1>4 DEF MembersRead, Same, Busy
<1>12. Removing'
  <2> SUFFICES ASSUME NEW d \in Calls, (d \in Busy)', op'[d].do # "set",
                      pc'[d] \in {"piping", "failing"}, NEW k \in KeysOf(d)', Intact(k)'
               PROVE  Pending(d, Command("DEL v", k))'
    BY DEF Removing, Busy
  <2>1. k \in Keys
    BY DEF TypeOK
  <2>2. d # c
    BY <1>3, <1>5, <2>1
  <2>3. d \in Busy /\ op[d].do # "set" /\ pc[d] \in {"piping", "failing"} /\ k \in KeysOf(d)
    BY <1>4, <2>2 DEF Same
  <2> QED BY <1>4, <1>5, <2>1, <2>2, <2>3 DEF Removing
<1>13. Doomed'
  <2>1. ASSUME NEW d \in Calls, NEW e \in undoes[d] PROVE pc'[e] = "returned"
    <3>1. pc[e] = "returned" /\ e \in Calls /\ e # c
      BY <1>2 DEF Doomed, TypeOK
    <3> QED BY <1>4, <3>1 DEF Same
  <2>2. ASSUME NEW d \in Calls, NEW k \in Keys, Intact(k)', values'[k].by \in undoes'[d]
        PROVE  /\ pc'[d] = "members" => op'[d].tag \in values'[k].tags
               /\ pc'[d] = "listing" => k \in KeysOf(d)'
               /\ pc'[d] = "piping" => Ends(d, k)'
    <3>1. CASE d = c
      BY <1>2, <3>1
    <3>2. CASE d # c
      BY <1>2, <1>4, <1>5, <2>2, <3>2 DEF Doomed, Same
    <3> QED BY <3>1, <3>2
  <2> QED BY <1>2, <2>1, <2>2 DEF Doomed
<1>14. UndoneReturned'
  BY <1>2, <1>4 DEF UndoneReturned, TypeOK, Same
<1>15. NothingStale'
  BY <1>2, <1>5 DEF NothingStale
<1> QED BY <1>6, <1>7, <1>8, <1>9, <1>10, <1>11, <1>12, <1>13, <1>14, <1>15

(* Values expire, and nothing else changes that the invariant speaks of.   *)
LEMMA QuietStep ==
  ASSUME IInv, TypeOK', Tick \/ AllDone \/ UNCHANGED vars
  PROVE  IInv'
<1> USE DEF IInv
<1>1. UNCHANGED << op, pc, lists, pipe, members, intact, undoes, undone >>
  BY DEF Tick, AllDone, vars, redis, locals, history
<1>2. ASSUME NEW k \in Keys, values'[k] # None PROVE values'[k] = values[k] /\ values[k] # None
  BY <1>2 DEF Tick, AllDone, vars, redis, TypeOK
<1>3. /\ Busy' = Busy
      /\ \A d : /\ KeysOf(d)' = KeysOf(d) /\ TagsOf(d)' = TagsOf(d) /\ Sendable(d)' = Sendable(d)
               /\ \A x : Pending(d, x)' <=> Pending(d, x)
               /\ \A k : Ends(d, k)' <=> Ends(d, k)
  BY <1>1 DEF Busy, KeysOf, TagsOf, Sendable, Pending, Ends
<1>4. ASSUME NEW k \in Keys, Intact(k)' PROVE Intact(k) /\ values'[k] = values[k]
  BY <1>1, <1>2, <1>4 DEF Intact
<1>5. Asked' /\ Piped'
  BY <1>1, <1>3 DEF Asked, Piped
<1>6. Apart' /\ MembersRead' /\ UndoneReturned'
  BY <1>1, <1>3 DEF Apart, MembersRead, UndoneReturned
<1>7. OneKeyEach'
  BY <1>1, <1>2, <1>3 DEF OneKeyEach
<1>8. Listed'
  <2>1. ASSUME NEW k \in Keys, Intact(k)', NEW t \in values[k].tags
        PROVE  \/ k \in members[t]
               \/ Pending(values[k].by, TagCommand("SADD t", k, t))
               \/ \E c \in Calls : Ends(c, k)
    BY <1>4, <2>1 DEF Listed
  <2> QED BY <1>1, <1>4, <2>1 DEF Listed, Pending, Ends
<1>9. Removing'
  <2>1. ASSUME NEW c \in Calls, c \in Busy, op[c].do # "set", pc[c] \in {"piping", "failing"},
               NEW k \in KeysOf(c), Intact(k)'
        PROVE  Pending(c, Command("DEL v", k))
    <3>1. k \in Keys
      BY DEF TypeOK
    <3>2. Intact(k)
      BY <1>4, <2>1, <3>1
    <3> QED BY <2>1, <3>2 DEF Removing
  <2> QED BY <1>1, <2>1 DEF Removing, Pending, Busy, KeysOf
<1>10. Doomed'
  <2>1. ASSUME NEW c \in Calls, NEW k \in Keys, Intact(k)', values[k].by \in undoes[c]
        PROVE  /\ pc[c] = "members" => op[c].tag \in values[k].tags
               /\ pc[c] = "listing" => k \in KeysOf(c)
               /\ pc[c] = "piping" => Ends(c, k)
    BY <1>4, <2>1 DEF Doomed
  <2>2. \A c \in Calls : \A d \in undoes[c] : pc[d] = "returned"
    BY DEF Doomed
  <2> QED BY <1>1, <1>4, <2>1, <2>2 DEF Doomed, Pending, Ends, KeysOf
<1>11. NothingStale'
  BY <1>1, <1>4 DEF NothingStale
<1> QED BY <1>5, <1>6, <1>7, <1>8, <1>9, <1>10, <1>11

-----------------------------------------------------------------------------
(* One command of a pipeline.                                              *)

LEMMA ExecuteIs ==
  ASSUME IInv, NEW c \in Calls, Execute(c), NEW cmd, cmd = Head(pipe[c])
  PROVE  /\ Apply(c, cmd) /\ cmd \in Sendable(c) /\ c \in Busy /\ pc[c] \in {"piping", "failing"}
         /\ pipe[c] # << >> /\ pipe'[c] = Tail(pipe[c]) /\ pipe'[c] \in Seq(Sendable(c))
         /\ UNCHANGED << op, pc, lists, intact, undoes, undone >>
         /\ \A d \in Calls : d # c => pipe'[d] = pipe[d]
         /\ \A d \in Calls : \A x : Pending(d, x) /\ (d # c \/ x # cmd) => Pending(d, x)'
         /\ \A x, y : Ordered(pipe[c], x, y) =>
              /\ Ordered(pipe'[c], x, y)
              /\ cmd = x => Pending(c, y)'
<1>1. /\ pipe[c] # << >> /\ pipe'[c] = Tail(pipe[c]) /\ Apply(c, cmd)
      /\ UNCHANGED << op, pc, lists, intact, undoes, undone >>
      /\ \A d \in Calls : d # c => pipe'[d] = pipe[d]
  BY DEF Execute, history, IInv, TypeOK
<1>2. pipe[c] \in Seq(Sendable(c)) /\ c \in Busy /\ pc[c] \in {"piping", "failing"}
  BY <1>1, PendingIs DEF IInv
<1>3. /\ cmd \in Sendable(c) /\ pipe'[c] \in Seq(Sendable(c))
      /\ \A x : Holds(pipe[c], x) /\ x # cmd => Holds(pipe'[c], x)
  BY <1>1, <1>2, TailHolds
<1>4. ASSUME NEW x, NEW y, Ordered(pipe[c], x, y)
      PROVE  Ordered(pipe'[c], x, y) /\ (cmd = x => Holds(pipe'[c], y))
  BY <1>1, <1>2, <1>4, TailOrdered
<1> QED BY <1>1, <1>2, <1>3, <1>4 DEF Pending

(* What holds whichever command it was.                                    *)
LEMMA ExecuteKeeps ==
  ASSUME IInv, NEW c \in Calls, Execute(c)
  PROVE  /\ Asked' /\ Piped' /\ Apart' /\ UndoneReturned'
         /\ Busy' = Busy
         /\ \A d : KeysOf(d)' = KeysOf(d) /\ TagsOf(d)' = TagsOf(d)
<1> USE DEF IInv
<1>1. PICK cmd : cmd = Head(pipe[c])
  OBVIOUS
<1>2. /\ UNCHANGED << op, pc, lists, intact, undoes, undone >>
      /\ pipe[c] # << >> /\ pipe'[c] \in Seq(Sendable(c))
      /\ \A d \in Calls : d # c => pipe'[d] = pipe[d]
      /\ \A x, y : Ordered(pipe[c], x, y) => Ordered(pipe'[c], x, y)
  BY <1>1, ExecuteIs
<1>3. /\ Busy' = Busy
      /\ \A d : KeysOf(d)' = KeysOf(d) /\ TagsOf(d)' = TagsOf(d) /\ Sendable(d)' = Sendable(d)
  BY <1>2 DEF Busy, KeysOf, TagsOf, Sendable
<1>4. Asked' /\ Apart' /\ UndoneReturned'
  BY <1>2, <1>3 DEF Asked, Apart, UndoneReturned
<1>5. Piped'
  BY <1>2, <1>3 DEF Piped
<1> QED BY <1>3, <1>4, <1>5

LEMMA StoredBy ==
  ASSUME TypeOK, NEW k \in Keys, values[k] # None
  PROVE  values[k].by \in Calls /\ values[k].tags \subseteq Tags
BY DEF TypeOK

LEMMA OneKeyAt ==
  ASSUME OneKeyEach, NEW k \in Keys, values[k] # None, NEW d, d = values[k].by
  PROVE  /\ pc[d] \in {"piping", "failing", "returned", "thrown"}
         /\ d \in Busy => op[d].do = "set" /\ op[d].key = k
         /\ \A j \in Keys : values[j] # None /\ values[j].by = d => j = k
BY DEF OneKeyEach

(* A command that stores nothing but its caller's value under its key.     *)
LEMMA OneKeyStep ==
  ASSUME OneKeyEach, NEW c \in Calls, UNCHANGED << op, pc >>,
         \A k \in Keys : values'[k] # None =>
           \/ values[k] # None /\ values'[k].by = values[k].by
           \/ /\ values'[k].by = c /\ c \in Busy /\ pc[c] \in {"piping", "failing"}
              /\ op[c].do = "set" /\ op[c].key = k
  PROVE  OneKeyEach'
<1>1. Busy' = Busy
  BY DEF Busy
<1>2. ASSUME NEW k \in Keys, values'[k] # None, NEW d, d = values'[k].by
      PROVE  /\ pc[d] \in {"piping", "failing", "returned", "thrown"}
             /\ d \in Busy => op[d].do = "set" /\ op[d].key = k
  <2>1. CASE values[k] # None /\ d = values[k].by
    BY <2>1, OneKeyAt
  <2>2. CASE /\ d = c /\ pc[c] \in {"piping", "failing"}
             /\ op[c].do = "set" /\ op[c].key = k
    BY <2>2
  <2> QED BY <1>2, <2>1, <2>2
<1>3. ASSUME NEW k \in Keys, values'[k] # None, NEW d, d = values'[k].by,
             NEW j \in Keys, values'[j] # None, values'[j].by = d
      PROVE  j = k
  <2>1. CASE d \in Busy
    BY <1>2, <1>3, <2>1
  <2>2. CASE d \notin Busy
    <3>1. values[k] # None /\ values[k].by = d /\ values[j] # None /\ values[j].by = d
      BY <1>3, <2>2
    <3> QED BY <3>1, OneKeyAt
  <2> QED BY <2>1, <2>2
<1> QED BY <1>1, <1>2, <1>3 DEF OneKeyEach

(* A command that only concerns keyTags.                                   *)
LEMMA TagsCommandStep ==
  ASSUME IInv, NEW c \in Calls, Execute(c), NEW cmd, cmd = Head(pipe[c]),
         cmd.do \in {"DEL kt", "SADD kt", "PEXPIRE kt"}
  PROVE  OneKeyEach' /\ Listed' /\ MembersRead' /\ Removing' /\ Doomed' /\ NothingStale'
<1> USE DEF IInv
<1>1. /\ UNCHANGED << op, pc, lists, intact, undoes, undone >>
      /\ Busy' = Busy
      /\ \A d : KeysOf(d)' = KeysOf(d)
      /\ Apply(c, cmd)
      /\ \A d \in Calls : \A x : Pending(d, x) /\ (d # c \/ x # cmd) => Pending(d, x)'
  BY ExecuteIs, ExecuteKeeps
<1>2. UNCHANGED << values, members >>
  BY <1>1 DEF Apply
<1>3. \A k : Intact(k)' = Intact(k)
  BY <1>1, <1>2 DEF Intact
<1>4. ASSUME NEW d \in Calls, NEW k
      PROVE  /\ \A t : Pending(d, TagCommand("SADD t", k, t)) => Pending(d, TagCommand("SADD t", k, t))'
             /\ Pending(d, Command("DEL v", k)) => Pending(d, Command("DEL v", k))'
             /\ Ends(d, k) => Ends(d, k)'
  <2>1. \A t : TagCommand("SADD t", k, t) # cmd
    BY OtherCommand
  <2>2. Command("DEL v", k) # cmd /\ Command("SET v", k) # cmd
    BY OtherCommand
  <2> QED BY <1>1, <2>1, <2>2 DEF Ends
<1>5. \A k \in Keys : Intact(k) => values[k].by \in Calls
  BY DEF Intact, TypeOK
<1>6. OneKeyEach' /\ MembersRead' /\ NothingStale'
  <2>1. OneKeyEach'
    BY <1>1, <1>2, OneKeyStep
  <2>2. MembersRead'
    BY <1>1, <1>2 DEF MembersRead
  <2>3. NothingStale'
    BY <1>1, <1>2, <1>3 DEF NothingStale
  <2> QED BY <2>1, <2>2, <2>3
<1>7. Listed'
  BY <1>2, <1>3, <1>4, <1>5 DEF Listed
<1>8. Removing'
  BY <1>1, <1>3, <1>4 DEF Removing, Busy
<1>9. Doomed'
  BY <1>1, <1>2, <1>3, <1>4 DEF Doomed
<1> QED BY <1>6, <1>7, <1>8, <1>9

(* What other keys and other tags have is not touched.                     *)
LEMMA OthersPending ==
  ASSUME IInv, NEW c \in Calls, Execute(c), NEW cmd, cmd = Head(pipe[c]),
         NEW d \in Calls, NEW k
  PROVE  /\ cmd.do # "SADD t" \/ cmd.key # k =>
              \A t : Pending(d, TagCommand("SADD t", k, t)) => Pending(d, TagCommand("SADD t", k, t))'
         /\ cmd.do # "DEL v" \/ cmd.key # k =>
              (Pending(d, Command("DEL v", k)) => Pending(d, Command("DEL v", k))')
         /\ cmd.do \notin {"SET v", "DEL v"} \/ cmd.key # k => (Ends(d, k) => Ends(d, k)')
<1>1. \A x : Pending(d, x) /\ x # cmd => Pending(d, x)'
  BY ExecuteIs
<1>2. cmd.do # "SADD t" \/ cmd.key # k => \A t : TagCommand("SADD t", k, t) # cmd
  BY OtherCommand
<1>3. cmd.do # "DEL v" \/ cmd.key # k => Command("DEL v", k) # cmd
  BY OtherCommand
<1>4. cmd.do # "SET v" \/ cmd.key # k => Command("SET v", k) # cmd
  BY OtherCommand
<1> QED BY <1>1, <1>2, <1>3, <1>4 DEF Ends

(* SET v: the new value is the caller's, and its tags are still to come.   *)
LEMMA SetCommandStep ==
  ASSUME IInv, TypeOK', NEW c \in Calls, Execute(c), NEW cmd, cmd = Head(pipe[c]),
         cmd.do = "SET v"
  PROVE  OneKeyEach' /\ Listed' /\ MembersRead' /\ Removing' /\ Doomed' /\ NothingStale'
<1> USE DEF IInv
<1>1. /\ UNCHANGED << op, pc, lists, intact, undoes, undone >>
      /\ Busy' = Busy
      /\ \A d : KeysOf(d)' = KeysOf(d) /\ TagsOf(d)' = TagsOf(d)
      /\ Apply(c, cmd) /\ cmd \in Sendable(c)
      /\ c \in Busy /\ pc[c] \in {"piping", "failing"} /\ pipe[c] # << >>
      /\ \A x, y : Ordered(pipe[c], x, y) /\ cmd = x => Pending(c, y)'
  BY ExecuteIs, ExecuteKeeps
<1>2. PICK k0 : k0 = cmd.key
  OBVIOUS
<1>3. op[c].do = "set" /\ k0 \in KeysOf(c) /\ cmd = Command("SET v", k0)
  BY <1>1, <1>2, SendableIs
<1>4. k0 \in Keys /\ k0 = op[c].key /\ TagsOf(c) \subseteq Tags
  BY <1>1, <1>3, PendingIs
<1>5. /\ UNCHANGED << members, keyTags >>
      /\ values' = [values EXCEPT ![k0] = 
                      [by |-> c, tags |-> TagsOf(c), expiresAt |-> Deadline(c)]]
  BY <1>1, <1>2 DEF Apply
<1>6. values'[k0].by = c /\ values'[k0].tags = TagsOf(c)
  BY <1>4, <1>5 DEF TypeOK
<1>7. ASSUME NEW k \in Keys, k # k0
      PROVE  values'[k] = values[k] /\ Intact(k)' = Intact(k)
  BY <1>1, <1>5, <1>7 DEF TypeOK, Intact
<1>8. ASSUME NEW d \in Calls, NEW k \in Keys, k # k0
      PROVE  /\ \A t : Pending(d, TagCommand("SADD t", k, t)) => Pending(d, TagCommand("SADD t", k, t))'
             /\ Ends(d, k) => Ends(d, k)'
  BY <1>2, <1>8, OthersPending
<1>9. OneKeyEach'
  <2>1. \A k \in Keys : values'[k] # None =>
          \/ values[k] # None /\ values'[k].by = values[k].by
          \/ /\ values'[k].by = c /\ c \in Busy /\ pc[c] \in {"piping", "failing"}
             /\ op[c].do = "set" /\ op[c].key = k
    BY <1>1, <1>3, <1>4, <1>6, <1>7
  <2> QED BY <1>1, <2>1, OneKeyStep
<1>10. Listed'
  <2>1. ASSUME NEW k \in Keys, k # k0, Intact(k), NEW t \in values[k].tags
        PROVE  \/ k \in members[t]
               \/ Holds(pipe'[values[k].by], TagCommand("SADD t", k, t))
               \/ \E d \in Calls : Ends(d, k)'
    <3>1. values[k].by \in Calls
      BY <2>1, StoredBy DEF Intact
    <3>2. PICK a \in Calls : a = values[k].by
      BY <3>1
    <3>3. Pending(a, TagCommand("SADD t", k, t)) => Pending(a, TagCommand("SADD t", k, t))'
      BY <1>8, <2>1
    <3> QED BY <1>8, <2>1, <3>2, <3>3 DEF Listed, Pending
  <2>2. ASSUME Intact(k0)', NEW t \in TagsOf(c)
        PROVE  Holds(pipe'[c], TagCommand("SADD t", k0, t))
    <3>1. intact[c]
      BY <1>1, <1>6, <2>2 DEF Intact
    <3>2. Ordered(pipe[c], Command("SET v", k0), TagCommand("SADD t", k0, t))
      BY <1>1, <1>3, <3>1 DEF Piped
    <3> QED BY <1>1, <1>3, <3>2 DEF Pending
  <2>3. ASSUME NEW k \in Keys, Intact(k)', NEW t \in values'[k].tags
        PROVE  \/ k \in members'[t]
               \/ Holds(pipe'[values'[k].by], TagCommand("SADD t", k, t))
               \/ \E d \in Calls : Ends(d, k)'
    BY <1>5, <1>6, <1>7, <2>1, <2>2, <2>3
  <2> QED BY <2>3 DEF Listed, Pending
<1>11. MembersRead'
  BY <1>1, <1>5 DEF MembersRead
<1>12. \A d \in Busy : op[d].do = "set"
  BY <1>1, <1>3 DEF Apart
<1>13. Removing'
  BY <1>1, <1>12 DEF Removing
<1>14. Doomed'
  <2>1. \A d \in Calls : c \notin undoes[d]
    BY <1>1 DEF Doomed
  <2> QED BY <1>1, <1>6, <1>7, <1>8, <2>1 DEF Doomed
<1>15. NothingStale'
  <2>1. c \notin undone
    BY <1>1 DEF UndoneReturned
  <2> QED BY <1>1, <1>6, <1>7, <2>1 DEF NothingStale
<1> QED BY <1>9, <1>10, <1>11, <1>13, <1>14, <1>15

(* DEL v: one value less.                                                  *)
LEMMA DeleteCommandStep ==
  ASSUME IInv, NEW c \in Calls, Execute(c), NEW cmd, cmd = Head(pipe[c]), cmd.do = "DEL v"
  PROVE  OneKeyEach' /\ Listed' /\ MembersRead' /\ Removing' /\ Doomed' /\ NothingStale'
<1> USE DEF IInv
<1>1. /\ UNCHANGED << op, pc, lists, intact, undoes, undone >>
      /\ Busy' = Busy
      /\ \A d : KeysOf(d)' = KeysOf(d)
      /\ Apply(c, cmd)
  BY ExecuteIs, ExecuteKeeps
<1>2. PICK k0 : k0 = cmd.key
  OBVIOUS
<1>3. UNCHANGED members /\ values' = [values EXCEPT ![k0] = None]
  BY <1>1, <1>2 DEF Apply
<1>4. ASSUME NEW k \in Keys, values'[k] # None
      PROVE  k # k0 /\ values'[k] = values[k] /\ values[k] # None
  BY <1>3, <1>4 DEF TypeOK
<1>5. ASSUME NEW k \in Keys, Intact(k)'
      PROVE  k # k0 /\ values'[k] = values[k] /\ Intact(k) /\ values[k].by \in Calls
  <2>1. k # k0 /\ values'[k] = values[k] /\ Intact(k)
    BY <1>1, <1>4, <1>5 DEF Intact
  <2> QED BY <2>1, StoredBy DEF Intact
<1>6. ASSUME NEW d \in Calls, NEW k \in Keys, k # k0
      PROVE  /\ \A t : Pending(d, TagCommand("SADD t", k, t)) => Pending(d, TagCommand("SADD t", k, t))'
             /\ Pending(d, Command("DEL v", k)) => Pending(d, Command("DEL v", k))'
             /\ Ends(d, k) => Ends(d, k)'
  BY <1>2, <1>6, OthersPending
<1>7. OneKeyEach'
  BY <1>1, <1>4, OneKeyStep
<1>8. Listed'
  <2>1. ASSUME NEW k \in Keys, Intact(k)', NEW t \in values'[k].tags
        PROVE  \/ k \in members'[t]
               \/ Holds(pipe'[values'[k].by], TagCommand("SADD t", k, t))
               \/ \E d \in Calls : Ends(d, k)'
    <3>1. PICK a \in Calls : a = values[k].by /\ values'[k].by = a
      BY <1>5, <2>1
    <3>2. Pending(a, TagCommand("SADD t", k, t)) => Pending(a, TagCommand("SADD t", k, t))'
      BY <1>5, <1>6, <2>1
    <3> QED BY <1>3, <1>5, <1>6, <2>1, <3>1, <3>2 DEF Listed, Pending
  <2> QED BY <2>1 DEF Listed, Pending
<1>9. MembersRead'
  BY <1>1, <1>3 DEF MembersRead
<1>10. Removing'
  BY <1>1, <1>5, <1>6 DEF Removing, Busy, TypeOK
<1>11. Doomed'
  BY <1>1, <1>5, <1>6 DEF Doomed
<1>12. NothingStale'
  BY <1>1, <1>5 DEF NothingStale
<1> QED BY <1>7, <1>8, <1>9, <1>10, <1>11, <1>12

(* SADD t and SREM t: one key more, or less, under a tag.                  *)
LEMMA IndexCommandStep ==
  ASSUME IInv, NEW c \in Calls, Execute(c), NEW cmd, cmd = Head(pipe[c]),
         cmd.do \in {"SADD t", "SREM t"}
  PROVE  OneKeyEach' /\ Listed' /\ MembersRead' /\ Removing' /\ Doomed' /\ NothingStale'
<1> USE DEF IInv
<1>1. /\ UNCHANGED << op, pc, lists, intact, undoes, undone >>
      /\ Busy' = Busy
      /\ \A d : KeysOf(d)' = KeysOf(d)
      /\ Apply(c, cmd) /\ cmd \in Sendable(c)
      /\ c \in Busy /\ pc[c] \in {"piping", "failing"} /\ pipe[c] # << >>
      /\ \A d \in Calls : \A x : Pending(d, x) /\ (d # c \/ x # cmd) => Pending(d, x)'
      /\ \A x, y : Ordered(pipe[c], x, y) /\ cmd = x => Pending(c, y)'
  BY ExecuteIs, ExecuteKeeps
<1>2. PICK k0, t0 : k0 = cmd.key /\ t0 = cmd.tag
  OBVIOUS
<1>3. /\ k0 \in KeysOf(c) /\ cmd = TagCommand(cmd.do, k0, t0)
      /\ cmd.do = "SADD t" => op[c].do = "set" /\ t0 \in TagsOf(c)
      /\ cmd.do = "SREM t" => t0 \in Tags
  BY <1>1, <1>2, SendableIs
<1>4. k0 \in Keys /\ t0 \in Tags
  BY <1>1, <1>3, PendingIs
<1>5. /\ UNCHANGED values
      /\ cmd.do = "SADD t" => members' = [members EXCEPT ![t0] = @ \cup {k0}]
      /\ cmd.do = "SREM t" => members' = [members EXCEPT ![t0] = @ \ {k0}]
  BY <1>1, <1>2 DEF Apply
<1>6. /\ \A t \in Tags \ {t0} : members'[t] = members[t]
      /\ cmd.do = "SADD t" => members'[t0] = members[t0] \cup {k0}
      /\ cmd.do = "SREM t" => members'[t0] = members[t0] \ {k0}
  BY <1>4, <1>5 DEF TypeOK
<1>7. \A k : Intact(k)' = Intact(k)
  BY <1>1, <1>5 DEF Intact
<1>8. ASSUME NEW d \in Calls, NEW k
      PROVE  /\ Pending(d, Command("DEL v", k)) => Pending(d, Command("DEL v", k))'
             /\ Ends(d, k) => Ends(d, k)'
  BY OthersPending
<1>9. OneKeyEach' /\ NothingStale'
  <2>1. OneKeyEach'
    BY <1>1, <1>5, OneKeyStep
  <2> QED BY <1>1, <1>5, <1>7, <2>1 DEF NothingStale
<1>10. Listed'
  <2>1. ASSUME NEW k \in Keys, Intact(k), NEW t \in values[k].tags
        PROVE  \/ k \in members'[t]
               \/ Holds(pipe'[values[k].by], TagCommand("SADD t", k, t))
               \/ \E d \in Calls : Ends(d, k)'
    <3>1. PICK a \in Calls : a = values[k].by
      BY <2>1, StoredBy DEF Intact
    <3>2. t \in Tags
      BY <2>1, StoredBy DEF Intact
    <3>3. CASE \E d \in Calls : Ends(d, k)
      BY <1>8, <3>3
    <3>4. CASE Pending(a, TagCommand("SADD t", k, t))
      <4>1. CASE cmd = TagCommand("SADD t", k, t)
        <5>1. cmd.do = "SADD t" /\ k = k0 /\ t = t0
          <6>1. /\ TagCommand("SADD t", k, t).do = "SADD t"
                /\ TagCommand("SADD t", k, t).key = k
                /\ TagCommand("SADD t", k, t).tag = t
            BY DEF TagCommand
          <6> QED BY <1>2, <4>1, <6>1
        <5> QED BY <1>6, <5>1
      <4>2. CASE cmd # TagCommand("SADD t", k, t)
        BY <1>1, <3>1, <3>4, <4>2 DEF Pending
      <4> QED BY <4>1, <4>2
    <3>5. CASE k \in members[t] /\ ~ (cmd.do = "SREM t" /\ k = k0 /\ t = t0)
      BY <1>6, <3>2, <3>5
    <3>6. CASE cmd.do = "SREM t" /\ k = k0 /\ t = t0
      <4>1. CASE op[c].do = "set"
        <5>1. Ordered(pipe[c], TagCommand("SREM t", k0, t0), Command("SET v", k0))
          BY <1>1, <1>3, <1>4, <4>1 DEF Piped
        <5>2. Pending(c, Command("SET v", k0))'
          BY <1>1, <1>3, <3>6, <5>1
        <5> QED BY <3>6, <5>2 DEF Ends
      <4>2. CASE op[c].do # "set"
        <5>1. Pending(c, Command("DEL v", k0))
          BY <1>1, <1>3, <2>1, <3>6, <4>2 DEF Removing
        <5>2. Pending(c, Command("DEL v", k0))'
          BY <1>8, <5>1
        <5> QED BY <3>6, <5>2 DEF Ends
      <4> QED BY <4>1, <4>2
    <3> QED BY <2>1, <3>1, <3>3, <3>4, <3>5, <3>6 DEF Listed
  <2> QED BY <1>5, <1>7, <2>1 DEF Listed, Pending
<1>11. MembersRead'
  <2> SUFFICES ASSUME NEW d \in Busy, op[d].do = "invalidateTag", pc[d] # "members"
               PROVE  members'[op[d].tag] \subseteq KeysOf(d)
    BY <1>1 DEF MembersRead
  <2>1. members[op[d].tag] \subseteq KeysOf(d)
    BY DEF MembersRead
  <2>2. op[d].tag \in Tags
    BY DEF Asked, Op, Busy
  <2>3. cmd.do = "SREM t"
    BY <1>1, <1>3 DEF Apart
  <2> QED BY <1>6, <2>1, <2>2, <2>3
<1>12. Removing'
  BY <1>1, <1>7, <1>8 DEF Removing, Busy
<1>13. Doomed'
  BY <1>1, <1>5, <1>7, <1>8 DEF Doomed
<1> QED BY <1>9, <1>10, <1>11, <1>12, <1>13

(* DEL t: the keys it loses are those the invalidation is about, and what  *)
(* is left under them is not yet deleted.                                  *)
LEMMA DropCommandStep ==
  ASSUME IInv, NEW c \in Calls, Execute(c), NEW cmd, cmd = Head(pipe[c]), cmd.do = "DEL t"
  PROVE  OneKeyEach' /\ Listed' /\ MembersRead' /\ Removing' /\ Doomed' /\ NothingStale'
<1> USE DEF IInv
<1>1. /\ UNCHANGED << op, pc, lists, intact, undoes, undone >>
      /\ Busy' = Busy
      /\ \A d : KeysOf(d)' = KeysOf(d)
      /\ Apply(c, cmd) /\ cmd \in Sendable(c)
      /\ c \in Busy /\ pc[c] \in {"piping", "failing"}
  BY ExecuteIs, ExecuteKeeps
<1>2. PICK t0 : t0 = cmd.tag
  OBVIOUS
<1>3. op[c].do = "invalidateTag" /\ t0 = op[c].tag
  BY <1>1, <1>2, SendableIs
<1>4. t0 \in Tags
  BY <1>1, <1>3 DEF Asked, Op
<1>5. UNCHANGED values /\ members' = [members EXCEPT ![t0] = {}]
  BY <1>1, <1>2 DEF Apply
<1>6. members'[t0] = {} /\ \A t \in Tags \ {t0} : members'[t] = members[t]
  BY <1>4, <1>5 DEF TypeOK
<1>7. \A k : Intact(k)' = Intact(k)
  BY <1>1, <1>5 DEF Intact
<1>8. ASSUME NEW d \in Calls, NEW k
      PROVE  /\ \A t : Pending(d, TagCommand("SADD t", k, t)) => Pending(d, TagCommand("SADD t", k, t))'
             /\ Pending(d, Command("DEL v", k)) => Pending(d, Command("DEL v", k))'
             /\ Ends(d, k) => Ends(d, k)'
  BY OthersPending
<1>9. OneKeyEach' /\ NothingStale'
  <2>1. OneKeyEach'
    BY <1>1, <1>5, OneKeyStep
  <2> QED BY <1>1, <1>5, <1>7, <2>1 DEF NothingStale
<1>10. Listed'
  <2>1. ASSUME NEW k \in Keys, Intact(k), NEW t \in values[k].tags
        PROVE  \/ k \in members'[t]
               \/ Holds(pipe'[values[k].by], TagCommand("SADD t", k, t))
               \/ \E d \in Calls : Ends(d, k)'
    <3>1. PICK a \in Calls : a = values[k].by
      BY <2>1, StoredBy DEF Intact
    <3>2. t \in Tags
      BY <2>1, StoredBy DEF Intact
    <3>3. CASE \E d \in Calls : Ends(d, k)
      BY <1>8, <3>3
    <3>4. CASE Pending(a, TagCommand("SADD t", k, t))
      BY <1>8, <3>1, <3>4 DEF Pending
    <3>5. CASE k \in members[t] /\ t # t0
      BY <1>6, <3>2, <3>5
    <3>6. CASE k \in members[t] /\ t = t0
      <4>1. k \in KeysOf(c)
        BY <1>1, <1>3, <3>6 DEF MembersRead
      <4>2. Pending(c, Command("DEL v", k))
        BY <1>1, <1>3, <2>1, <4>1 DEF Removing
      <4> QED BY <1>8, <4>2 DEF Ends
    <3> QED BY <2>1, <3>1, <3>3, <3>4, <3>5, <3>6 DEF Listed
  <2> QED BY <1>5, <1>7, <2>1 DEF Listed, Pending
<1>11. MembersRead'
  <2> SUFFICES ASSUME NEW d \in Busy, op[d].do = "invalidateTag", pc[d] # "members"
               PROVE  members'[op[d].tag] \subseteq KeysOf(d)
    BY <1>1 DEF MembersRead
  <2>1. members[op[d].tag] \subseteq KeysOf(d)
    BY DEF MembersRead
  <2>2. op[d].tag \in Tags
    BY DEF Asked, Op, Busy
  <2> QED BY <1>6, <2>1, <2>2
<1>12. Removing'
  BY <1>1, <1>7, <1>8 DEF Removing, Busy
<1>13. Doomed'
  BY <1>1, <1>5, <1>7, <1>8 DEF Doomed
<1> QED BY <1>9, <1>10, <1>11, <1>12, <1>13

LEMMA ExecuteStep ==
  ASSUME IInv, TypeOK', NEW c \in Calls, Execute(c)
  PROVE  IInv'
<1>1. PICK cmd : cmd = Head(pipe[c])
  OBVIOUS
<1>2. Asked' /\ Piped' /\ Apart' /\ UndoneReturned'
  BY ExecuteKeeps
<1>3. cmd.do \in {"SET v", "DEL v", "DEL kt", "SADD kt", "PEXPIRE kt", "SADD t", "SREM t", "DEL t"}
  <2>1. cmd \in Sendable(c)
    BY <1>1, ExecuteIs
  <2> QED BY <2>1, SendableIs
<1>4. OneKeyEach' /\ Listed' /\ MembersRead' /\ Removing' /\ Doomed' /\ NothingStale'
  BY <1>1, <1>3, SetCommandStep, DeleteCommandStep, TagsCommandStep, IndexCommandStep,
     DropCommandStep
<1> QED BY <1>2, <1>4 DEF IInv

-----------------------------------------------------------------------------
(* The types.                                                              *)

\* What TypeOK says of one call's locals.
Shaped(c) ==
  /\ KeysOf(c) \subseteq Keys
  /\ \A k \in KeysOf(c) : lists[c][k] = None \/ lists[c][k] \subseteq Tags
  /\ pc[c] \in {"piping", "failing"} => \A k \in KeysOf(c) : lists[c][k] # None
  /\ pipe[c] # << >> => pc[c] \in {"piping", "failing"}

LEMMA ShapedStays ==
  ASSUME TypeOK, NEW d \in Calls, Same(d)
  PROVE  Shaped(d)'
BY DEF Same, Shaped, TypeOK, KeysOf

\* One command keeps what Redis has of the right shape.
LEMMA ApplyTypes ==
  ASSUME TypeOK, Asked, Piped, NEW c \in Calls, pipe[c] # << >>,
         NEW cmd \in Sendable(c), Apply(c, cmd)
  PROVE  /\ values' \in
              [Keys -> [by : Calls, tags : SUBSET Tags, expiresAt : Nat \cup {None}] \cup {None}]
         /\ keyTags' \in [Keys -> [tags : SUBSET Tags, expiresAt : Nat \cup {None}]]
         /\ members' \in [Tags -> SUBSET Keys]
<1>1. /\ op[c] \in Op /\ KeysOf(c) \subseteq Keys
      /\ op[c].do = "set" => op[c].options \in Options /\ TagsOf(c) \subseteq Tags
  BY PendingIs
<1>2. op[c].do = "set" => Deadline(c) \in Nat \cup {None}
  BY <1>1, RedisOptionsAssumption DEF Deadline, TypeOK
<1>3. PICK k0, t0 : k0 = cmd.key /\ t0 = cmd.tag
  OBVIOUS
<1>4. /\ cmd.do # "DEL t" => k0 \in Keys
      /\ cmd.do \in {"SET v", "SADD kt", "PEXPIRE kt"} => op[c].do = "set"
  BY <1>1, <1>3, SendableIs
<1>5. CASE cmd.do = "SET v"
  <2>1. PICK v : v = [by |-> c, tags |-> TagsOf(c), expiresAt |-> Deadline(c)]
    OBVIOUS
  <2>2. v \in [by : Calls, tags : SUBSET Tags, expiresAt : Nat \cup {None}]
    BY <1>1, <1>2, <1>4, <1>5, <2>1
  <2>3. values' = [values EXCEPT ![k0] = v] /\ UNCHANGED << keyTags, members >>
    BY <1>3, <1>5, <2>1 DEF Apply
  <2> QED BY <1>4, <1>5, <2>2, <2>3 DEF TypeOK
<1>6. CASE cmd.do = "DEL v"
  <2>1. values' = [values EXCEPT ![k0] = None] /\ UNCHANGED << keyTags, members >>
    BY <1>3, <1>6 DEF Apply
  <2> QED BY <1>4, <1>6, <2>1 DEF TypeOK
<1>7. CASE cmd.do \in {"DEL kt", "SADD kt", "PEXPIRE kt"}
  <2>1. PICK v : /\ v \in [tags : SUBSET Tags, expiresAt : Nat \cup {None}]
                 /\ keyTags' = [keyTags EXCEPT ![k0] = v] \/ keyTags' = keyTags
    <3>1. CASE cmd.do = "DEL kt"
      <4>1. NoTags \in [tags : SUBSET Tags, expiresAt : Nat \cup {None}]
        BY DEF NoTags
      <4> QED BY <1>3, <3>1, <4>1 DEF Apply
    <3>2. CASE cmd.do = "SADD kt"
      <4>1. PICK r : r = keyTags[k0]
        OBVIOUS
      <4>2. r \in [tags : SUBSET Tags, expiresAt : Nat \cup {None}]
        BY <1>4, <3>2, <4>1 DEF TypeOK
      <4>3. PICK v : v = [r EXCEPT !.tags = r.tags \cup TagsOf(c)]
        OBVIOUS
      <4>4. v \in [tags : SUBSET Tags, expiresAt : Nat \cup {None}]
        <5>1. TagsOf(c) \subseteq Tags
          BY <1>1, <1>4, <3>2
        <5> QED BY <4>2, <4>3, <5>1
      <4>5. keyTags' = [keyTags EXCEPT ![k0] = v]
        BY <1>3, <3>2, <4>1, <4>3 DEF Apply
      <4> QED BY <4>4, <4>5
    <3>3. CASE cmd.do = "PEXPIRE kt"
      <4>1. PICK r : r = keyTags[k0]
        OBVIOUS
      <4>2. r \in [tags : SUBSET Tags, expiresAt : Nat \cup {None}]
        BY <1>4, <3>3, <4>1 DEF TypeOK
      <4>3. PICK v : v = [r EXCEPT !.expiresAt = Deadline(c)]
        OBVIOUS
      <4>4. v \in [tags : SUBSET Tags, expiresAt : Nat \cup {None}]
        <5>1. Deadline(c) \in Nat \cup {None}
          BY <1>2, <1>4, <3>3
        <5> QED BY <4>2, <4>3, <5>1
      <4>5. keyTags' = [keyTags EXCEPT ![k0] = v] \/ keyTags' = keyTags
        BY <1>3, <3>3, <4>1, <4>3 DEF Apply
      <4> QED BY <4>4, <4>5
    <3> QED BY <1>7, <3>1, <3>2, <3>3
  <2>2. UNCHANGED << values, members >>
    BY <1>7 DEF Apply
  <2>3. keyTags' \in [Keys -> [tags : SUBSET Tags, expiresAt : Nat \cup {None}]]
    <3>1. keyTags \in [Keys -> [tags : SUBSET Tags, expiresAt : Nat \cup {None}]]
      BY DEF TypeOK
    <3>2. PICK Entry : Entry = [tags : SUBSET Tags, expiresAt : Nat \cup {None}]
      OBVIOUS
    <3>3. v \in Entry /\ keyTags \in [Keys -> Entry]
      BY <2>1, <3>1, <3>2
    <3>4. keyTags' \in [Keys -> Entry]
      BY <2>1, <3>3
    <3> QED BY <3>2, <3>4
  <2> QED BY <2>2, <2>3 DEF TypeOK
<1>8. CASE cmd.do \in {"SADD t", "SREM t", "DEL t"}
  <2>1. PICK ks : /\ members' = [members EXCEPT ![t0] = ks]
                  /\ t0 \in Tags => ks \subseteq Keys
    <3>1. CASE cmd.do = "SADD t"
      <4>1. members' = [members EXCEPT ![t0] = members[t0] \cup {k0}]
        BY <1>3, <3>1 DEF Apply
      <4>2. t0 \in Tags => members[t0] \cup {k0} \subseteq Keys
        BY <1>4, <3>1 DEF TypeOK
      <4> QED BY <4>1, <4>2
    <3>2. CASE cmd.do = "SREM t"
      <4>1. members' = [members EXCEPT ![t0] = members[t0] \ {k0}]
        BY <1>3, <3>2 DEF Apply
      <4>2. t0 \in Tags => members[t0] \ {k0} \subseteq Keys
        BY DEF TypeOK
      <4> QED BY <4>1, <4>2
    <3>3. CASE cmd.do = "DEL t"
      BY <1>3, <3>3 DEF Apply
    <3> QED BY <1>8, <3>1, <3>2, <3>3
  <2>2. UNCHANGED << values, keyTags >>
    BY <1>8 DEF Apply
  <2> QED BY <2>1, <2>2 DEF TypeOK
<1>9. cmd.do \in {"SET v", "DEL v", "DEL kt", "SADD kt", "PEXPIRE kt", "SADD t", "SREM t", "DEL t"}
  BY SendableIs
<1> QED BY <1>5, <1>6, <1>7, <1>8, <1>9

LEMMA TypeStep ==
  ASSUME TypeOK, Asked, Piped, [Next]_vars
  PROVE  TypeOK'
<1>1. ASSUME NEW c \in Calls, CallOnKey(c) \/ CallOnTag(c)
      PROVE  TypeOK'
  <2>1. PICK o \in Op : Start(c, o) /\ \/ /\ o.do \in {"set", "delete"}
                                          /\ lists' = [lists EXCEPT ![c] = [k \in {o.key} |-> None]]
                                          /\ pc' = [pc EXCEPT ![c] = "listing"]
                                       \/ /\ pc' = [pc EXCEPT ![c] = "members"]
                                          /\ UNCHANGED lists
    BY <1>1 DEF CallOnKey, CallOnTag
  <2>2. Undoes(o) \subseteq Calls
    BY DEF Undoes, TypeOK
  <2>3. Shaped(c)'
    BY <2>1 DEF Shaped, KeysOf, Start, Op, TypeOK
  <2>4. \A d \in Calls : d # c => Shaped(d)'
    BY <1>1, OthersStay, ShapedStays DEF CallStep
  <2> QED BY <2>1, <2>2, <2>3, <2>4 DEF Start, redis, TypeOK, Shaped
<1>2. ASSUME NEW c \in Calls, SomeMembers(c)
      PROVE  TypeOK'
  <2>1. op[c] \in Op /\ op[c].tag \in Tags /\ pipe[c] = << >>
    BY <1>2 DEF SomeMembers, Asked, Busy, Op, TypeOK
  <2>2. Shaped(c)'
    BY <1>2, <2>1 DEF SomeMembers, Shaped, KeysOf, TypeOK
  <2>3. \A d \in Calls : d # c => Shaped(d)'
    BY <1>2, OthersStay, ShapedStays DEF CallStep, Work
  <2> QED BY <1>2, <2>2, <2>3 DEF SomeMembers, redis, history, TypeOK, Shaped
<1>3. ASSUME NEW c \in Calls, ListTags(c)
      PROVE  TypeOK'
  <2>1. PICK k0, known :
          /\ k0 \in KeysOf(c)
          /\ known = [lists[c] EXCEPT ![k0] = keyTags[k0].tags]
          /\ lists' = [lists EXCEPT ![c] = known]
          /\ IF AllListed(known)
             THEN /\ pipe' = [pipe EXCEPT ![c] = Pipeline(c, known)]
                  /\ pc' = [pc EXCEPT ![c] = "piping"]
             ELSE UNCHANGED << pipe, pc >>
    BY <1>3 DEF ListTags
  <2>2. pc[c] = "listing" /\ pipe[c] = << >>
    BY <1>3 DEF ListTags, TypeOK
  <2>3. k0 \in Keys /\ keyTags[k0].tags \subseteq Tags
    BY <2>1 DEF TypeOK
  <2>4. /\ DOMAIN known = KeysOf(c)
        /\ \A k \in KeysOf(c) : known[k] = None \/ known[k] \subseteq Tags
    <3>1. DOMAIN known = KeysOf(c)
      BY <2>1 DEF KeysOf
    <3>2. \A k \in KeysOf(c) : known[k] = IF k = k0 THEN keyTags[k0].tags ELSE lists[c][k]
      BY <2>1 DEF KeysOf
    <3> QED BY <2>3, <3>1, <3>2 DEF TypeOK
  <2>5. lists'[c] = known
    BY <2>1 DEF TypeOK
  <2>6. Shaped(c)'
    BY <2>1, <2>2, <2>4, <2>5 DEF Shaped, KeysOf, TypeOK, AllListed
  <2>7. \A d \in Calls : d # c => Shaped(d)'
    BY <1>3, OthersStay, ShapedStays DEF CallStep, Work
  <2>8. UNCHANGED << now, values, keyTags, members, op, faults, intact, undoes, undone >>
    BY <1>3 DEF ListTags, redis, history
  <2> QED BY <2>1, <2>6, <2>7, <2>8 DEF TypeOK, Shaped
<1>4. ASSUME NEW c \in Calls, NoMembers(c) \/ Succeed(c) \/ Throw(c) \/ ReadFails(c)
      PROVE  TypeOK'
  <2>1. pipe[c] = << >>
    BY <1>4 DEF NoMembers, Succeed, Throw, ReadFails, TypeOK
  <2>2. Shaped(c)'
    BY <1>4, <2>1 DEF NoMembers, Succeed, Throw, ReadFails, Return, End, Shaped, KeysOf, TypeOK
  <2>3. \A d \in Calls : d # c => Shaped(d)'
    BY <1>4, OthersStay, ShapedStays DEF CallStep, Work, Fault
  <2>4. /\ End(c, "returned") \/ End(c, "thrown")
        /\ undone' = undone \/ undone' = undone \cup undoes[c]
        /\ faults' = faults \/ faults' = faults + 1
    BY <1>4 DEF NoMembers, Succeed, Throw, ReadFails, Return
  <2>5. /\ UNCHANGED << now, values, keyTags, members, pipe, intact >>
        /\ pc' = [pc EXCEPT ![c] = "returned"] \/ pc' = [pc EXCEPT ![c] = "thrown"]
        /\ op' = [op EXCEPT ![c] = None]
        /\ lists' = [lists EXCEPT ![c] = << >>]
        /\ undoes' = [undoes EXCEPT ![c] = {}]
    BY <2>4 DEF End, redis
  <2>6. faults' \in Nat /\ undone' \subseteq Calls
    BY <2>4 DEF TypeOK
  <2> QED BY <2>2, <2>3, <2>5, <2>6 DEF TypeOK, Shaped
<1>5. ASSUME NEW c \in Calls, ConnectionLost(c) \/ CommandRefused(c)
      PROVE  TypeOK'
  <2>1. PICK rest : Tear(c, rest)
    BY <1>5 DEF ConnectionLost, CommandRefused
  <2>2. Shaped(c)'
    BY <2>1 DEF Tear, Shaped, KeysOf, TypeOK
  <2>3. \A d \in Calls : d # c => Shaped(d)'
    BY <1>5, OthersStay, ShapedStays DEF CallStep, Fault
  <2> QED BY <2>1, <2>2, <2>3 DEF Tear, redis, TypeOK, Shaped
<1>6. ASSUME NEW c \in Calls, Execute(c)
      PROVE  TypeOK'
  <2>1. PICK cmd : cmd = Head(pipe[c])
    OBVIOUS
  <2>2. pipe[c] # << >> /\ pc[c] \in {"piping", "failing"} /\ Apply(c, cmd)
    BY <1>6, <2>1 DEF Execute, TypeOK
  <2>3. cmd \in Sendable(c)
    BY <2>1, <2>2, PendingIs, TailHolds
  <2>4. /\ values' \in
             [Keys -> [by : Calls, tags : SUBSET Tags, expiresAt : Nat \cup {None}] \cup {None}]
        /\ keyTags' \in [Keys -> [tags : SUBSET Tags, expiresAt : Nat \cup {None}]]
        /\ members' \in [Tags -> SUBSET Keys]
    BY <2>2, <2>3, ApplyTypes
  <2>5. Shaped(c)'
    BY <1>6, <2>2 DEF Execute, Shaped, KeysOf, TypeOK
  <2>6. \A d \in Calls : d # c => Shaped(d)'
    BY <1>6, OthersStay, ShapedStays DEF CallStep, Work
  <2> QED BY <1>6, <2>4, <2>5, <2>6 DEF Execute, history, TypeOK, Shaped
<1>7. CASE Tick
  BY <1>7 DEF Tick, locals, history, TypeOK, NoTags, KeysOf
<1>8. CASE UNCHANGED vars
  BY <1>8 DEF vars, redis, locals, history, TypeOK, KeysOf
<1> QED BY <1>1, <1>2, <1>3, <1>4, <1>5, <1>6, <1>7, <1>8 DEF Next, Work, Fault, AllDone

-----------------------------------------------------------------------------
(* The theorems.                                                           *)

LEMMA Inductive ==
  ASSUME Overlapping \subseteq {"set"}, IInv, [Next]_vars
  PROVE  IInv'
<1>1. TypeOK'
  BY TypeStep DEF IInv
<1>2. CASE \E c \in Calls : CallOnKey(c) \/ CallOnTag(c)
  BY <1>1, <1>2, StartStep
<1>3. CASE \E c \in Calls : Work(c) \/ Fault(c)
  BY <1>1, <1>3, MembersStep, ListStep, ExecuteStep, EndStep, TearStep DEF Work, Fault
<1>4. CASE Tick \/ AllDone \/ UNCHANGED vars
  BY <1>1, <1>4, QuietStep
<1> QED BY <1>2, <1>3, <1>4 DEF Next

\* Callers that let nothing but writes overlap keep the invariant that the two
\* promises of the backend follow from.
LEMMA Invariant ==
  ASSUME Overlapping \subseteq {"set"}
  PROVE  Spec => []IInv
<1>1. IInv /\ [Next]_vars => IInv'
  BY Inductive
<1> QED BY <1>1, InitEstablishes, PTL DEF Spec

\* The state of Redis and of every call has the shape the code gives it, and a
\* pipeline is only sent with the answer for every key it is about.
THEOREM TypeCorrect ==
  ASSUME Overlapping \subseteq {"set"}
  PROVE  Spec => []TypeOK
<1>1. IInv => TypeOK
  BY DEF IInv
<1> QED BY <1>1, Invariant, PTL

\* Once a set, a delete or an invalidateTag has succeeded, no read finds a value
\* it was to replace, remove or invalidate and that had been stored before it
\* began: for any number of calls, keys and tags, whatever writes overlap,
\* expire or fail, where no pipeline over the same key was torn meanwhile.
THEOREM NothingStaleServed ==
  ASSUME Overlapping \subseteq {"set"}
  PROVE  Spec => []NothingStale
<1>1. IInv => NothingStale
  BY DEF IInv
<1> QED BY <1>1, Invariant, PTL

\* The index invalidateTag goes by misses no stored value of a key that nobody
\* is writing: what a write adds to it no overlapping write takes away, unless
\* it also replaces the value.
THEOREM IndexStaysComplete ==
  ASSUME Overlapping \subseteq {"set"}
  PROVE  Spec => []IndexComplete
<1>1. ASSUME IInv PROVE IndexComplete
  <2> SUFFICES ASSUME NEW k \in Keys, Intact(k), \A c \in Busy : k \notin KeysOf(c),
                      NEW t \in values[k].tags
               PROVE  k \in members[t]
    BY DEF IndexComplete
  <2> USE <1>1 DEF IInv
  <2>1. \A c \in Calls : ~ Ends(c, k)
    BY EndsIsAboutIt
  <2>2. ASSUME Pending(values[k].by, TagCommand("SADD t", k, t)) PROVE FALSE
    <3>1. PICK d \in Calls : d = values[k].by
      BY DEF Intact, TypeOK
    <3>2. pipe[d] # << >> /\ TagCommand("SADD t", k, t) \in Sendable(d) /\ d \in Busy
      BY <2>2, <3>1, PendingOnlyIfSent, PendingIs
    <3>3. /\ TagCommand("SADD t", k, t).do = "SADD t"
          /\ TagCommand("SADD t", k, t).key = k
      BY DEF TagCommand
    <3>4. TagCommand("SADD t", k, t).key \in KeysOf(d)
      BY <3>2, <3>3, SendableIs
    <3> QED BY <3>2, <3>3, <3>4
  <2> QED BY <2>1, <2>2 DEF Listed
<1> QED BY <1>1, Invariant, PTL
=============================================================================
