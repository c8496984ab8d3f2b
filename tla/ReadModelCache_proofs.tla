------------------------- MODULE ReadModelCache_proofs -------------------------
(***************************************************************************)
(* Proofs about ReadModelCache, for every set of keys and of readers, and  *)
(* for every value of the TTL and of the bounds.                           *)
(*                                                                         *)
(* An answer is either produced, or was once produced by a reader that     *)
(* stored it.  So what the properties say of answers is said first of the  *)
(* payloads on their way: those of storing readers, and of the entries.    *)
(***************************************************************************)
EXTENDS ReadModelCache, FiniteSetTheorems, TLAPS

\* A request has a key, came before now, and goes by what is cleared; only one
\* that does not bypass the cache looks a key up and stores.
Working ==
  \A r \in Readers : reader[r].stage # "idle" =>
    /\ reader[r].key \in Keys
    /\ reader[r].began <= clock
    /\ reader[r].floor <= cleared
    /\ reader[r].bypass => reader[r].stage \in {"produce", "done"}

\* Nothing is cleared before it is committed.
Committed == cleared <= version /\ \A v \in uncleared : v <= version

\* An entry is not from the future.
Dated == \A k \in DOMAIN cache : cache[k].created <= clock

CacheTypes == CacheTypeOK /\ Working /\ Committed /\ Dated

\* The cache is finite, and bounded.
Size == IsFiniteSet(DOMAIN cache) /\ BoundedSize

\* A payload was the latest version at the time it carries.
LatestAt(v, t) == v = version \/ superseded[v] >= t

\* Entries and payloads about to be stored were the latest when their reader began.
FreshOnTheWay ==
  /\ \A k \in DOMAIN cache : LatestAt(cache[k].payload, cache[k].created)
  /\ \A r \in Readers : reader[r].stage = "store" => LatestAt(reader[r].payload, reader[r].began)

Fresh == FreshOnTheWay /\ FreshWithinTtl

\* A payload is no older than what is cleared, or was overtaken by that clear.
Current(payload, missed) == payload >= cleared \/ missed >= cleared

\* So it is with every entry, and with every payload about to be stored.
SeenOnTheWay ==
  /\ \A k \in DOMAIN cache : Current(cache[k].payload, cache[k].missed)
  /\ \A r \in Readers : reader[r].stage = "store" => Current(reader[r].payload, reader[r].missed)

Seen == SeenOnTheWay /\ ClearIsSeen

IInv == CacheTypes /\ Size /\ Fresh /\ Seen

-----------------------------------------------------------------------------
(* Types.                                                                  *)

\* A clear notes itself on the readers it overtakes, and changes nothing else.
LEMMA ClearNotes ==
  ASSUME CacheTypeOK, NEW v \in Versions, Clear(v), NEW r \in Readers
  PROVE  /\ reader'[r] \in Reads
         /\ reader'[r].stage = reader[r].stage /\ reader'[r].key = reader[r].key
         /\ reader'[r].bypass = reader[r].bypass /\ reader'[r].began = reader[r].began
         /\ reader'[r].payload = reader[r].payload /\ reader'[r].floor = reader[r].floor
         /\ reader'[r].missed >= reader[r].missed
         /\ Overtaken(r, v) => reader'[r].missed >= v
<1>1. v \in Nat /\ reader[r] \in Reads /\ reader[r].missed \in Nat
  BY CacheAssumption DEF CacheTypeOK, Reads, Versions
<1>2. CASE Overtaken(r, v) /\ v > reader[r].missed
  <2>1. reader'[r] = [reader[r] EXCEPT !.missed = v]
    BY <1>2 DEF Clear, Noted
  <2> QED
    BY <1>1, <1>2, <2>1 DEF Reads
<1>3. CASE ~(Overtaken(r, v) /\ v > reader[r].missed)
  <2>1. reader'[r] = reader[r]
    BY <1>3 DEF Clear, Noted
  <2> QED
    BY <1>1, <1>3, <2>1
<1> QED
  BY <1>2, <1>3

\* The clock and the writers keep the types.
LEMMA WriterTypes ==
  ASSUME CacheTypes, Tick \/ Commit \/ \E v \in uncleared : Clear(v)
  PROVE  CacheTypes'
<1>1. CASE Tick
  BY <1>1, CacheAssumption
  DEF CacheTypes, CacheTypeOK, Working, Committed, Dated, Tick, Times, Versions, Entries, Reads
<1>2. CASE Commit
  <2>1. /\ version \in Nat /\ version' = version + 1 /\ version' \in Versions
        /\ uncleared' = uncleared \cup {version'} /\ uncleared \subseteq Versions
        /\ UNCHANGED <<clock, cleared, cache, reader>>
    BY <1>2, CacheAssumption DEF CacheTypes, CacheTypeOK, Commit, Versions
  <2>2. superseded' \in [Versions -> Times]
    BY <1>2 DEF CacheTypes, CacheTypeOK, Commit
  <2>3. CacheTypeOK'
    BY <2>1, <2>2 DEF CacheTypes, CacheTypeOK
  <2>4. Working' /\ Dated'
    BY <2>1 DEF CacheTypes, Working, Dated
  <2>5. Committed'
    BY <2>1 DEF CacheTypes, CacheTypeOK, Committed, Versions
  <2> QED
    BY <2>3, <2>4, <2>5 DEF CacheTypes
<1>3. ASSUME NEW v \in uncleared, Clear(v)
      PROVE  CacheTypes'
  <2>1. /\ v \in Versions /\ cleared \in Versions
        /\ cleared' \in {v, cleared} /\ cleared' >= cleared
    BY <1>3, CacheAssumption DEF CacheTypes, CacheTypeOK, Clear, Versions
  <2>2. CacheTypeOK'
    <3>1. reader' \in [Readers -> Reads]
      BY <1>3, <2>1, ClearNotes DEF CacheTypes, Clear, Noted
    <3> QED
      BY <1>3, <2>1, <3>1 DEF CacheTypes, CacheTypeOK, Clear, ClearedEntries, Empty
  <2>3. Working'
    <3> SUFFICES ASSUME NEW r \in Readers, reader'[r].stage # "idle"
                 PROVE  /\ reader'[r].key \in Keys /\ reader'[r].began <= clock'
                        /\ reader'[r].floor <= cleared'
                        /\ reader'[r].bypass => reader'[r].stage \in {"produce", "done"}
      BY DEF Working
    <3>1. /\ reader[r].key \in Keys /\ reader[r].began <= clock /\ reader[r].floor <= cleared
          /\ reader[r].bypass => reader[r].stage \in {"produce", "done"}
          /\ reader[r].floor \in Nat
      BY <1>3, <2>1, ClearNotes, CacheAssumption DEF CacheTypes, CacheTypeOK, Working, Reads, Versions
    <3> QED
      BY <1>3, <2>1, <3>1, ClearNotes, CacheAssumption DEF CacheTypes, Clear, Versions
  <2>4. Committed' /\ Dated'
    BY <1>3, <2>1 DEF CacheTypes, Committed, Clear, Dated, ClearedEntries, Empty
  <2> QED
    BY <2>2, <2>3, <2>4 DEF CacheTypes
<1> QED
  BY <1>1, <1>2, <1>3

\* Every entry after a store is the new one, which carries the reader's payload,
\* the time it began and the clear it missed, or one that was there.
LEMMA Stored ==
  ASSUME CacheTypeOK, NEW r \in Readers, Store(r), reader[r].key \in Keys, NEW k \in DOMAIN cache'
  PROVE  /\ k \in Keys /\ cache'[k] \in Entries
         /\ \/ /\ cache'[k].payload = reader[r].payload /\ cache'[k].created = reader[r].began
               /\ cache'[k].missed = reader[r].missed
            \/ k \in DOMAIN cache /\ cache'[k] = cache[k]
<1> DEFINE entry == [payload |-> reader[r].payload, created |-> reader[r].began,
                     missed |-> reader[r].missed]
<1>1. PICK kept \in Pruned(reader[r].began) : cache' = Inserted(kept, reader[r].key, entry)
  BY DEF Store, Stamp
<1>2. kept \subseteq DOMAIN cache
  BY <1>1 DEF Pruned
<1>3. /\ entry \in Entries /\ entry.payload = reader[r].payload
      /\ entry.created = reader[r].began /\ entry.missed = reader[r].missed
  BY DEF CacheTypeOK, Reads, Entries
<1> HIDE DEF entry
<1>4. CASE k = reader[r].key
  <2>1. cache'[k] = entry
    BY <1>1, <1>4 DEF Inserted
  <2> QED
    BY <1>3, <1>4, <2>1
<1>5. CASE k # reader[r].key
  <2>1. k \in DOMAIN cache /\ cache'[k] = cache[k]
    BY <1>1, <1>2, <1>5 DEF Inserted
  <2> QED
    BY <2>1 DEF CacheTypeOK
<1> QED
  BY <1>4, <1>5

\* An answer changes the stage, the payload and what it missed, of one reader.
LEMMA Answers ==
  ASSUME CacheTypeOK, NEW r \in Readers, NEW payload \in Versions, NEW missed \in Versions,
         Answer(r, payload, missed)
  PROVE  /\ reader' \in [Readers -> Reads]
         /\ \A q \in Readers \ {r} : reader'[q] = reader[q]
         /\ reader'[r].stage = "done" /\ reader'[r].payload = payload /\ reader'[r].missed = missed
         /\ reader'[r].key = reader[r].key /\ reader'[r].bypass = reader[r].bypass
         /\ reader'[r].began = reader[r].began /\ reader'[r].floor = reader[r].floor
<1> DEFINE q == [reader[r] EXCEPT !.stage = "done", !.payload = payload, !.missed = missed]
<1>1. reader[r] \in Reads
  BY DEF CacheTypeOK
<1>2. /\ q \in Reads
      /\ q.stage = "done" /\ q.payload = payload /\ q.missed = missed
      /\ q.key = reader[r].key /\ q.bypass = reader[r].bypass
      /\ q.began = reader[r].began /\ q.floor = reader[r].floor
  BY <1>1 DEF Reads, ReaderStages
<1>3. reader' = [reader EXCEPT ![r] = q]
  BY DEF Answer
<1> HIDE DEF q
<1> QED
  BY <1>2, <1>3 DEF CacheTypeOK

\* A reader keeps the types.
LEMMA ReaderTypes ==
  ASSUME CacheTypes, NEW r \in Readers,
         \/ \E k \in Keys, bypass \in BOOLEAN : BeginRead(r, k, bypass)
         \/ Hit(r) \/ Miss(r) \/ Produce(r) \/ Store(r) \/ Leave(r)
  PROVE  CacheTypes'
<1> USE DEF CacheTypes, CacheTypeOK, Working, Committed, Dated
<1>1. ASSUME NEW k \in Keys, NEW bypass \in BOOLEAN, BeginRead(r, k, bypass)
      PROVE  CacheTypes'
  <2> DEFINE request == [NoRead EXCEPT !.key = k, !.began = clock, !.floor = cleared]
  <2>1. /\ request \in Reads
        /\ request.key = k /\ request.began = clock /\ request.floor = cleared /\ ~request.bypass
    <3>1. NoRead \in Reads /\ ~NoRead.bypass
      BY CacheAssumption DEF NoRead, Reads, ReaderStages, Times, Versions
    <3> QED
      BY <3>1 DEF Reads
  <2>2. PICK q \in Reads :
          /\ reader' = [reader EXCEPT ![r] = q]
          /\ q.key = k /\ q.began = clock /\ q.floor = cleared
          /\ q.bypass => q.stage = "produce"
    <3>1. CASE bypass \/ Ttl = 0
      <4> DEFINE p == [request EXCEPT !.stage = "produce", !.bypass = TRUE]
      <4>1. reader' = [reader EXCEPT ![r] = p]
        BY <1>1, <3>1 DEF BeginRead
      <4> HIDE DEF request
      <4>2. /\ p \in Reads /\ p.stage = "produce"
            /\ p.key = k /\ p.began = clock /\ p.floor = cleared
        BY <2>1 DEF Reads, ReaderStages
      <4> QED
        BY <4>1, <4>2
    <3>2. CASE ~(bypass \/ Ttl = 0)
      <4> DEFINE p == [request EXCEPT !.stage = "lookup"]
      <4>1. reader' = [reader EXCEPT ![r] = p]
        BY <1>1, <3>2 DEF BeginRead
      <4> HIDE DEF request
      <4>2. /\ p \in Reads /\ ~p.bypass
            /\ p.key = k /\ p.began = clock /\ p.floor = cleared
        BY <2>1 DEF Reads, ReaderStages
      <4> QED
        BY <4>1, <4>2
    <3> QED
      BY <3>1, <3>2
  <2>3. cleared <= cleared /\ clock <= clock
    BY CacheAssumption DEF Times, Versions
  <2> QED
    BY <1>1, <2>2, <2>3 DEF BeginRead
<1>2. CASE Hit(r)
  <2> DEFINE e == cache[reader[r].key]
  <2>1. e.payload \in Versions /\ e.missed \in Versions
    BY <1>2 DEF Hit, Live, Entries
  <2>2. Answer(r, e.payload, e.missed) /\ UNCHANGED <<clock, version, uncleared, cleared, superseded, cache>>
    BY <1>2 DEF Hit
  <2> HIDE DEF e
  <2>3. Working'
    BY <1>2, <2>1, <2>2, Answers DEF Hit
  <2> QED
    BY <2>1, <2>2, <2>3, Answers
<1>3. CASE Miss(r)
  BY <1>3 DEF Miss, Reads, ReaderStages
<1>4. CASE Produce(r)
  <2>1. 0 \in Versions
    BY CacheAssumption DEF Versions
  <2>2. CASE reader[r].bypass
    <3>1. Answer(r, version, 0) /\ UNCHANGED <<clock, version, uncleared, cleared, superseded, cache>>
      BY <1>4, <2>2 DEF Produce
    <3>2. Working'
      BY <1>4, <2>1, <3>1, Answers DEF Produce
    <3> QED
      BY <2>1, <3>1, <3>2, Answers
  <2>3. CASE ~reader[r].bypass
    BY <1>4, <2>3 DEF Produce, Reads, ReaderStages
  <2> QED
    BY <2>2, <2>3
<1>5. CASE Store(r)
  <2>1. /\ reader[r].key \in Keys /\ reader[r].began \in Times /\ reader[r].began <= clock
        /\ reader[r].payload \in Versions /\ reader[r].missed \in Versions
        /\ reader[r].stage = "store"
    BY <1>5 DEF Store, Reads
  <2>2. DOMAIN cache' \subseteq Keys
    BY <1>5, <2>1, Stored
  <2>3. ASSUME NEW k \in DOMAIN cache'
        PROVE  cache'[k] \in Entries /\ cache'[k].created <= clock
    BY <1>5, <2>1, Stored
  <2>4. /\ Answer(r, reader[r].payload, reader[r].missed)
        /\ UNCHANGED <<clock, version, uncleared, cleared, superseded>>
    BY <1>5 DEF Store
  <2>5. CacheTypeOK'
    BY <2>1, <2>2, <2>3, <2>4, Answers
  <2>6. Working'
    BY <2>1, <2>4, Answers
  <2> QED
    BY <2>3, <2>4, <2>5, <2>6
<1>6. CASE Leave(r)
  BY <1>6, CacheAssumption DEF Leave, NoRead, Reads, ReaderStages, Times, Versions
<1> QED
  BY <1>1, <1>2, <1>3, <1>4, <1>5, <1>6

\* A step keeps the types.
LEMMA TypeStep == CacheTypes /\ [CacheNext]_cacheVars => CacheTypes'
<1> SUFFICES ASSUME CacheTypes, [CacheNext]_cacheVars
             PROVE  CacheTypes'
  OBVIOUS
<1>1. CASE UNCHANGED cacheVars
  BY <1>1 DEF cacheVars, CacheTypes, CacheTypeOK, Working, Committed, Dated
<1>2. CASE CacheNext
  BY <1>2, WriterTypes, ReaderTypes DEF CacheNext
<1> QED
  BY <1>1, <1>2

-----------------------------------------------------------------------------
(* Size.                                                                   *)

\* Pruning leaves a finite part of the cache of at most MaxItems.
LEMMA PrunedSize ==
  ASSUME IsFiniteSet(DOMAIN cache), NEW now, NEW kept \in Pruned(now)
  PROVE  IsFiniteSet(kept) /\ Cardinality(kept) \in Nat /\ Cardinality(kept) <= MaxItems
<1>1. kept \in SUBSET DOMAIN cache /\ Cardinality(kept) <= MaxItems
  BY DEF Pruned
<1>2. IsFiniteSet(kept)
  BY <1>1, FS_Subset
<1> QED
  BY <1>1, <1>2, FS_CardinalityType

\* A step keeps the cache within its bound.
LEMMA SizeStep ==
  ASSUME CacheTypes, Size, [CacheNext]_cacheVars
  PROVE  Size'
<1>1. CASE cache' = cache
  BY <1>1 DEF Size, BoundedSize
<1>2. CASE cache' = Empty
  BY <1>2, FS_EmptySet, CacheAssumption DEF Size, BoundedSize, Empty
<1>3. ASSUME NEW r \in Readers, Store(r)
      PROVE  Size'
  <2>1. PICK kept \in Pruned(reader[r].began) :
          cache' = Inserted(kept, reader[r].key,
                            [payload |-> reader[r].payload, created |-> Stamp(r), missed |-> reader[r].missed])
    BY <1>3 DEF Store
  <2>2. DOMAIN cache' = kept \cup {reader[r].key}
    BY <2>1 DEF Inserted
  <2>3. IsFiniteSet(kept) /\ Cardinality(kept) \in Nat /\ Cardinality(kept) <= MaxItems
    BY <2>1, PrunedSize DEF Size
  <2>4. /\ IsFiniteSet(kept \cup {reader[r].key})
        /\ Cardinality(kept \cup {reader[r].key}) <= Cardinality(kept) + 1
    <3>1. /\ IsFiniteSet(kept \cup {reader[r].key})
          /\ Cardinality(kept \cup {reader[r].key})
               = IF reader[r].key \in kept THEN Cardinality(kept) ELSE Cardinality(kept) + 1
      BY <2>3, FS_AddElement, Zenon
    <3> QED
      BY <2>3, <3>1
  <2>5. IsFiniteSet(DOMAIN cache') /\ Cardinality(DOMAIN cache') \in Nat
    BY <2>2, <2>4, FS_CardinalityType
  <2> QED
    BY <2>2, <2>3, <2>4, <2>5, CacheAssumption DEF Size, BoundedSize
<1> QED
  BY <1>1, <1>2, <1>3
  DEF CacheNext, cacheVars, Tick, Commit, Clear, ClearedEntries, BeginRead, Hit, Miss, Produce, Leave

-----------------------------------------------------------------------------
(* Freshness.                                                              *)

\* The clock and the writers keep answers fresh: what a commit supersedes was
\* the latest until now.
LEMMA WriterFresh ==
  ASSUME CacheTypes, Fresh, Tick \/ Commit \/ \E v \in uncleared : Clear(v)
  PROVE  Fresh'
<1> USE DEF Fresh, FreshOnTheWay, FreshWithinTtl, LatestAt
<1>1. CASE Tick
  BY <1>1 DEF Tick
<1>2. CASE Commit
  <2>1. version \in Versions /\ clock \in Times /\ superseded \in [Versions -> Times]
    BY DEF CacheTypes, CacheTypeOK
  <2>2. /\ superseded'[version] = clock
        /\ \A v \in Versions \ {version} : superseded'[v] = superseded[v]
    BY <1>2, <2>1 DEF Commit
  <2>3. ASSUME NEW v \in Versions, NEW t \in Times, t <= clock, LatestAt(v, t)
        PROVE  superseded'[v] >= t
    BY <2>1, <2>2, <2>3, CacheAssumption DEF Times
  <2>4. \A k \in DOMAIN cache : LatestAt(cache[k].payload, cache[k].created)'
    BY <1>2, <2>3 DEF Commit, CacheTypes, CacheTypeOK, Dated, Entries
  <2>5. ASSUME NEW r \in Readers, reader[r].stage = "store"
        PROVE  LatestAt(reader[r].payload, reader[r].began)'
    BY <1>2, <2>3, <2>5 DEF Commit, CacheTypes, CacheTypeOK, Working, Reads
  <2>6. ASSUME NEW r \in Readers, reader[r].stage = "done"
        PROVE  \/ superseded'[reader[r].payload] >= reader[r].began
               \/ superseded'[reader[r].payload] + Ttl > reader[r].began
    BY <2>1, <2>2, <2>6, CacheAssumption DEF CacheTypes, CacheTypeOK, Working, Reads, Times
  <2> QED
    BY <1>2, <2>4, <2>5, <2>6 DEF Commit
<1>3. ASSUME NEW v \in uncleared, Clear(v)
      PROVE  Fresh'
  <2>1. v \in Versions
    BY <1>3 DEF CacheTypes, CacheTypeOK
  <2> QED
    BY <1>3, <2>1, ClearNotes DEF CacheTypes, Clear, ClearedEntries, Empty
<1> QED
  BY <1>1, <1>2, <1>3

\* A reader keeps answers fresh: a hit is less than a TTL older than the request.
LEMMA ReaderFresh ==
  ASSUME CacheTypes, Fresh, NEW r \in Readers,
         \/ \E k \in Keys, bypass \in BOOLEAN : BeginRead(r, k, bypass)
         \/ Hit(r) \/ Miss(r) \/ Produce(r) \/ Store(r) \/ Leave(r)
  PROVE  Fresh'
<1> USE DEF CacheTypes, CacheTypeOK, Fresh, FreshOnTheWay, FreshWithinTtl, LatestAt
<1>1. ASSUME NEW k \in Keys, NEW bypass \in BOOLEAN, BeginRead(r, k, bypass)
      PROVE  Fresh'
  BY <1>1 DEF BeginRead, NoRead
<1>2. CASE Hit(r)
  <2> DEFINE q == reader[r]
             e == cache[q.key]
  <2>1. /\ q.key \in DOMAIN cache /\ e \in Entries /\ q.began \in Times
        /\ e.created + Ttl > q.began
    BY <1>2 DEF Hit, Live, Reads
  <2>2. /\ e.payload \in Versions /\ e.created \in Times /\ superseded[e.payload] \in Times
        /\ e.payload = version \/ superseded[e.payload] >= e.created
    BY <2>1 DEF Entries
  <2>3. e.payload = version \/ superseded[e.payload] + Ttl > q.began
    BY <2>1, <2>2, CacheAssumption DEF Times
  <2>4. e.missed \in Versions /\ Answer(r, e.payload, e.missed)
    BY <1>2, <2>1 DEF Hit, Entries
  <2>5. /\ reader'[r].payload = e.payload /\ reader'[r].began = q.began /\ reader'[r].stage = "done"
        /\ \A p \in Readers \ {r} : reader'[p] = reader[p]
    BY <2>2, <2>4, Answers
  <2> HIDE DEF e, q
  <2> QED
    BY <1>2, <2>3, <2>5 DEF Hit
<1>3. CASE Miss(r)
  BY <1>3 DEF Miss
<1>4. CASE Produce(r)
  <2>1. CASE reader[r].bypass
    BY <1>4, <2>1 DEF Produce, Answer, Reads
  <2>2. CASE ~reader[r].bypass
    BY <1>4, <2>2 DEF Produce, Reads
  <2> QED
    BY <2>1, <2>2
<1>5. CASE Store(r)
  <2>1. /\ reader[r].key \in Keys /\ reader[r].stage = "store"
        /\ LatestAt(reader[r].payload, reader[r].began)
    BY <1>5 DEF Store, Working
  <2>2. ASSUME NEW k \in DOMAIN cache'
        PROVE  LatestAt(cache'[k].payload, cache'[k].created)
    BY <1>5, <2>1, Stored
  <2> QED
    BY <1>5, <2>1, <2>2 DEF Store, Answer
<1>6. CASE Leave(r)
  BY <1>6 DEF Leave, NoRead
<1> QED
  BY <1>1, <1>2, <1>3, <1>4, <1>5, <1>6

\* A step keeps answers fresh.
LEMMA FreshStep ==
  ASSUME CacheTypes, Fresh, [CacheNext]_cacheVars
  PROVE  Fresh'
<1>1. CASE UNCHANGED cacheVars
  BY <1>1 DEF cacheVars, Fresh, FreshOnTheWay, FreshWithinTtl, LatestAt
<1>2. CASE CacheNext
  BY <1>2, WriterFresh, ReaderFresh DEF CacheNext
<1> QED
  BY <1>1, <1>2

-----------------------------------------------------------------------------
(* Visibility of what is cleared.                                          *)

\* The clock and the writers: a clear that overtakes a store is noted on it.
LEMMA WriterSeen ==
  ASSUME CacheTypes, Seen, Tick \/ Commit \/ \E v \in uncleared : Clear(v)
  PROVE  Seen'
<1> USE DEF Seen, SeenOnTheWay, Current, ClearIsSeen
<1>1. CASE Tick \/ Commit
  BY <1>1 DEF Tick, Commit
<1>2. ASSUME NEW v \in uncleared, Clear(v)
      PROVE  Seen'
  <2>1. v \in Versions /\ v \in Nat /\ cleared \in Nat /\ cleared' \in {v, cleared}
    BY <1>2, CacheAssumption DEF CacheTypes, CacheTypeOK, Clear, Versions
  <2>2. ASSUME NEW r \in Readers
        PROVE  /\ reader'[r].stage = reader[r].stage /\ reader'[r].bypass = reader[r].bypass
               /\ reader'[r].payload = reader[r].payload /\ reader'[r].floor = reader[r].floor
               /\ reader'[r].missed >= reader[r].missed
               /\ Overtaken(r, v) => reader'[r].missed >= v
               /\ reader[r].missed \in Nat /\ reader'[r].missed \in Nat
               /\ reader[r].payload \in Nat /\ reader[r].floor \in Nat
    BY <1>2, <2>1, ClearNotes, CacheAssumption DEF CacheTypes, CacheTypeOK, Versions, Reads
  <2>3. ASSUME NEW r \in Readers, reader'[r].stage = "store"
        PROVE  reader'[r].payload >= cleared' \/ reader'[r].missed >= cleared'
    <3>1. CASE reader[r].payload < v
      BY <2>1, <2>2, <2>3, <3>1 DEF Overtaken
    <3>2. CASE ~(reader[r].payload < v)
      BY <2>1, <2>2, <2>3, <3>2
    <3> QED
      BY <3>1, <3>2
  <2>4. SeenOnTheWay'
    BY <1>2, <2>3 DEF Clear, ClearedEntries, Empty
  <2>5. ClearIsSeen'
    BY <2>2
  <2> QED
    BY <2>4, <2>5
<1> QED
  BY <1>1, <1>2

\* A reader: what it produces is no older than what was cleared when its request
\* came, and what it finds was overtaken by that clear or is no older either.
LEMMA ReaderSeen ==
  ASSUME CacheTypes, Seen, NEW r \in Readers,
         \/ \E k \in Keys, bypass \in BOOLEAN : BeginRead(r, k, bypass)
         \/ Hit(r) \/ Miss(r) \/ Produce(r) \/ Store(r) \/ Leave(r)
  PROVE  Seen'
<1> USE DEF CacheTypes, CacheTypeOK, Working, Seen, SeenOnTheWay, Current, ClearIsSeen
<1>0. /\ version \in Nat /\ cleared \in Nat /\ cleared <= version
      /\ reader[r].floor \in Nat /\ reader[r].payload \in Nat /\ reader[r].missed \in Nat
  BY CacheAssumption DEF Committed, Versions, Reads
<1>1. ASSUME NEW k \in Keys, NEW bypass \in BOOLEAN, BeginRead(r, k, bypass)
      PROVE  Seen'
  BY <1>1 DEF BeginRead, NoRead
<1>2. CASE Hit(r)
  <2> DEFINE e == cache[reader[r].key]
  <2>1. /\ reader[r].key \in DOMAIN cache /\ e.payload \in Nat /\ e.missed \in Nat
        /\ reader[r].floor <= cleared /\ ~reader[r].bypass
    BY <1>2, CacheAssumption DEF Hit, Live, Entries, Versions
  <2>2. e.payload >= reader[r].floor \/ e.missed >= reader[r].floor
    BY <1>0, <2>1
  <2>3. reader' = [reader EXCEPT ![r].stage = "done", ![r].payload = e.payload, ![r].missed = e.missed]
    BY <1>2 DEF Hit, Answer
  <2> HIDE DEF e
  <2> QED
    BY <1>0, <1>2, <2>1, <2>2, <2>3 DEF Hit
<1>3. CASE Miss(r)
  BY <1>3 DEF Miss
<1>4. CASE Produce(r)
  <2>1. reader[r].floor <= version
    BY <1>0, <1>4 DEF Produce
  <2>2. CASE reader[r].bypass
    BY <1>0, <1>4, <2>1, <2>2 DEF Produce, Answer, Reads
  <2>3. CASE ~reader[r].bypass
    BY <1>0, <1>4, <2>3 DEF Produce, Reads
  <2> QED
    BY <2>2, <2>3
<1>5. CASE Store(r)
  <2>1. /\ reader[r].key \in Keys /\ reader[r].stage = "store"
        /\ reader[r].floor <= cleared /\ ~reader[r].bypass
        /\ Current(reader[r].payload, reader[r].missed)
    BY <1>5 DEF Store, Reads
  <2>2. ASSUME NEW k \in DOMAIN cache'
        PROVE  Current(cache'[k].payload, cache'[k].missed)
    BY <1>5, <2>1, Stored
  <2>3. reader' = [reader EXCEPT ![r].stage = "done", ![r].payload = reader[r].payload,
                                 ![r].missed = reader[r].missed]
    BY <1>5 DEF Store, Answer
  <2> QED
    BY <1>0, <1>5, <2>1, <2>2, <2>3 DEF Store
<1>6. CASE Leave(r)
  BY <1>6 DEF Leave, NoRead
<1> QED
  BY <1>1, <1>2, <1>3, <1>4, <1>5, <1>6

\* A step keeps cleared writes visible.
LEMMA SeenStep ==
  ASSUME CacheTypes, Seen, [CacheNext]_cacheVars
  PROVE  Seen'
<1>1. CASE UNCHANGED cacheVars
  BY <1>1 DEF cacheVars, Seen, SeenOnTheWay, Current, ClearIsSeen
<1>2. CASE CacheNext
  BY <1>2, WriterSeen, ReaderSeen DEF CacheNext
<1> QED
  BY <1>1, <1>2

-----------------------------------------------------------------------------
(* The theorems.                                                           *)

\* The empty cache satisfies the invariant.
LEMMA InitIInv == CacheInit => IInv
<1> SUFFICES ASSUME CacheInit
             PROVE  IInv
  OBVIOUS
<1>1. 0 \in Times /\ MaxTime \in Times /\ 0 \in Versions
  BY CacheAssumption DEF Times, Versions
<1>2. NoRead \in Reads
  BY <1>1 DEF NoRead, Reads, ReaderStages
<1>3. CacheTypes
  <2>1. CacheTypeOK
    BY <1>1, <1>2 DEF CacheInit, CacheTypeOK, Empty
  <2>2. Working /\ Committed /\ Dated
    BY DEF CacheInit, Working, Committed, Dated, NoRead, Empty
  <2> QED
    BY <2>1, <2>2 DEF CacheTypes
<1>4. Size
  BY FS_EmptySet, CacheAssumption DEF CacheInit, Size, BoundedSize, Empty
<1>5. Fresh /\ Seen
  BY DEF CacheInit, Fresh, FreshOnTheWay, FreshWithinTtl, Seen, SeenOnTheWay, ClearIsSeen, NoRead, Empty
<1> QED
  BY <1>3, <1>4, <1>5 DEF IInv

\* The inductive invariant of the cache: types and times, the size, and what may
\* be said of the payloads on their way to an answer.
THEOREM CacheInvariant == CacheSpec => []IInv
<1>1. IInv /\ [CacheNext]_cacheVars => IInv'
  BY TypeStep, SizeStep, FreshStep, SeenStep DEF IInv
<1> QED
  BY <1>1, InitIInv, PTL DEF CacheSpec

\* Times, versions and entries are in their domains.
THEOREM TypeCorrectness == CacheSpec => []CacheTypeOK
<1>1. IInv => CacheTypeOK
  BY DEF IInv, CacheTypes
<1> QED
  BY <1>1, CacheInvariant, PTL

\* Pruning under the lock before each insertion keeps the cache within one entry
\* of max_items, for any number of readers that store late and out of order.
THEOREM CacheBounded == CacheSpec => []BoundedSize
<1>1. IInv => BoundedSize
  BY DEF IInv, Size
<1> QED
  BY <1>1, CacheInvariant, PTL

\* An answer is what the ledger held less than one TTL before its request came,
\* or later, because an entry carries the time its reader began.
THEOREM CacheFreshness == CacheSpec => []FreshWithinTtl
<1>1. IInv => FreshWithinTtl
  BY DEF IInv, Fresh
<1> QED
  BY <1>1, CacheInvariant, PTL

\* A request that comes after a clear sees the write, unless the payload it is
\* answered with was itself produced before that write and stored after its clear.
THEOREM CacheVisibility == CacheSpec => []ClearIsSeen
<1>1. IInv => ClearIsSeen
  BY DEF IInv, Seen
<1> QED
  BY <1>1, CacheInvariant, PTL
=============================================================================
