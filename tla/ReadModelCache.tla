---------------------------- MODULE ReadModelCache ----------------------------
(***************************************************************************)
(* The read-model cache of src/agentops_mis_core/read_model_cache.py as    *)
(* the request threads of src/server.py use it.  A reader looks its key up *)
(* under the lock, produces the payload outside the lock, and stores it    *)
(* under the lock with the time it read before the look-up.  A writer      *)
(* commits to the ledger and then, as a step of its own, clears the cache. *)
(*                                                                         *)
(* A payload is the version of the ledger it was produced from.  Key       *)
(* construction (query, workspace, principal) is abstracted to Keys.       *)
(***************************************************************************)
EXTENDS Naturals, FiniteSets

CONSTANTS
  Keys,       \* cache keys
  NoKey,      \* what an idle reader reads
  Readers,    \* request threads that read
  Ttl,        \* ttl_sec; with 0 every read bypasses the cache
  MaxItems,   \* max_items
  MaxTime,    \* bound: the clock
  MaxVersion  \* bound: commits to the ledger

ASSUME CacheAssumption ==
  /\ NoKey \notin Keys
  /\ Ttl \in Nat /\ MaxItems \in Nat \ {0}
  /\ MaxTime \in Nat /\ MaxVersion \in Nat

VARIABLES
  clock,
  version,     \* the version of the ledger
  uncleared,   \* versions whose writer has not yet cleared the cache
  cleared,     \* history: the latest version whose writer has cleared the cache
  superseded,  \* history: when each version stopped being the latest
  cache,       \* self._cache, a function on the keys that are present
  reader       \* what each reader is doing

cacheVars == <<clock, version, uncleared, cleared, superseded, cache, reader>>

Times == 0 .. MaxTime
Versions == 0 .. MaxVersion
\* missed: history, the latest version whose writer cleared the cache while the
\* payload, older than that, was produced and not yet stored; 0 if there is none.
Entries == [payload : Versions, created : Times, missed : Versions]
ReaderStages == {"idle", "lookup", "produce", "store", "done"}
NoRead == [stage |-> "idle", key |-> NoKey, bypass |-> FALSE,
           began |-> 0, payload |-> 0, missed |-> 0, floor |-> 0]
Reads == [stage : ReaderStages, key : Keys \cup {NoKey}, bypass : BOOLEAN,
          began : Times, payload : Versions, missed : Versions, floor : Versions]

Empty == [k \in {} |-> 0]

CacheInit ==
  /\ clock = 0
  /\ version = 0
  /\ uncleared = {}
  /\ cleared = 0
  /\ superseded = [v \in Versions |-> MaxTime]
  /\ cache = Empty
  /\ reader = [r \in Readers |-> NoRead]

Tick ==
  /\ clock < MaxTime
  /\ clock' = clock + 1
  /\ UNCHANGED <<version, uncleared, cleared, superseded, cache, reader>>

-----------------------------------------------------------------------------
(* Writers.                                                                *)

Commit ==
  /\ version < MaxVersion
  /\ version' = version + 1
  /\ uncleared' = uncleared \cup {version + 1}
  /\ superseded' = [superseded EXCEPT ![version] = clock]
  /\ UNCHANGED <<clock, cleared, cache, reader>>

\* A reader that has read before version v was committed and not yet stored.
Overtaken(r, v) == reader[r].stage = "store" /\ reader[r].payload < v

\* The readers, with a clear for version v noted on those it overtakes.
Noted(v) ==
  [r \in Readers |-> IF Overtaken(r, v) /\ v > reader[r].missed
                       THEN [reader[r] EXCEPT !.missed = v] ELSE reader[r]]

\* Mutant: only what has expired is dropped.
ClearedEntriesByAge == [k \in {k \in DOMAIN cache : cache[k].created + Ttl > clock} |-> cache[k]]
ClearedEntries == Empty

Clear(v) ==
  /\ v \in uncleared
  /\ uncleared' = uncleared \ {v}
  /\ cleared' = IF v > cleared THEN v ELSE cleared
  /\ cache' = ClearedEntries
  /\ reader' = Noted(v)
  /\ UNCHANGED <<clock, version, superseded>>

-----------------------------------------------------------------------------
(* cached                                                                  *)

\* floor: what the writers had committed and cleared when the request came.
BeginRead(r, k, bypass) ==
  /\ reader[r].stage = "idle"
  /\ LET request == [NoRead EXCEPT !.key = k, !.began = clock, !.floor = cleared] IN
       reader' = [reader EXCEPT ![r] = IF bypass \/ Ttl = 0
                                        THEN [request EXCEPT !.stage = "produce", !.bypass = TRUE]
                                        ELSE [request EXCEPT !.stage = "lookup"]]
  /\ UNCHANGED <<clock, version, uncleared, cleared, superseded, cache>>

Live(k, now) == k \in DOMAIN cache /\ cache[k].created + Ttl > now

Answer(r, payload, missed) ==
  reader' = [reader EXCEPT ![r].stage = "done", ![r].payload = payload, ![r].missed = missed]

Hit(r) ==
  /\ reader[r].stage = "lookup" /\ Live(reader[r].key, reader[r].began)
  /\ LET entry == cache[reader[r].key] IN Answer(r, entry.payload, entry.missed)
  /\ UNCHANGED <<clock, version, uncleared, cleared, superseded, cache>>

Miss(r) ==
  /\ reader[r].stage = "lookup" /\ ~Live(reader[r].key, reader[r].began)
  /\ reader' = [reader EXCEPT ![r].stage = "produce"]
  /\ UNCHANGED <<clock, version, uncleared, cleared, superseded, cache>>

Produce(r) ==
  /\ reader[r].stage = "produce"
  /\ IF reader[r].bypass
       THEN Answer(r, version, 0)
       ELSE reader' = [reader EXCEPT ![r].stage = "store", ![r].payload = version]
  /\ UNCHANGED <<clock, version, uncleared, cleared, superseded, cache>>

\* Mutant: only the expired entries are pruned.
PrunedByAge(now) == {{k \in DOMAIN cache : Live(k, now)}}

\* prune: the expired go, then the oldest while there are more than max_items.
Pruned(now) ==
  LET live == {k \in DOMAIN cache : Live(k, now)}
  IN  {kept \in SUBSET live :
         /\ kept = live \/ Cardinality(kept) = MaxItems
         /\ Cardinality(kept) <= MaxItems
         /\ \A k \in kept, gone \in live \ kept : cache[gone].created <= cache[k].created}

\* Mutants: the time of the store, and the time of the expiry.
StampLate(r) == clock
StampExpiry(r) == reader[r].began + Ttl
\* The time an entry carries: read before the look-up, not when it is stored.
Stamp(r) == reader[r].began

\* The new entry is inserted after the pruning.
Inserted(kept, k, entry) == [q \in kept \cup {k} |-> IF q = k THEN entry ELSE cache[q]]

Store(r) ==
  /\ reader[r].stage = "store"
  /\ LET entry == [payload |-> reader[r].payload, created |-> Stamp(r), missed |-> reader[r].missed]
     IN  \E kept \in Pruned(reader[r].began) : cache' = Inserted(kept, reader[r].key, entry)
  /\ Answer(r, reader[r].payload, reader[r].missed)
  /\ UNCHANGED <<clock, version, uncleared, cleared, superseded>>

Leave(r) ==
  /\ reader[r].stage = "done"
  /\ reader' = [reader EXCEPT ![r] = NoRead]
  /\ UNCHANGED <<clock, version, uncleared, cleared, superseded, cache>>

CacheNext ==
  \/ Tick \/ Commit \/ \E v \in uncleared : Clear(v)
  \/ \E r \in Readers :
       \/ \E k \in Keys, bypass \in BOOLEAN : BeginRead(r, k, bypass)
       \/ Hit(r) \/ Miss(r) \/ Produce(r) \/ Store(r) \/ Leave(r)

CacheSpec == CacheInit /\ [][CacheNext]_cacheVars

-----------------------------------------------------------------------------
\* Times, versions and entries are in their domains.
CacheTypeOK ==
  /\ clock \in Times /\ version \in Versions /\ cleared \in Versions
  /\ uncleared \subseteq Versions
  /\ superseded \in [Versions -> Times]
  /\ DOMAIN cache \subseteq Keys
  /\ \A k \in DOMAIN cache : cache[k] \in Entries
  /\ reader \in [Readers -> Reads]

\* Pruning before the insertion and under the lock keeps the cache within one
\* entry of max_items, however late and out of order the readers store.
BoundedSize == Cardinality(DOMAIN cache) <= MaxItems + 1

\* An answer is what the ledger held less than one TTL before the request came,
\* or later, although a payload may be stored long after it was produced.
FreshWithinTtl ==
  \A r \in Readers : reader[r].stage = "done" =>
    LET v == reader[r].payload IN
      \/ v = version
      \/ superseded[v] >= reader[r].began
      \/ superseded[v] + Ttl > reader[r].began

\* A request that comes after the writers up to floor have cleared the cache sees
\* what they wrote, whoever stores what between a commit and its clear and in
\* whatever order the writers clear.  One way round remains: the very payload it
\* is answered with was produced before the latest of these writes and stored
\* after its clear.  Another key's race, or an earlier one, excuses nothing, and
\* a request that bypasses the cache always sees the writes.
ClearIsSeen ==
  \A r \in Readers : (reader[r].stage = "done" /\ reader[r].payload < reader[r].floor)
    => reader[r].missed >= reader[r].floor /\ ~reader[r].bypass

\* docs/project/BACKLOG.md:37 "Commander writes clear read-model cache so the
\* command center reflects newly dispatched/recorded evidence immediately".
ReflectsImmediately ==
  \A r \in Readers : reader[r].stage = "done" => reader[r].payload >= reader[r].floor
=============================================================================
