------------------------------- MODULE Caches -------------------------------
(***************************************************************************)
(* The read-through caches in Redis (branch-cache, menu-cache, store-type- *)
(* cache and discovery-cache): a reader that misses reads the database and *)
(* then fills the entry; a writer commits and then deletes the entries it  *)
(* touches.  Either may die in between, and a Redis error is swallowed     *)
(* (safeRedisOp), so that a fill or an invalidation may be lost.           *)
(***************************************************************************)
EXTENDS Rows

CONSTANTS
  Keys,      \* entries
  Readers,   \* requests that missed
  Writers    \* requests that committed and have not invalidated yet

VARIABLES
  cache,     \* what each entry holds
  reader,    \* what each reader read, and whether it has been written since
  pending,   \* the entries each writer is going to delete
  gap        \* entries out of date for a reason the code knows nothing of

cacheVars == <<cache, reader, pending, gap>>

CachesInit ==
  /\ cache = [k \in Keys |-> None] /\ reader = [r \in Readers |-> None]
  /\ pending = [w \in Writers |-> {}] /\ gap = {}

Awaited == UNION { pending[w] : w \in Writers }

\* A miss: the reader has the value from the database.  (The last minute of a
\* discovery entry is a miss to some readers, hence no condition on cache[k].)
Miss(r, k, value) ==
  /\ reader[r] = None
  /\ reader' = [reader EXCEPT ![r] = [key |-> k, value |-> value, old |-> FALSE]]
  /\ UNCHANGED <<cache, pending, gap>>

\* A value read before a write and filled after its invalidation stays.
Fill(r) ==
  /\ reader[r] # None
  /\ LET k == reader[r].key IN
       /\ cache' = [cache EXCEPT ![k] = reader[r].value]
       /\ gap' = IF reader[r].old /\ k \notin Awaited THEN gap \cup { k } ELSE gap \ { k }
  /\ reader' = [reader EXCEPT ![r] = None]
  /\ UNCHANGED pending

FillIsLost(r) ==
  /\ reader[r] # None /\ reader' = [reader EXCEPT ![r] = None]
  /\ UNCHANGED <<cache, pending, gap>>

\* A write of w that changes what `changed` would be read as: w is going to
\* delete `deletes`, and nobody will delete `forgotten`.
WriteThrough(w, changed, deletes, forgotten) ==
  /\ pending' = [pending EXCEPT ![w] = @ \cup deletes]
  /\ reader' = [r \in Readers |-> IF reader[r] # None /\ reader[r].key \in changed
                                  THEN [reader[r] EXCEPT !.old = TRUE] ELSE reader[r]]
  /\ gap' = gap \cup { k \in forgotten \cap changed : cache[k] # None }
  /\ UNCHANGED cache

Invalidate(w) ==
  /\ pending[w] # {}
  /\ cache' = [k \in Keys |-> IF k \in pending[w] THEN None ELSE cache[k]]
  /\ gap' = gap \ pending[w]
  /\ pending' = [pending EXCEPT ![w] = {}]
  /\ UNCHANGED reader

InvalidationIsLost(w) ==
  /\ pending[w] # {}
  /\ gap' = gap \cup { k \in pending[w] : cache[k] # None }
  /\ pending' = [pending EXCEPT ![w] = {}]
  /\ UNCHANGED <<cache, reader>>

\* The time to live.
Expire(k) ==
  /\ cache[k] # None
  /\ cache' = [cache EXCEPT ![k] = None] /\ gap' = gap \ { k }
  /\ UNCHANGED <<reader, pending>>

CacheNext ==
  \/ \E r \in Readers : Fill(r) \/ FillIsLost(r)
  \/ \E w \in Writers : Invalidate(w) \/ InvalidationIsLost(w)
  \/ \E k \in Keys : Expire(k)
=============================================================================
