------------------------------ MODULE TensorCache ------------------------------
(***************************************************************************)
(* The bounded cache of frozen computations (runtime/tensor_cache.py,      *)
(* TensorResultCache): least recently used first, bounded in entries and   *)
(* in bytes.  The lock is held while the result is computed, and it is     *)
(* reentrant: a computation may look other keys up on the way.             *)
(***************************************************************************)
EXTENDS Naturals, SequencesExt

CONSTANTS
  Users,       (* threads that share the cache                             *)
  Keys,
  ResultSizes, (* sizes of results, in bytes                               *)
  CacheBytes,  (* max_bytes                                                *)
  CacheEntries,(* max_entries                                              *)
  MaxClears    (* bound on the invalidations                               *)

ASSUME CacheAssumption ==
  /\ ResultSizes \subseteq Nat \ {0}
  /\ CacheBytes \in Nat \ {0} /\ CacheEntries \in Nat \ {0}
  /\ MaxClears \in Nat

VARIABLES
  cached,      (* the entries: key, size, and the invalidations before the *)
               (* computation began                                        *)
  nbytes,      (* _bytes                                                   *)
  sealed,      (* closed                                                   *)
  asking,      (* user -> the keys it is computing, innermost last         *)
  clears,      (* how many invalidations there were                        *)
  hit          (* when the last hit was computed, and when it was returned *)

cacheVars == <<cached, nbytes, sealed, asking, clears, hit>>

-----------------------------------------------------------------------------
(* A slip: computations run outside the lock. *)
LockIsFreeAlways(u) == TRUE

(* Whoever computes holds the lock, and may enter again. *)
LockIsFree(u) == \A v \in Users \ {u} : asking[v] = <<>>

CachedKeys == {cached[i].key : i \in DOMAIN cached}

BytesOf(es) == SumFunction([i \in DOMAIN es |-> es[i].size])

(* A key looked up by its own computation would have it run without end.   *)
LookUp(u, k) == ~sealed /\ LockIsFree(u) /\ \A i \in DOMAIN asking[u] : asking[u][i].key # k

Hit(u, k) ==
  /\ LookUp(u, k) /\ k \in CachedKeys
  /\ LET i == CHOOSE j \in DOMAIN cached : cached[j].key = k IN
       /\ cached' = Append(RemoveAt(cached, i), cached[i])
       /\ hit' = [from |-> cached[i].from, now |-> clears]
  /\ UNCHANGED <<nbytes, sealed, asking, clears>>

Miss(u, k) ==
  /\ LookUp(u, k) /\ k \notin CachedKeys
  /\ asking' = [asking EXCEPT ![u] = Append(@, [key |-> k, from |-> clears])]
  /\ UNCHANGED <<cached, nbytes, sealed, clears, hit>>

Computed(u) ==
  /\ asking[u] # <<>> /\ LockIsFree(u)
  /\ asking' = [asking EXCEPT ![u] = Front(@)]
  /\ UNCHANGED <<sealed, clears, hit>>

Oldest(i) == BytesOf(SubSeq(cached, 1, i))

(* Dropping the i least recently used entries makes room. *)
Room(i, size) ==
  \/ i = Len(cached)
  \/ Len(cached) - i < CacheEntries /\ nbytes - Oldest(i) + size <= CacheBytes

(* As many of them go as must, and no more. *)
Evictions(size) ==
  {n \in 0 .. Len(cached) : Room(n, size) /\ \A i \in 0 .. n - 1 : ~Room(i, size)}

Store(u, size) ==
  /\ Computed(u)
  /\ size <= CacheBytes
  /\ \E n \in Evictions(size) :
       /\ cached' = Append(SubSeq(cached, n + 1, Len(cached)),
                           [key |-> Last(asking[u]).key, size |-> size, from |-> Last(asking[u]).from])
       /\ nbytes' = nbytes - Oldest(n) + size

(* Too large, not contiguous, not a tensor: nothing is kept. *)
NotStored(u) == Computed(u) /\ UNCHANGED <<cached, nbytes>>

(* The computation raises, and so do the ones it was part of. *)
Raises(u) ==
  /\ asking[u] # <<>>
  /\ asking' = [asking EXCEPT ![u] = <<>>]
  /\ UNCHANGED <<cached, nbytes, sealed, clears, hit>>

(* Room was made, and then the copy to be kept could not be allocated.     *)
StoreRaises(u, size) ==
  /\ asking[u] # <<>>
  /\ asking' = [asking EXCEPT ![u] = <<>>]
  /\ size <= CacheBytes
  /\ \E n \in Evictions(size) :
       /\ cached' = SubSeq(cached, n + 1, Len(cached))
       /\ nbytes' = nbytes - Oldest(n)
  /\ UNCHANGED <<sealed, clears, hit>>

ClearCache(u) ==
  /\ asking[u] = <<>> /\ LockIsFree(u)
  /\ clears < MaxClears
  /\ clears' = clears + 1
  /\ cached' = <<>> /\ nbytes' = 0
  /\ UNCHANGED <<sealed, asking, hit>>

CloseCache(u) ==
  /\ asking[u] = <<>> /\ LockIsFree(u)
  /\ sealed' = TRUE
  /\ cached' = <<>> /\ nbytes' = 0
  /\ UNCHANGED <<asking, clears, hit>>

CacheInit ==
  /\ cached = <<>> /\ nbytes = 0 /\ sealed = FALSE
  /\ asking = [u \in Users |-> <<>>]
  /\ clears = 0
  /\ hit = [from |-> 0, now |-> 0]

CacheNext ==
  \E u \in Users :
    \/ \E k \in Keys : Hit(u, k) \/ Miss(u, k)
    \/ \E size \in ResultSizes : Store(u, size) \/ StoreRaises(u, size)
    \/ NotStored(u) \/ Raises(u) \/ ClearCache(u) \/ CloseCache(u)

CacheSpec == CacheInit /\ [][CacheNext]_cacheVars

-----------------------------------------------------------------------------
(* The bytes counted are those of the entries, one per key, within both    *)
(* bounds, and a closed cache keeps none.                                  *)
BytesAreCounted ==
  /\ nbytes = BytesOf(cached) /\ nbytes <= CacheBytes
  /\ Len(cached) <= CacheEntries /\ Len(cached) = Cardinality(CachedKeys)
  /\ sealed => cached = <<>>

(* A hit never returns what was computed before the last invalidation.     *)
NoStaleHit == hit.from = hit.now
=============================================================================
