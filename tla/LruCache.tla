------------------------------ MODULE LruCache ------------------------------
(***************************************************************************)
(* zht-cache: LruCache, a HashMap for the values and a VecDeque of the     *)
(* keys, the most recently used one in front.  One RwLock protects both    *)
(* and every operation that changes them holds it for writing from its     *)
(* first line to its last, so that each is one step.                       *)
(***************************************************************************)
EXTENDS Naturals, FiniteSets, Sequences, SequencesExt

CONSTANTS K, V, None,
          MaxSize   \* max_size

ASSUME LruCacheAssumption ==
  /\ IsFiniteSet(K)
  /\ None \notin V
  /\ MaxSize \in Nat \ {0}

VARIABLES map,     \* the values of the HashMap (the index in it is not used)
          order,   \* the VecDeque
          result   \* what the last operation returned

cacheVars == <<map, order, result>>

Present(m) == {k \in K : m[k] # None}

CacheInit ==
  /\ map = [k \in K |-> None]
  /\ order = << >>
  /\ result = None

(* Mutant: a key is pushed in front of its old position.                   *)
PromotedTwice(k) == <<k>> \o order

(* Takes the first position of the key out of the deque, if it is there,   *)
(* and pushes the key in front.                                            *)
Promoted(k) == <<k>> \o RemoveFirst(order, k)

(* The map and the deque after the entry has been put in front.            *)
Stored(k, v) == [map EXCEPT ![k] = v]
Queued(k) == IF map[k] # None THEN Promoted(k) ELSE <<k>> \o order

(* The key at the back leaves a cache that is too full.  One is enough:    *)
(* Agree says that no operation leaves more than MaxSize.                  *)
Evict(m, o) ==
  IF Cardinality(Present(m)) > MaxSize
  THEN map' = [m EXCEPT ![Last(o)] = None] /\ order' = Front(o)
  ELSE map' = m /\ order' = o

Insert(k, v) ==
  /\ Evict(Stored(k, v), Queued(k))
  /\ result' = None

InsertWithEviction(k, v) ==
  /\ Evict(Stored(k, v), Queued(k))
  /\ result' = IF Cardinality(Present(Stored(k, v))) > MaxSize
               THEN Stored(k, v)[Last(Queued(k))] ELSE None

(* Mutant: a hit leaves the key where it is.                               *)
FetchOnly(k) ==
  /\ result' = map[k]
  /\ UNCHANGED <<map, order>>

Fetch(k) ==
  /\ result' = map[k]
  /\ order' = IF map[k] # None THEN Promoted(k) ELSE order
  /\ UNCHANGED map

Touch(k) ==
  /\ map[k] # None
  /\ order' = Promoted(k)
  /\ result' = None
  /\ UNCHANGED map

RemoveKey(k) ==
  /\ order' = RemoveFirst(order, k)
  /\ map' = [map EXCEPT ![k] = None]
  /\ result' = map[k]

Clear ==
  /\ map' = [k \in K |-> None]
  /\ order' = << >>
  /\ result' = None

CacheNext ==
  \/ \E k \in K, v \in V : Insert(k, v) \/ InsertWithEviction(k, v)
  \/ \E k \in K : Fetch(k) \/ Touch(k) \/ RemoveKey(k)
  \/ Clear

CacheSpec == CacheInit /\ [][CacheNext]_cacheVars

-----------------------------------------------------------------------------
(* Properties.                                                             *)

(* What the operations leave in the map, the deque and their results stays *)
(* within its types, and the deque within the capacity.                    *)
CacheTypeOK ==
  /\ map \in [K -> V \union {None}]
  /\ order \in Seq(K) /\ Len(order) <= MaxSize
  /\ result \in V \union {None}

(* The deque holds the keys of the map, each of them once: otherwise an    *)
(* eviction would take out a key that is not in the map and leave the      *)
(* cache too full, or a position of a key that has been used since.        *)
Agree ==
  /\ ToSet(order) = Present(map)
  /\ \A i, j \in 1..Len(order) : order[i] = order[j] => i = j

Abstract == INSTANCE Recency WITH
  Keys <- K, Vals <- V, Absent <- None,
  value <- map,
  newer <- {<<order[p[1]], order[p[2]]>> :
              p \in {q \in (1..Len(order)) \X (1..Len(order)) : q[1] < q[2]}}

(* "Evicts the least recently used entry when capacity is exceeded": the   *)
(* cache implements the abstract one.                                      *)
EvictsLeastRecentlyUsed == Abstract!Spec
=============================================================================
