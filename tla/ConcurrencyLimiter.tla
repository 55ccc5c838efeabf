-------------------------- MODULE ConcurrencyLimiter --------------------------
(***************************************************************************)
(* The concurrency half of app/core/rate_limiter.py as operators on its    *)
(* OrderedDict _active.  A store is a sequence of records without two of   *)
(* one key, the one touched last at its end.  Each operation holds the     *)
(* limiter's lock, so each is one step for its caller.                     *)
(***************************************************************************)
EXTENDS Naturals, SequencesExt

CONSTANT MaxKeys    \* max_keys: how many keys a store may hold

ASSUME LimiterAssumption == MaxKeys \in Nat \ {0}

Held(store, key) == \E i \in DOMAIN store : store[i].key = key

PlaceOf(store, key) == CHOOSE i \in DOMAIN store : store[i].key = key

CountOf(store, key) ==
    IF Held(store, key) THEN store[PlaceOf(store, key)].count ELSE 0

Without(store, key) ==
    IF Held(store, key) THEN RemoveAt(store, PlaceOf(store, key)) ELSE store

Touched(store, key, n) == Append(Without(store, key), [key |-> key, count |-> n])

\* _ensure_capacity evicts the keys untouched for longest, whoever they belong
\* to, and also when the key that is about to be written is there already.
Evicted(store) ==
    IF Len(store) < MaxKeys THEN store
    ELSE SubSeq(store, Len(store) - MaxKeys + 2, Len(store))

\* acquire reads the count before it evicts.
Acquired(store, key) == Touched(Evicted(store), key, CountOf(store, key) + 1)

\* Defect: a count of zero stays.
ReleasedKept(store, key) ==
    IF CountOf(store, key) = 0 THEN store ELSE Touched(store, key, CountOf(store, key) - 1)

Released(store, key) ==
    IF CountOf(store, key) <= 1 THEN Without(store, key)
    ELSE Touched(store, key, CountOf(store, key) - 1)
=============================================================================
