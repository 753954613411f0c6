----------------------------- MODULE DedupCache -----------------------------
(***************************************************************************)
(* `DedupCache` of crates/transport/runtime/src/dedup.rs, as operators on  *)
(* a cache value: `entries` maps a key to what was accepted under it, and  *)
(* `order` holds the same keys, least recently used first. The direct and  *)
(* the broadcast planes each own one.                                      *)
(***************************************************************************)
EXTENDS Naturals, Sequences, FiniteSets, Maps

CONSTANTS
    MaxEntries,  \* `max_entries`: entries kept
    Ttl          \* `ttl_ms`: how long an accepted message is remembered

ASSUME DedupAssumption == MaxEntries \in Nat \ {0} /\ Ttl \in Nat

\* `DedupCache::new`.
NewCache == [entries |-> EmptyMap, order |-> <<>>]

Without(order, keys) == SelectSeq(order, LAMBDA k : k \notin keys)

\* The entries whose time is up.
Expired(cache, now) ==
    {k \in DOMAIN cache.entries : now - cache.entries[k].at >= Ttl}

\* `expire`.
Expire(cache, now) ==
    LET gone == Expired(cache, now)
    IN  [entries |-> MapDrop(cache.entries, gone), order |-> Without(cache.order, gone)]

\* `touch`: the key becomes the most recently used; its time is not renewed.
Touch(cache, key) ==
    IF key \in DOMAIN cache.entries
    THEN [cache EXCEPT !.order = Append(Without(@, {key}), key)]
    ELSE cache

\* `admit`: what the cache, already expired, says of a key.
Verdict(cache, key, print) ==
    IF key \notin DOMAIN cache.entries THEN "Fresh"
    ELSE IF cache.entries[key].print # print THEN "Conflict"
    ELSE "DuplicateAccepted"

\* `admit`: what is left of the cache afterwards.
AfterAdmit(cache, key, print, now) ==
    LET live == Expire(cache, now)
    IN  IF Verdict(live, key, print) = "DuplicateAccepted" THEN Touch(live, key) ELSE live

\* Keys `record_accepted` pushes out to make room for one more.
Overflow(cache) ==
    LET excess == IF Cardinality(DOMAIN cache.entries) >= MaxEntries
                  THEN Cardinality(DOMAIN cache.entries) - MaxEntries + 1
                  ELSE 0
    IN  {cache.order[i] : i \in 1..excess}

\* `record_accepted`: a present key is left alone; otherwise the least
\* recently used entries make room.
RecordAccepted(cache, key, route, print, now) ==
    LET live == Expire(cache, now)
        out  == Overflow(live)
    IN  IF key \in DOMAIN live.entries THEN live
        ELSE [entries |-> MapPut(MapDrop(live.entries, out), key,
                                 [route |-> route, print |-> print, at |-> now]),
              order |-> Append(Without(live.order, out), key)]

=============================================================================
