-------------------------------- MODULE Maps --------------------------------
(***************************************************************************)
(* The ordered maps the code keeps its state in (BTreeMap, HashMap), as    *)
(* functions whose domain is the set of keys present.                      *)
(***************************************************************************)

\* A map without entries (`BTreeMap::new`).
EmptyMap == [k \in {} |-> {}]

\* `map.insert(key, value)`: a present key is overwritten.
MapPut(map, key, value) ==
    [k \in DOMAIN map \cup {key} |-> IF k = key THEN value ELSE map[k]]

\* `map.remove(key)` for every key of a set; absent keys are ignored.
MapDrop(map, keys) == [k \in DOMAIN map \ keys |-> map[k]]

\* The type of a map from some of Keys into Values.
IsMap(map, Keys, Values) ==
    DOMAIN map \subseteq Keys /\ map \in [DOMAIN map -> Values]

=============================================================================
