------------------------------- MODULE HashMap -------------------------------
(***************************************************************************)
(* The std::unordered_map operations the program uses, on functions whose  *)
(* DOMAIN is the set of present keys.                                      *)
(***************************************************************************)

EmptyMap == [key \in {} |-> 0]

\* map[key] = value, inserting the key when it is absent.
Put(map, key, value) ==
    [k \in DOMAIN map \cup {key} |-> IF k = key THEN value ELSE map[k]]

\* map.erase(key), which does nothing when the key is absent.
Erase(map, key) == [k \in DOMAIN map \ {key} |-> map[k]]

=============================================================================
