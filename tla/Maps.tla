-------------------------------- MODULE Maps --------------------------------
(***************************************************************************)
(* Partial maps: the JavaScript Maps of the servers and the rows of a table *)
(* by their key are functions whose domain is the set of keys present.     *)
(***************************************************************************)
EXTENDS Functions

EmptyMap == [k \in {} |-> k]

Put(map, key, value) ==
  [k \in DOMAIN map \union {key} |-> IF k = key THEN value ELSE map[k]]

Delete(map, keys) == Restrict(map, DOMAIN map \ keys)
=============================================================================
