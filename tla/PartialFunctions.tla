-------------------------- MODULE PartialFunctions --------------------------
(***************************************************************************)
(* The dictionaries of the Python code: functions from some of the keys.   *)
(***************************************************************************)
EXTENDS Functions

Partial(K, V) == UNION {[D -> V] : D \in SUBSET K}

Put(f, k, v) == [x \in (DOMAIN f) \cup {k} |-> IF x = k THEN v ELSE f[x]]
Drop(f, k) == Restrict(f, DOMAIN f \ {k})
=============================================================================
