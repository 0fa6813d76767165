------------------------------- MODULE Dicts -------------------------------
(***************************************************************************)
(* Python dictionaries as partial functions: a key that is absent is       *)
(* outside the DOMAIN, so "symbol in self.positions" is a DOMAIN test and  *)
(* no sentinel value is needed.                                            *)
(***************************************************************************)

\* d is a dictionary with keys among K and values among V.
IsDict(d, K, V) == DOMAIN d \subseteq K /\ d \in [DOMAIN d -> V]

EmptyDict == [k \in {} |-> k]

\* d[k] = v
Put(d, k, v) == [j \in DOMAIN d \cup {k} |-> IF j = k THEN v ELSE d[j]]

\* del d[k], d.pop(k, None)
Del(d, k) == [j \in DOMAIN d \ {k} |-> d[j]]
=============================================================================
