------------------------------- MODULE A2Dict -------------------------------
(***************************************************************************)
(* What a map of A2 promises its users (a2_map.h): a partial function from *)
(* keys to values.  The interpreter relies on it for script maps, for the  *)
(* table of interned strings, for the global variables, for the registry   *)
(* and for the compiler's symbol tables.                                   *)
(***************************************************************************)
CONSTANTS
  Keys,     \* The objects used as keys.
  Values,   \* The objects stored under them.
  NoValue   \* What a query answers for a key that is not stored.

VARIABLE dict   \* dict[k] is the value of k, NoValue when k is absent.

Init == dict = [k \in Keys |-> NoValue]

(* a2_map_set, and a2_map_add after a failed query.                        *)
Set(k, v) == dict' = [dict EXCEPT ![k] = v]

(* a2_map_del.                                                             *)
Del(k) == dict' = [dict EXCEPT ![k] = NoValue]

(* a2_map_clear.                                                           *)
Clear == dict' = [k \in Keys |-> NoValue]

Next ==
  \/ \E k \in Keys, v \in Values : Set(k, v)
  \/ \E k \in Keys : Del(k)
  \/ Clear

Spec == Init /\ [][Next]_dict

=============================================================================
