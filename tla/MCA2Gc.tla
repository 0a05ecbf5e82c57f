------------------------------- MODULE MCA2Gc -------------------------------
(***************************************************************************)
(* Instances of A2Gc.  Objects, registers, global names and string contents*)
(* are model values; three of the four sets are symmetric.  A constraint   *)
(* ends a behaviour at its first fault; a specification with one fault     *)
(* shows what comes of it.                                                 *)
(***************************************************************************)
EXTENDS A2Gc, TLC

MCContainers == {"array", "map"}

MCSymmetry ==
  Permutations(Objs) \cup Permutations(Regs) \cup Permutations(Strings)

(* Up to the first fault, from every heap of two objects, and from those   *)
(* of three that make a long path: a closure, its upvalue object and what  *)
(* that holds, or arrays in each other, held by registers alone.           *)
Followed ==
  /\ Sound
  /\ \/ Cardinality(linked) <= 2
     \/ /\ Cardinality(linked) = 3
        /\ chunk = NoObj /\ \A g \in Globals : globals[g] = NoObj
        /\ \A o \in linked : heap[o].kind \in {"array", "closure", "upvalue"}

(* The fault "register" may strike, and no other.                        *)
RegisterSpec == Init /\ [][Next /\ faults' \subseteq {"register"}]_vars

=============================================================================
