----------------------------- MODULE MCA2Frames -----------------------------
(***************************************************************************)
(* Instances of A2Frames for TLC.  Sound as a constraint ends a behaviour  *)
(* at its first fault; a specification with one fault shows what comes of  *)
(* it.                                                                     *)
(***************************************************************************)
EXTENDS A2Frames, TLC

(* Addresses, values and identities of calls are only compared.            *)
MCSymmetry ==
  Permutations(Closures) \cup Permutations(UvObjs)
    \cup Permutations(Activations) \cup Permutations(Values)

(* The fault "recursion" may strike, and no other.                       *)
RecursionSpec == Init /\ [][Next /\ faults' \subseteq {"recursion"}]_vars

=============================================================================
