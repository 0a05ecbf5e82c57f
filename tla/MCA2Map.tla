------------------------------ MODULE MCA2Map -------------------------------
(***************************************************************************)
(* Instances of A2Map for TLC.  Keys are 1 .. n and calc_hash is given by  *)
(* the sequence of their hashes.                                           *)
(***************************************************************************)
EXTENDS A2Map, TLC

MCKeys == 1 .. 4

(* Values are only stored and compared.                                    *)
MCValueSymmetry == Permutations(Values)

(* Keys 1, 2 and 3 share their home slot in every table, and key 4 is at   *)
(* home where they overflow to.                                            *)
MCHashGrow == <<0, 8, 4, 1>>

(* Three keys at home in one slot; the home of the last one is the slot    *)
(* the first of them to overflow takes.                                    *)
MCHashDel == <<0, 0, 0, 1>>

=============================================================================
