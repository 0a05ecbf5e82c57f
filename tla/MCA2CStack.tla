----------------------------- MODULE MCA2CStack -----------------------------
(* Instances of A2CStack for TLC.                                          *)
EXTENDS A2CStack, TLC

MCNoPerils == {}

(* To see a peril at work: Perils <- MCGrow, and so on.                    *)
MCGrow == {"grow"}
MCCError == {"c_error"}
MCCycle == {"cycle"}

MCSymmetry == Permutations(Keys)

=============================================================================
