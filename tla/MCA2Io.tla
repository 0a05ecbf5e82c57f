------------------------------- MODULE MCA2Io -------------------------------
(* Instances of A2Io for TLC.                                              *)
EXTENDS A2Io, TLC

MCBytes == {"a", "b"}
MCTexts == UNION {[1 .. n -> MCBytes] : n \in 1 .. 11}

=============================================================================
