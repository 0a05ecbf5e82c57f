------------------------------ MODULE A2Chars -------------------------------
(***************************************************************************)
(* What a stream of blocks promises: the bytes of a text one after the     *)
(* other, except that a look ahead across the end of a block takes along   *)
(* the bytes before it, and that the next byte cannot be seen before it is *)
(* read when it is the first of a block.                                   *)
(***************************************************************************)
EXTENDS Integers, Sequences

CONSTANTS
  Bytes,    \* What texts consist of.
  Texts,    \* The texts there may be.
  Nul,      \* What is read behind the end.
  Unknown,  \* What stands in memory that nobody wrote.
  MaxLook   \* How far a look-ahead may go.

VARIABLES
  text,     \* What there is to read.
  pos,      \* How much of it was read.
  seam,     \* Where the block at hand ends.
  got       \* What the last call returned.

vars == <<text, pos, seam, got>>

Anything == Bytes \cup {Nul, Unknown}

Byte(i) == IF i <= Len(text) THEN text[i] ELSE Nul

Init ==
  /\ text \in Texts
  /\ pos = 0
  /\ seam \in Nat \ {0}
  /\ got = Nul

(* Reading gives every byte in its turn, whatever blocks they come in.     *)
Read ==
  /\ got' = Byte(pos + 1)
  /\ pos' = IF pos < Len(text) THEN pos + 1 ELSE pos
  /\ IF pos = seam /\ pos < Len(text)
     THEN seam' \in Nat /\ seam' > pos
     ELSE UNCHANGED seam
  /\ UNCHANGED text

(* The current byte is the next one inside of a block and inside of the    *)
(* text; elsewhere it is whatever the memory holds.                        *)
Current ==
  /\ IF pos < seam /\ pos < Len(text) THEN got' = Byte(pos + 1)
                                      ELSE got' \in Anything
  /\ UNCHANGED <<text, pos, seam>>

(* A byte further on.  If it is in the next block, reading goes on where   *)
(* that begins, and the byte is as far behind that.                        *)
Look(n) ==
  \/ /\ pos + n < seam \/ pos + n >= Len(text)
     /\ got' = Byte(pos + n + 1)
     /\ UNCHANGED <<text, pos, seam>>
  \/ /\ pos + n >= seam /\ pos + n < Len(text)
     /\ IF seam + n < Len(text) THEN got' = Byte(seam + n + 1)
                                ELSE got' \in Anything
     /\ pos' = seam
     /\ seam' \in Nat /\ seam' > seam
     /\ UNCHANGED text

Next == Read \/ Current \/ \E n \in 1 .. MaxLook : Look(n)

Spec == Init /\ [][Next]_vars

=============================================================================
