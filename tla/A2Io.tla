-------------------------------- MODULE A2Io --------------------------------
(***************************************************************************)
(* A stream of A2Stream and somebody who reads from it, in any order of    *)
(* calls: that it keeps the promise of A2Chars.                            *)
(***************************************************************************)
EXTENDS A2Stream

CONSTANTS
  Bytes,    \* What texts consist of.
  Texts,    \* The texts to read.
  MaxLook   \* How far the reader looks ahead.

VARIABLES
  io,       \* The stream.
  got       \* What the last call returned.

vars == <<io, got>>

(* A look ahead is short enough for a block that it loads to be moved onto *)
(* itself without an overlap (the memcpy of a2_io.c:79).                   *)
ASSUME TextsAssumption ==
  /\ Texts \subseteq Seq(Bytes) \ {<< >>}
  /\ MaxLook \in Nat
  /\ 2 * MaxLook < Size

Init ==
  /\ \E t \in Texts : io = Open(t) \/ io = OpenS(t)
  /\ got = Nul

Read ==
  /\ io' = Advanced(io)
  /\ got' = ReadChar(io)

At ==
  /\ got' = AtChar(io)
  /\ UNCHANGED io

Match ==
  \E n \in 1 .. MaxLook :
    /\ io' = Looked(io, n)
    /\ got' = MatchChar(io, n)

Next == Read \/ At \/ Match

Spec == Init /\ [][Next]_vars

-----------------------------------------------------------------------------
(* Properties.                                                             *)

(* Blocks of n bytes, and those with one more.                             *)
Blocks(n) ==
  LET Cells == Bytes \cup {Nul, Unknown}
  IN  [0 .. n - 1 -> Cells] \cup [0 .. n -> Cells]

(* Only a string is a block of another size, and it has no other block.    *)
OfItsSize(s) == s.size = Size \/ (s.rsize = 0 /\ s.size = Len(s.text))

(* The block of s is the part of the text that begins at rsize, with the   *)
(* position inside of it, and what follows it is still in the file.        *)
InOrder(s) ==
  /\ s \in [text : Texts, size : Nat \ {0}, rsize : Nat, seek : Nat, from : Nat,
             buf : Blocks(s.size)]
  /\ s.seek <= s.size
  /\ OfItsSize(s)
  /\ Position(s) <= Len(s.text)
  /\ s.from = Least(s.rsize + s.size, Len(s.text))
  /\ \A i \in 0 .. s.size - 1 :
       s.rsize + i < Len(s.text) => s.buf[i] = s.text[s.rsize + i + 1]

(* The block in memory is at all times the part of the text that rsize and *)
(* seek say it is (the arithmetic of a2_io.c:78-87).                       *)
Window == InOrder(io)

(* What a reader gets, in whatever order it calls: every byte once and in  *)
(* order from a2_io_readchar (a2_io.c:89-98), except for those that a look *)
(* ahead across the end of a block passes over; and between blocks no more *)
(* than A2Chars says from a2_io_atchar (a2_io.c:100-120).                  *)
Chars == INSTANCE A2Chars WITH text <- io.text, pos <- Position(io),
                               seam <- io.rsize + io.size

ReadsText == Chars!Spec

=============================================================================
