------------------------------ MODULE A2Stream ------------------------------
(***************************************************************************)
(* The block reader of src/src/a2_io.c as operators on a record:           *)
(*   text   what there is to read                                          *)
(*   buf    the block in memory, from 0 on                                 *)
(*   size   how long the block is                                          *)
(*   from   how much of a file was handed over (fp)                        *)
(*   rsize  where in the text the block begins                             *)
(*   seek   the position in the block                                      *)
(* A file comes in blocks of Size bytes, a string as a single block with   *)
(* the 0 byte behind it.                                                   *)
(***************************************************************************)
EXTENDS Integers, Sequences

CONSTANTS
  Size,     \* MAX_IO_BUFFER.
  Nul,      \* The 0 byte.
  Unknown   \* What stands in memory that nobody wrote.

ASSUME SizeAssumption == Size \in Nat \ {0}

Least(a, b) == IF a < b THEN a ELSE b

(* a2_io_open, for a file that is not empty.                               *)
Open(text) ==
  [text |-> text, size |-> Size, rsize |-> 0, seek |-> 0,
   from |-> Least(Size, Len(text)),
   buf |-> [i \in 0 .. Size - 1 |-> IF i < Len(text) THEN text[i + 1] ELSE Unknown]]

(* a2_io_openS.                                                            *)
OpenS(text) ==
  [text |-> text, size |-> Len(text), rsize |-> 0, seek |-> 0, from |-> Len(text),
   buf |-> [i \in 0 .. Len(text) |-> IF i < Len(text) THEN text[i + 1] ELSE Nul]]

Position(s) == s.rsize + s.seek

(* _is_end and is_load.                                                    *)
IsEnd(s, n) == Position(s) + n >= Len(s.text)

IsLoad(s, n) == s.seek + n >= s.size /\ ~IsEnd(s, n)

(* What is at place i of the block; behind it anything may be.             *)
BufAt(s, i) == IF i \in DOMAIN s.buf THEN s.buf[i] ELSE Unknown

(* Faulty variant of Load: a block is taken to begin where the last ended. *)
LoadBehind(s) ==
  LET kept == s.size - s.seek
      n == Least(s.seek, Len(s.text) - s.from)
  IN  [text |-> s.text, size |-> s.size, rsize |-> s.rsize + s.size, seek |-> kept,
       from |-> s.from + n,
       buf |-> [i \in DOMAIN s.buf |->
                  IF i < kept THEN s.buf[s.seek + i]
                  ELSE IF i < kept + n THEN s.text[s.from + i - kept + 1]
                  ELSE s.buf[i]]]

(* _a2_io_load: what is not read yet moves to the front, and the rest of   *)
(* the block comes from the file.  The position goes behind what moved.    *)
Load(s) ==
  LET kept == s.size - s.seek
      n == Least(s.seek, Len(s.text) - s.from)
  IN  [text |-> s.text, size |-> s.size, rsize |-> s.rsize + s.seek, seek |-> kept,
       from |-> s.from + n,
       buf |-> [i \in DOMAIN s.buf |->
                  IF i < kept THEN s.buf[s.seek + i]
                  ELSE IF i < kept + n THEN s.text[s.from + i - kept + 1]
                  ELSE s.buf[i]]]

(* Faulty variant of Ready: a block is loaded one byte early.              *)
ReadyEarly(s, n) == IF IsLoad(s, n + 1) THEN Load(s) ELSE s

Ready(s, n) == IF IsLoad(s, n) THEN Load(s) ELSE s

(* a2_io_readchar: the stream afterwards, and the byte.                    *)
Advanced(s) == IF IsEnd(s, 0) THEN s ELSE [Ready(s, 0) EXCEPT !.seek = @ + 1]
ReadChar(s) == IF IsEnd(s, 0) THEN Nul ELSE BufAt(Ready(s, 0), Ready(s, 0).seek)

(* a2_io_atchar: no block is loaded here.                                  *)
AtChar(s) == BufAt(s, s.seek)

(* a2_io_matchchar, for n > 0: the stream afterwards, and the byte.        *)
Looked(s, n) == IF IsEnd(s, n) \/ n >= s.size THEN s ELSE Ready(s, n)
MatchChar(s, n) ==
  IF IsEnd(s, n) \/ n >= s.size THEN Nul
  ELSE BufAt(Ready(s, n), Ready(s, n).seek + n)

=============================================================================
