------------------------------ MODULE A2Stacks ------------------------------
(***************************************************************************)
(* What the embedding API promises C code (a2.h): the host and every C     *)
(* function that a script calls have a stack of their own.  A C function   *)
(* works on its stack, lets scripts run, and hands its last elements back. *)
(* A run leaves its results or an error's message.  Nobody else touches a  *)
(* stack; only who catches the error of a C function knows nothing of his  *)
(* own any more but the message.                                           *)
(***************************************************************************)
EXTENDS Integers, Sequences

CONSTANTS
  Things,  \* What is on stacks.
  Nil,
  Msg      \* The message of an error.

VARIABLES
  own,     \* The stacks: the host's, and of each C function under way.
  script,  \* Whether a script is in control.
  handed   \* What the script got from the C function that just returned.

vars == <<own, script, handed>>

Init ==
  /\ own = << << >> >>
  /\ script = FALSE
  /\ handed = << >>

(* Whoever is in control has the last stack.                               *)
Top(o) == o[Len(o)]

(* There are n stacks afterwards, and the first m are as they were.        *)
Untouched(m, n) ==
  /\ own' \in Seq(Seq(Things)) /\ Len(own') = n
  /\ \A i \in 1 .. m : own'[i] = own[i]

(* C code pushes, pops and replaces elements of its own stack.             *)
Work ==
  /\ ~script /\ ~script'
  /\ Untouched(Len(own) - 1, Len(own))
  /\ handed' = << >>

(* C code has a script run.                                                *)
Start ==
  /\ ~script /\ script'
  /\ handed' = << >>
  /\ UNCHANGED own

(* The script calls a C function.                                          *)
Enter ==
  /\ script /\ ~script'
  /\ Untouched(Len(own), Len(own) + 1)
  /\ handed' = << >>

(* A C function returns ret elements to a script that wants some number.   *)
Leave ==
  /\ ~script /\ script' /\ Len(own) > 1
  /\ Untouched(Len(own) - 1, Len(own) - 1)
  /\ \E ret \in 0 .. Len(Top(own)) :
       handed' = [i \in 1 .. Len(handed') |->
                    IF i <= ret THEN Top(own)[Len(Top(own)) - ret + i] ELSE Nil]

(* The script ends or fails and leaves something on the stack of whoever   *)
(* had it run.                                                             *)
Deliver ==
  /\ script /\ ~script'
  /\ Untouched(Len(own) - 1, Len(own))
  /\ Len(Top(own)) <= Len(Top(own'))
  /\ \A i \in 1 .. Len(Top(own)) : Top(own')[i] = Top(own)[i]
  /\ handed' = << >>

(* A C function fails: it is gone, and the message is there.               *)
Catch ==
  /\ ~script /\ ~script' /\ Len(own) > 1
  /\ Untouched(Len(own) - 2, Len(own) - 1)
  /\ Len(Top(own')) > 0 /\ Top(own')[Len(Top(own'))] = Msg
  /\ handed' = << >>

Next == Work \/ Start \/ Enter \/ Leave \/ Deliver \/ Catch

Spec == Init /\ [][Next]_vars

=============================================================================
