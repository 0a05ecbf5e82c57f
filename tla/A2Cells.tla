------------------------------- MODULE A2Cells ------------------------------
(***************************************************************************)
(* What closures promise a script.  Every call of a function has variables *)
(* of its own.  A function made during the call may capture one of them,   *)
(* or what its maker has captured, and reads and writes that very variable *)
(* for as long as it lives: whoever else has captured it, and whether the  *)
(* call goes on, has returned or was given up because of an error.         *)
(***************************************************************************)
EXTENDS Naturals, Sequences

CONSTANTS
  Closures,     \* Functions of the script.
  NoFunction,   \* What is called when it is C code.
  Activations,  \* Identities of calls.
  NoActivation,
  Registers,    \* The variables of a call.
  Values,
  NoCell,       \* What a function holds that has captured nothing.
  NoValue       \* The content of a variable nobody can reach.

Cells == [act : Activations, reg : Registers]

VARIABLES
  running,  \* The calls under way, each [act, fn], the latest last: those
            \* of functions, and of C code, which has no variables.
  holds,    \* The variable each function has captured.
  store     \* The content of every variable.

vars == <<running, holds, store>>

Active(run) == {run[i].act : i \in DOMAIN run}

Held(h) == {h[c] : c \in Closures} \ {NoCell}

Runs(c) == \E i \in DOMAIN running : running[i].fn = c

(* The variables the latest call can name, if it is of a function.         *)
InReach ==
  IF running = << >> THEN {}
  ELSE LET top == running[Len(running)]
       IN  {x \in Cells : /\ top.fn # NoFunction
                          /\ x.act = top.act \/ x = holds[top.fn]}

(* Variables that nobody can reach any more are given up.                  *)
Kept(run, h) ==
  [x \in Cells |-> IF x.act \in Active(run) \/ x \in Held(h)
                   THEN store[x] ELSE NoValue]

Init ==
  /\ running = << >>
  /\ holds = [c \in Closures |-> NoCell]
  /\ store = [x \in Cells |-> NoValue]

(* C code is called.                                                       *)
Foreign == [act |-> NoActivation, fn |-> NoFunction]

EnterForeign ==
  /\ running' = Append(running, Foreign)
  /\ UNCHANGED <<holds, store>>

(* A call of a function begins with variables of its own.  C code that     *)
(* calls one may be entered in the same step.                              *)
Enter ==
  \E a \in Activations, c \in Closures, init \in [Registers -> Values],
     below \in {running, Append(running, Foreign)} :
    /\ a \notin Active(running) \cup {x.act : x \in Held(holds)}
    /\ running' = Append(below, [act |-> a, fn |-> c])
    /\ store' = [x \in Cells |-> IF x.act = a THEN init[x.reg] ELSE store[x]]
    /\ UNCHANGED holds

(* The latest call ends, or several at once because of an error.           *)
Leave ==
  \E n \in 0 .. Len(running) - 1 :
    /\ running' = SubSeq(running, 1, n)
    /\ store' = Kept(running', holds)
    /\ UNCHANGED holds

Capture(c) ==
  /\ ~Runs(c) /\ holds[c] = NoCell
  /\ \E x \in InReach : holds' = [holds EXCEPT ![c] = x]
  /\ UNCHANGED <<running, store>>

Release(c) ==
  /\ ~Runs(c)
  /\ holds' = [holds EXCEPT ![c] = NoCell]
  /\ store' = Kept(running, holds')
  /\ UNCHANGED running

Assign ==
  /\ \E x \in InReach, v \in Values : store' = [store EXCEPT ![x] = v]
  /\ UNCHANGED <<running, holds>>

Next ==
  \/ Enter \/ EnterForeign \/ Leave \/ Assign
  \/ \E c \in Closures : Capture(c) \/ Release(c)

Spec == Init /\ [][Next]_vars

=============================================================================
