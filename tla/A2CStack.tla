------------------------------ MODULE A2CStack ------------------------------
(***************************************************************************)
(* The stack between C and scripts (cstack and bottom of a2_env.c), the    *)
(* calls of the embedding API on it (a2_state.c), and what becomes of it   *)
(* when scripts call C functions, C functions run scripts, and errors give *)
(* up either.  The host and every C function under way have a window of    *)
(* the one stack: the latest from bottom to the top, the others between    *)
(* what was saved when the C function they wait for was entered.           *)
(***************************************************************************)
EXTENDS Integers, Sequences, SequencesExt

CONSTANTS
  Values,   \* What scripts calculate.
  Keys,     \* Strings that name modules.
  Nil,
  Msg,      \* The message of an error.
  None,     \* What the registry has for a key that is not in it.
  DefSize,  \* DEF_STK_SIZE.
  MaxTop, MaxRuns, MaxCount, MaxWant,  \* Bounds: elements, runs, results
            \* of a run, elements a script gives to or wants of a C function.
  Perils    \* Circumstances known to go wrong that are admitted.

VARIABLES
  stk,      \* cstack.
  cap,      \* For how many elements there is memory (size of obj_stack).
  bottom,   \* Where the window of the C code in control begins, from 0.
  saved,    \* _b and _top of each C function under way.
  runs,     \* Runs of scripts under way: by which call, for which module.
  reg,      \* reg_var.
  handed,   \* What the script got from the C function that just returned.
  left      \* History: what the first load of each module left first.

vars == <<stk, cap, bottom, saved, runs, reg, handed, left>>

Things == Values \cup Keys \cup {Nil, Msg}

ASSUME SizesAssumption ==
  /\ DefSize \in Nat \ {0}
  /\ {MaxTop, MaxRuns, MaxCount, MaxWant} \subseteq Nat

ASSUME ThingsAssumption == None \notin Things

(* What C code and scripts bring in, one at a time or several.  A nil that *)
(* they bring is like any other value.                                     *)
Fresh == Values \cup Keys
Some(max) == UNION {[1 .. n -> Fresh] : n \in 0 .. max}

(* Runs and C functions take turns: a run, a C function called by it, a    *)
(* run begun by that.                                                      *)
InScript == Len(runs) > Len(saved)
InC == ~InScript

Size == Len(stk) - bottom                      \* a2_top
At(s, i) == s[bottom + i + 1]                  \* a2_getcstack

(* obj_stack_add doubles the memory when it is full.                       *)
Grown(n) ==
  IF n <= cap THEN cap ELSE IF n <= 2 * cap THEN 2 * cap ELSE 4 * cap

(* a2_require holds a pointer into the stack while the module loads.       *)
Requiring == \E i \in DOMAIN runs : runs[i].what = "require"

(* The stack becomes s, an element added at a time.                        *)
Put(s) ==
  /\ Len(s) <= MaxTop
  /\ Len(s) <= cap \/ ~Requiring \/ "grow" \in Perils
  /\ stk' = s
  /\ cap' = Grown(Len(s))

Init ==
  /\ stk = << >> /\ cap = DefSize /\ bottom = 0
  /\ saved = << >> /\ runs = << >>
  /\ reg = [k \in Keys |-> None]
  /\ left = [k \in Keys |-> None]
  /\ handed = << >>

-----------------------------------------------------------------------------
(* C code works on its window.                                             *)

Unmoved == UNCHANGED <<bottom, saved, runs, reg, left>>

(* a2_pushnumber, a2_pushstring and the like, a2_len.                      *)
Push ==
  /\ InC /\ Unmoved /\ handed' = << >>
  /\ \E v \in Fresh : Put(Append(stk, v))

(* The element is read through a pointer when the memory may have moved.   *)
PushValue ==
  /\ InC /\ Unmoved /\ handed' = << >>
  /\ \E i \in 0 .. Size - 1 :
       \E v \in IF Len(stk) < cap THEN {At(stk, i)} ELSE Things :
         /\ Len(stk) < cap \/ "grow" \in Perils
         /\ Put(Append(stk, v))

SetValue ==
  /\ InC /\ Unmoved /\ handed' = << >>
  /\ \E i \in 0 .. Size - 1 : stk' = [stk EXCEPT ![bottom + i + 1] = stk[Len(stk)]]
  /\ UNCHANGED cap

(* a2_pop; a2_setmap and a2_delmap end with it.                            *)
Pop ==
  /\ InC /\ Unmoved /\ handed' = << >>
  /\ \E n \in 1 .. Size : stk' = SubSeq(stk, 1, Len(stk) - n)
  /\ UNCHANGED cap

(* a2_setglobal, a2_setarray and a2_setmeta take two elements.             *)
Store ==
  /\ InC /\ Unmoved /\ handed' = << >>
  /\ Size >= 2
  /\ stk' = SubSeq(stk, 1, bottom + Size - 2)
  /\ UNCHANGED cap

(* a2_getglobal and a2_getarray: the key becomes what is there.            *)
Get ==
  /\ InC /\ Unmoved /\ handed' = << >>
  /\ Size >= 1
  /\ \E v \in Fresh : stk' = [stk EXCEPT ![Len(stk)] = v]
  /\ UNCHANGED cap

(* Faulty variant of GetMap: it does not ask whether the map is there.     *)
GetMapOne ==
  /\ InC /\ Unmoved /\ handed' = << >>
  /\ Size >= 1 /\ Len(stk) >= 2
  /\ \E v \in Fresh : stk' = [stk EXCEPT ![Len(stk) - 1] = v]
  /\ UNCHANGED cap

(* a2_getmap: the map becomes what is there, and the key stays.            *)
GetMap ==
  /\ InC /\ Unmoved /\ handed' = << >>
  /\ Size >= 2
  /\ \E v \in Fresh : stk' = [stk EXCEPT ![Len(stk) - 1] = v]
  /\ UNCHANGED cap

-----------------------------------------------------------------------------
(* C code has scripts run.                                                 *)

Begun(what, key) ==
  [what |-> what, key |-> key, top |-> Size,
   cap |-> IF what = "require" THEN cap ELSE 0]

Run(what, key) ==
  /\ InC /\ Len(runs) < MaxRuns
  /\ runs' = Append(runs, Begun(what, key))
  /\ handed' = << >>
  /\ UNCHANGED <<stk, cap, bottom, saved, reg, left>>

(* a2_loadfile and a2_dostring.                                            *)
Load == Run("load", None)

(* a2_pcall: function and arguments are not removed.  It asks for the      *)
(* place of the first argument, so there must be one (a2_env.c:263).       *)
PCall ==
  /\ \E args \in 1 .. Size - 1 : At(stk, Size - args - 1) \in Values
  /\ Run("pcall", None)

Named == IF Size >= 1 THEN {stk[Len(stk)]} \cap Keys ELSE {}

(* a2_require for what is registered, and for what is not.                 *)
RequireKnown ==
  /\ InC /\ Unmoved /\ handed' = << >>
  /\ \E k \in Named : reg[k] # None /\ Put(Append(stk, reg[k]))

Unknown ==
  {k \in Named : /\ reg[k] = None
                 /\ "cycle" \in Perils \/ \A i \in DOMAIN runs : runs[i].key # k}

RequireNew == \E k \in Unknown : Run("require", k)

(* What the stack s is when a2_require has pushed its result on it: the    *)
(* first thing that the load left there, or nil.                           *)
Required(s, top) ==
  Append(s, IF Len(s) - bottom > top THEN At(s, top) ELSE Nil)

(* Faulty variant of Ended: the last thing that the load left.             *)
EndedLast(s, r) ==
  IF r.what # "require" THEN Put(s) /\ UNCHANGED reg
  ELSE /\ Put(Append(s, IF Len(s) - bottom > r.top THEN s[Len(s)] ELSE Nil))
       /\ reg' = [reg EXCEPT ![r.key] = stk'[Len(stk')]]

(* A run r ends and leaves the stack as s.  a2_require goes on: it         *)
(* registers the thing at its old top under the key it points to.          *)
Ended(s, r) ==
  IF r.what # "require" THEN Put(s) /\ UNCHANGED reg
  ELSE /\ Len(s) < cap \/ "grow" \in Perils
       /\ Put(Required(s, r.top))
       /\ \E k \in IF cap' = r.cap THEN {r.key} ELSE Keys,
             v \in IF r.top < Len(stk') - bottom THEN {At(stk', r.top)} ELSE Things :
            reg' = [reg EXCEPT ![k] = v]

(* What the load of a module leaves, by its first end.                     *)
Leaves(r, x) ==
  left' = IF r.what = "require" /\ left[r.key] = None
          THEN [left EXCEPT ![r.key] = x] ELSE left

(* The text cannot be read: a message, and no run.                         *)
LoadFails ==
  /\ InC /\ handed' = << >>
  /\ \E r \in {Begun("load", None)} \cup {Begun("require", k) : k \in Unknown} :
       /\ Ended(Append(stk, Msg), r)
       /\ Leaves(r, Msg)
  /\ UNCHANGED <<bottom, saved, runs>>

-----------------------------------------------------------------------------
(* Scripts call C functions, and end.                                      *)

(* __vm_call_cfunction to the call.                                        *)
EnterC ==
  /\ InScript
  /\ \E args \in Some(MaxWant) : Put(stk \o args)
  /\ saved' = Append(saved, [bottom |-> bottom, top |-> Len(stk)])
  /\ bottom' = Len(stk)
  /\ handed' = << >>
  /\ UNCHANGED <<runs, reg, left>>

(* Faulty variant of LeaveC: the caller's bottom is forgotten.             *)
LeaveCMoved ==
  /\ InC /\ saved # << >>
  /\ stk' = SubSeq(stk, 1, Last(saved).top)
  /\ handed' = << >>
  /\ saved' = Front(saved)
  /\ UNCHANGED <<cap, bottom, runs, reg, left>>

(* __vm_call_cfunction from the call on: the last ret elements, as many as *)
(* are wanted, and the caller's window.                                    *)
LeaveC ==
  /\ InC /\ saved # << >>
  /\ \E ret \in 0 .. Size, want \in 0 .. MaxWant :
       handed' = [i \in 1 .. want |->
                    IF i <= ret THEN At(stk, Size - ret + i - 1) ELSE Nil]
  /\ bottom' = Last(saved).bottom
  /\ stk' = SubSeq(stk, 1, Last(saved).top)
  /\ saved' = Front(saved)
  /\ UNCHANGED <<cap, runs, reg, left>>

(* _vm_return of the outermost function of a run.  The host gets nothing   *)
(* from a chunk.                                                           *)
Return ==
  /\ InScript
  /\ \E results \in Some(MaxCount) :
       LET pushed == IF Len(runs) = 1 /\ Last(runs).what # "pcall"
                     THEN << >> ELSE results
       IN  /\ Ended(stk \o pushed, Last(runs))
           /\ Leaves(Last(runs), IF pushed = << >> THEN Nil ELSE pushed[1])
  /\ runs' = Front(runs)
  /\ handed' = << >>
  /\ UNCHANGED <<bottom, saved>>

(* a2_vserror from a script: the message, and back to who had it run.      *)
ScriptFails ==
  /\ InScript
  /\ Ended(Append(stk, Msg), Last(runs))
  /\ Leaves(Last(runs), Msg)
  /\ runs' = Front(runs)
  /\ handed' = << >>
  /\ UNCHANGED <<bottom, saved>>

(* a2_vserror from a C function (a2_err, an argument of the wrong type, a  *)
(* file that is not there): it is given up together with the run that      *)
(* called it, and bottom stays where it was.                               *)
CFails ==
  /\ InC /\ saved # << >>
  /\ Last(runs).what # "require" \/ "c_error" \in Perils
  /\ Ended(Append(stk, Msg), Last(runs))
  /\ Leaves(Last(runs), Msg)
  /\ runs' = Front(runs)
  /\ saved' = Front(saved)
  /\ handed' = << >>
  /\ UNCHANGED bottom

Next ==
  \/ Push \/ PushValue \/ SetValue \/ Pop \/ Store \/ Get \/ GetMap
  \/ Load \/ PCall \/ RequireKnown \/ RequireNew \/ LoadFails
  \/ EnterC \/ LeaveC \/ Return \/ ScriptFails \/ CFails

Spec == Init /\ [][Next]_vars

-----------------------------------------------------------------------------
(* Properties.                                                             *)

(* Windows lie behind each other, whatever errors have given up, so the    *)
(* assertions of a2_setbottom and a2_settop (a2_env.c:245 and 250) hold    *)
(* whenever a C function returns.                                          *)
WindowsNest ==
  /\ stk \in Seq(Things) /\ bottom \in 0 .. Len(stk)
  /\ saved \in Seq([bottom : Nat, top : Nat])
  /\ Len(runs) \in {Len(saved), Len(saved) + 1}
  /\ \A i \in DOMAIN saved :
       /\ saved[i].bottom <= saved[i].top /\ saved[i].top <= bottom
       /\ \A j \in DOMAIN saved : i < j => saved[i].top <= saved[j].bottom

(* A module is registered once, with what its load left first: its first   *)
(* result, nil without one, the message of an error (a2_require,           *)
(* a2_state.c:252-258), however many loads go on inside of it.             *)
RegistryTrue == reg = left

(* The window of each of them, from the host's on.                         *)
Windows ==
  [i \in 1 .. Len(saved) + 1 |->
     IF i <= Len(saved) THEN SubSeq(stk, saved[i].bottom + 1, saved[i].top)
     ELSE SubSeq(stk, bottom + 1, Len(stk))]

(* The one stack serves as a stack of its own for everybody: what a C      *)
(* function, a run or an error does to it, no other window changes.        *)
Stacks == INSTANCE A2Stacks WITH own <- Windows, script <- InScript

RefinesStacks == Stacks!Spec

=============================================================================
