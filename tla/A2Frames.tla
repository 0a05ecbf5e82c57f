------------------------------ MODULE A2Frames ------------------------------
(***************************************************************************)
(* Calls, errors and captured variables in the virtual machine: the call   *)
(* chain and the register stack of src/src/a2_vm.c, the upvalues of        *)
(* src/src/a2_closure.c and the protected calls of src/src/a2_error.c.     *)
(*                                                                         *)
(* A variable lives in a register of its frame; a closure that captures it *)
(* refers to the register by its place in the stack ("stack").  When the   *)
(* frame returns, a2_closure_return moves the variable into an object and  *)
(* lets everybody who captured it refer to that ("gc").                    *)
(*                                                                         *)
(* Registers below Locals hold the variables of a function; what the       *)
(* others hold is left out.  A closure captures one variable at most.      *)
(* Blocks, whose ended variables lend their registers to later ones, and   *)
(* variable numbers of registers are not modelled.                         *)
(*                                                                         *)
(* There are five ways in which this is known to go wrong, each possible   *)
(* in the program.  faults notes those that have struck so far, at the     *)
(* very step; what a script does besides is not restricted: it calls a     *)
(* function that captures as often as it likes, captures the variables of  *)
(* a chunk, raises errors.  What the properties say of captured variables  *)
(* holds until a fault has struck, so that anything else that goes wrong   *)
(* would be a sixth.                                                       *)
(***************************************************************************)
EXTENDS Naturals, Sequences, FiniteSets, Functions

CONSTANTS
  Closures,     \* Addresses of closures; a freed one is handed out again.
  NoClosure,    \* The cls of a call of a C function (NULL).
  UvObjs,       \* Addresses of upvalue objects.
  NoUvObj,
  Activations,  \* Identities of calls of functions (history).
  NoActivation,
  NoCell,       \* What a closure sees that has captured nothing (history).
  Values,
  NoValue,      \* The content of what is not in use.
  Regs,         \* Registers of every function.
  Locals,       \* Those of them that are variables.
  MaxFrames     \* Bound of the model: length of the call chain.

AllFaults ==
  {"again",      \* A call ends that has captured a variable which an earlier
                 \* call of the closure left an object for: it gets that one.
   "recursion",  \* A closure is entered while a variable of an earlier call
                 \* of it is still captured in its register.
   "chunk",      \* A chunk that the host runs ends: its captured variables
                 \* stay where they are.
   "errors",     \* An error gives up a frame with captured variables.
   "freed"}      \* A closure is freed that has captured a variable of a
                 \* frame still running.

ASSUME NoneAssumption ==
  /\ NoClosure \notin Closures
  /\ NoUvObj \notin UvObjs
  /\ NoActivation \notin Activations
  /\ NoCell \notin [act : Activations, reg : 0 .. Locals - 1]
  /\ NoValue \notin Values

ASSUME RegsAssumption ==
  /\ Regs \in Nat
  /\ Locals \in 1 .. Regs - 1
  /\ MaxFrames \in Nat \ {0}

VARIABLES
  frames,   \* call_chain, the host's first call first.
  stack,    \* stack_frame.sf_p: what the variables of running calls hold.
  jps,      \* The chain of a2_longjump: where an error is caught.
  kind,     \* Is the address of a closure free, a function, a chunk?
  uv,       \* uv_chain[0] of a closure.
  uped,     \* uped_chain: who has captured a variable of the closure.
  udGc,     \* ud_sf_gc.ud_gc_p: the objects the variables were moved to.
  value,    \* The value in an upvalue object, NoValue when it is free.
  sees,     \* The variable a closure has captured (history).
  faults    \* The faults that have struck (history).

closures == <<kind, uv, uped, udGc, sees>>
vars == <<frames, stack, jps, kind, uv, uped, udGc, value, sees, faults>>

LocalRegs == 0 .. Locals - 1

Slots == 0 .. Regs * MaxFrames - 1

NoUv == [at |-> "none"]
OnStack(c, i) == [at |-> "stack", owner |-> c, idx |-> i]
InObject(u) == [at |-> "gc", obj |-> u]

Strikes(f, if) == faults' = faults \cup {x \in {f} : if}

-----------------------------------------------------------------------------
(* The call chain.                                                         *)

IsFunction(f) == f.cls # NoClosure

Top == frames[Len(frames)]

InFunction == frames # << >> /\ IsFunction(Top)

(* C code has control: a C function of a script, or the host.              *)
InC == ~InFunction

Running(c) == \E i \in DOMAIN frames : frames[i].cls = c

CFrame(b) == [cls |-> NoClosure, base |-> b, act |-> NoActivation]

(* Faulty variant of BaseFromC: below C code no function is looked for.    *)
BaseFromCZero == 0

(* up_stack_frame: a frame begins behind the arguments of the call         *)
(* instruction of the newest function, which is at register a and has b    *)
(* arguments.  The frame of a C function, which has no registers, has the  *)
(* same start as the next one.                                             *)
BaseFromC == IF frames = << >> THEN 0 ELSE Top.base

(* Faulty variant of BaseFromFunction: one register too far.               *)
BaseTooFar(a, b) == Top.base + a + b + 2

BaseFromFunction(a, b) == Top.base + a + b + 1

(* The registers of a call instruction: the compiler places it above the   *)
(* variables and within the registers of the function.                     *)
CallRegs ==
  {ab \in (Locals .. Regs - 1) \X (0 .. Regs - 1) : ab[1] + ab[2] < Regs}

(* stack_frame.cap: the registers of all functions of the chain.           *)
Cap(fr) == Regs * Cardinality({i \in DOMAIN fr : IsFunction(fr[i])})

LocalSlots(f) ==
  IF IsFunction(f) THEN {f.base + r : r \in LocalRegs} ELSE {}

(* Frames are taken off: nobody reads what is left in their registers.     *)
StackOf(fr) ==
  [s \in Slots |-> IF \E i \in DOMAIN fr : s \in LocalSlots(fr[i])
                   THEN stack[s] ELSE NoValue]

-----------------------------------------------------------------------------
(* Entering and leaving calls.                                             *)

Init ==
  /\ frames = << >>
  /\ stack = [s \in Slots |-> NoValue]
  /\ jps = << >>
  /\ kind = [c \in Closures |-> "free"]
  /\ uv = [c \in Closures |-> NoUv]
  /\ uped = [c \in Closures |-> {}]
  /\ udGc = [c \in Closures |-> [r \in LocalRegs |-> NoUvObj]]
  /\ value = [u \in UvObjs |-> NoValue]
  /\ sees = [c \in Closures |-> NoCell]
  /\ faults = {}

UnusedActivations ==
  Activations \ ({frames[i].act : i \in DOMAIN frames}
                   \cup {sees[c].act : c \in {d \in Closures : sees[d] # NoCell}})

(* callinfo_new for a closure: its frame is put on top of fr, and its      *)
(* variables are given their first values.                                 *)
PushFunction(fr, c, base) ==
  /\ Len(fr) < MaxFrames
  /\ Strikes("recursion", uped[c] # {})
  /\ \E a \in UnusedActivations, init \in [LocalRegs -> Values] :
       /\ frames' = Append(fr, [cls |-> c, base |-> base, act |-> a])
       /\ stack' = [s \in Slots |-> IF s \in {base + r : r \in LocalRegs}
                                    THEN init[s - base] ELSE stack[s]]

(* a2_env_load after a successful compilation: a new closure for the chunk *)
(* is run under protection (a2_vm_load).                                   *)
Load(c) ==
  /\ InC
  /\ kind[c] = "free"
  /\ PushFunction(frames, c, BaseFromC)
  /\ jps' = Append(jps, [depth |-> Len(frames) + 1, extra |-> 0])
  /\ kind' = [kind EXCEPT ![c] = "chunk"]
  /\ UNCHANGED <<uv, uped, udGc, value, sees>>

(* a2_vm_pcall: a frame without a closure, then that of the function.      *)
PCall(c) ==
  /\ InC
  /\ kind[c] = "function"
  /\ PushFunction(Append(frames, CFrame(BaseFromC)), c, BaseFromC)
  /\ jps' = Append(jps, [depth |-> Len(frames) + 2, extra |-> 1])
  /\ UNCHANGED <<closures, value>>

(* __vm_call_function.                                                     *)
Call(c) ==
  /\ InFunction
  /\ kind[c] = "function"
  /\ \E ab \in CallRegs :
       PushFunction(frames, c, BaseFromFunction(ab[1], ab[2]))
  /\ UNCHANGED <<jps, closures, value>>

(* __vm_call_cfunction, up to the call ...                                 *)
EnterC ==
  /\ InFunction
  /\ Len(frames) < MaxFrames
  /\ \E ab \in CallRegs :
       frames' = Append(frames, CFrame(BaseFromFunction(ab[1], ab[2])))
  /\ UNCHANGED <<stack, jps, closures, value, faults>>

(* ... and behind it.                                                      *)
LeaveC ==
  /\ frames # << >> /\ InC
  /\ frames' = SubSeq(frames, 1, Len(frames) - 1)
  /\ UNCHANGED <<stack, jps, closures, value, faults>>

-----------------------------------------------------------------------------
(* a2_closure_return: every variable of the frame that somebody captured   *)
(* is moved into the object noted for its register, a new one unless there *)
(* is one already, be it of an earlier call.  The order of the chain makes *)
(* no difference.  A chunk has no room for such notes (ud_gc_p is NULL):   *)
(* when one would be needed, the process ends.                             *)

RegOf(c) == uv[c].idx - Top.base

FreeUvObjs == {u \in UvObjs : value[u] = NoValue}

ToMove ==
  {r \in LocalRegs : /\ \E c \in uped[Top.cls] : RegOf(c) = r
                     /\ udGc[Top.cls][r] = NoUvObj}

(* Faulty variant of Moved: the next register is read.                     *)
MovedNext(r) == stack[Top.base + r + 1]

(* What the object for register r is given.                                *)
Moved(r) == stack[Top.base + r]

CloseUpvalues ==
  /\ kind[Top.cls] = "chunk" => uped[Top.cls] = {}
  /\ Strikes("again", \E c \in uped[Top.cls] : udGc[Top.cls][RegOf(c)] # NoUvObj)
  /\ \E new \in Injection(ToMove, FreeUvObjs) :
       LET objects == [r \in LocalRegs |->
                         IF r \in ToMove THEN new[r] ELSE udGc[Top.cls][r]]
       IN  /\ uv' = [c \in Closures |->
                       IF c \in uped[Top.cls]
                       THEN InObject(objects[RegOf(c)]) ELSE uv[c]]
           /\ uped' = [uped EXCEPT ![Top.cls] = {}]
           /\ udGc' = [udGc EXCEPT ![Top.cls] = objects]
           /\ value' = [u \in UvObjs |->
                          IF \E r \in ToMove : new[r] = u
                          THEN Moved(CHOOSE r \in ToMove : new[r] = u)
                          ELSE value[u]]

(* __vm_return_function.                                                   *)
ReturnToFunction ==
  /\ InFunction
  /\ Len(frames) > 1 /\ IsFunction(frames[Len(frames) - 1])
  /\ CloseUpvalues
  /\ frames' = SubSeq(frames, 1, Len(frames) - 1)
  /\ stack' = StackOf(frames')
  /\ UNCHANGED <<jps, kind, sees>>

(* Faulty variant of EndProtected: the chain of long jumps is left alone.  *)
EndProtectedKept ==
  LET jp == jps[Len(jps)]
  IN  /\ jps' = jps
      /\ frames' = SubSeq(frames, 1, jp.depth - 1 - jp.extra)
      /\ stack' = StackOf(frames')

(* a2_xpcall ends: its long jump is taken off the chain, and a2_vm_pcall   *)
(* takes off the frame without a closure.                                  *)
EndProtected ==
  LET jp == jps[Len(jps)]
  IN  /\ jps' = SubSeq(jps, 1, Len(jps) - 1)
      /\ frames' = SubSeq(frames, 1, jp.depth - 1 - jp.extra)
      /\ stack' = StackOf(frames')

(* _vm_return in a chunk that the host runs: nobody closes its upvalues.   *)
ReturnToHost ==
  /\ InFunction
  /\ Len(frames) = 1
  /\ EndProtected
  /\ Strikes("chunk", uped[Top.cls] # {})
  /\ UNCHANGED <<closures, value>>

(* __vm_return_cfunction, then the end of the protected run that the       *)
(* function was called by.                                                 *)
ReturnToC ==
  /\ InFunction
  /\ Len(frames) > 1 /\ ~IsFunction(frames[Len(frames) - 1])
  /\ CloseUpvalues
  /\ EndProtected
  /\ UNCHANGED <<kind, sees>>

(* a2_error: the frames are taken off by _vm_prun down to the one it began *)
(* with.  Nobody closes upvalues.                                          *)
Raise ==
  /\ jps # << >>
  /\ EndProtected
  /\ Strikes("errors", \E i \in Len(frames') + 1 .. Len(frames) :
                         IsFunction(frames[i]) /\ uped[frames[i].cls] # {})
  /\ UNCHANGED <<closures, value>>

-----------------------------------------------------------------------------
(* What a running function does with variables.                            *)

SetLocal ==
  /\ InFunction
  /\ \E r \in LocalRegs, v \in Values :
       stack' = [stack EXCEPT ![Top.base + r] = v]
  /\ UNCHANGED <<frames, jps, closures, value, faults>>

(* _vm_set_upvalue.                                                        *)
SetUpvalue ==
  /\ InFunction
  /\ \E v \in Values :
       LET w == uv[Top.cls]
       IN  \/ /\ w.at = "stack"
              /\ stack' = [stack EXCEPT ![w.idx] = v]
              /\ UNCHANGED value
           \/ /\ w.at = "gc"
              /\ value' = [value EXCEPT ![w.obj] = v]
              /\ UNCHANGED stack
  /\ UNCHANGED <<frames, jps, closures, faults>>

(* a2_closure_new.  A new closure captures nothing, ...                    *)
Make(c, w, x) ==
  /\ kind[c] = "free"
  /\ kind' = [kind EXCEPT ![c] = "function"]
  /\ uv' = [uv EXCEPT ![c] = w]
  /\ sees' = [sees EXCEPT ![c] = x]
  /\ UNCHANGED <<frames, stack, jps, udGc, value, faults>>

MakePlain(c) ==
  /\ InFunction
  /\ Make(c, NoUv, NoCell)
  /\ UNCHANGED uped

(* ... a variable of the running function (uvx_reg), ...                   *)
MakeOverLocal(c) ==
  /\ InFunction
  /\ \E r \in LocalRegs :
       Make(c, OnStack(Top.cls, Top.base + r), [act |-> Top.act, reg |-> r])
  /\ uped' = [uped EXCEPT ![Top.cls] = @ \cup {c}]

(* Faulty variants of NoteShared: the sharing closure is noted with the    *)
(* closure that makes it; it is not noted.                                 *)
NoteWithMaker(c, w) == uped' = [uped EXCEPT ![Top.cls] = @ \cup {c}]

NoteNowhere(c, w) == UNCHANGED uped

(* A closure that captures w is noted with the owner of the variable while *)
(* that is still in its register.                                          *)
NoteShared(c, w) ==
  uped' = IF w.at = "stack"
          THEN [uped EXCEPT ![w.owner] = @ \cup {c}] ELSE uped

(* ... or what the running function has captured (uvx_upvalue).            *)
MakeOverUpvalue(c) ==
  /\ InFunction
  /\ uv[Top.cls] # NoUv
  /\ Make(c, uv[Top.cls], sees[Top.cls])
  /\ NoteShared(c, uv[Top.cls])

(* A collection frees a closure that does not run (a2_closure_free), and   *)
(* its upvalue object if that is nobody else's.                            *)
Free(c) ==
  /\ kind[c] # "free" /\ ~Running(c)
  /\ Strikes("freed", \E d \in Closures : c \in uped[d])
  /\ kind' = [kind EXCEPT ![c] = "free"]
  /\ uv' = [uv EXCEPT ![c] = NoUv]
  /\ uped' = [uped EXCEPT ![c] = {}]
  /\ udGc' = [udGc EXCEPT ![c] = [r \in LocalRegs |-> NoUvObj]]
  /\ sees' = [sees EXCEPT ![c] = NoCell]
  /\ value' = [u \in UvObjs |->
                 IF \E d \in Closures \ {c} : uv[d] = InObject(u)
                 THEN value[u] ELSE NoValue]
  /\ UNCHANGED <<frames, stack, jps>>

Next ==
  \/ \E c \in Closures :
       \/ Load(c) \/ PCall(c) \/ Call(c)
       \/ MakePlain(c) \/ MakeOverLocal(c) \/ MakeOverUpvalue(c)
       \/ Free(c)
  \/ EnterC \/ LeaveC
  \/ ReturnToFunction \/ ReturnToHost \/ ReturnToC \/ Raise
  \/ SetLocal \/ SetUpvalue

Spec == Init /\ [][Next]_vars

-----------------------------------------------------------------------------
UvType ==
  {NoUv} \cup {OnStack(c, i) : c \in Closures, i \in Slots}
         \cup {InObject(u) : u \in UvObjs}

FrameType ==
  [cls : Closures \cup {NoClosure}, base : 0 .. Regs * (MaxFrames - 1),
   act : Activations \cup {NoActivation}]

TypeOK ==
  /\ frames \in Seq(FrameType) /\ Len(frames) <= MaxFrames
  /\ stack \in [Slots -> Values \cup {NoValue}]
  /\ jps \in Seq([depth : 1 .. MaxFrames, extra : {0, 1}])
  /\ kind \in [Closures -> {"free", "function", "chunk"}]
  /\ uv \in [Closures -> UvType]
  /\ uped \in [Closures -> SUBSET Closures]
  /\ udGc \in [Closures -> [LocalRegs -> UvObjs \cup {NoUvObj}]]
  /\ value \in [UvObjs -> Values \cup {NoValue}]
  /\ sees \in [Closures -> [act : Activations, reg : LocalRegs] \cup {NoCell}]
  /\ faults \subseteq AllFaults

(* None of the known faults has struck.                                    *)
Sound == faults = {}

(* The registers of every frame lie within the part of the stack that is   *)
(* in use (the assertions at a2_vm.c:29 and 160), and no frame lies on     *)
(* variables of another, however calls of functions, of C functions and    *)
(* protected calls were mixed.                                             *)
FramesFit ==
  \A i \in DOMAIN frames :
    IsFunction(frames[i]) =>
      /\ frames[i].base + Regs <= Cap(SubSeq(frames, 1, i))
      /\ \A j \in 1 .. i - 1 : LocalSlots(frames[i]) \cap LocalSlots(frames[j]) = {}

(* An error is caught by the newest protected run under way, and takes off *)
(* exactly the frames that run began with and those above: the chain of    *)
(* long jumps names, in order, the functions that C code called            *)
(* (a2_error.c:43-56, a2_vm.c:238-274).                                    *)
BegunFromC(i) ==
  IsFunction(frames[i]) /\ (i = 1 \/ ~IsFunction(frames[i - 1]))

JumpTargets ==
  /\ {jps[j].depth : j \in DOMAIN jps} = {i \in DOMAIN frames : BegunFromC(i)}
  /\ \A j, k \in DOMAIN jps : j < k => jps[j].depth < jps[k].depth
  /\ \A j \in DOMAIN jps :
       LET d == jps[j].depth
       IN  jps[j].extra = 1 <=>
             d > 1 /\ (d = 2 \/ ~IsFunction(frames[d - 2]))

(* When a function returns, everything noted in its chain is a variable    *)
(* still in a register, and in one of the frame that returns (the          *)
(* assertions at a2_closure.c:105-106 and 112 and at a2_vm.c:143-144).     *)
ClosesOwn ==
  InFunction =>
    \A c \in uped[Top.cls] :
      /\ uv[c].at = "stack"
      /\ uv[c].idx \in Top.base .. Top.base + Regs - 1

ClosesInFrame == Sound => ClosesOwn

(* A variable is looked up in the stack only while the call it belongs to  *)
(* runs, and that call will move it away: "the upvalue will set uv_gc when *)
(* the closure return" (a2_closure.c:97).                                  *)
OpenIsNoted ==
  \A c \in Closures :
    uv[c].at = "stack" =>
      /\ c \in uped[uv[c].owner]
      /\ \E i \in DOMAIN frames : /\ frames[i].cls = uv[c].owner
                                  /\ uv[c].idx \in LocalSlots(frames[i])

OpenUpvaluesNoted == Sound => OpenIsNoted

(* Closures that have captured the same variable refer to the same place,  *)
(* before and after the variable is moved, and closures that have captured *)
(* different ones, be it the same variable of two calls of a function that *)
(* runs again, to different places.                                        *)
Alike ==
  \A c, d \in Closures :
    sees[c] # NoCell /\ sees[d] # NoCell => (sees[c] = sees[d] <=> uv[c] = uv[d])

SharedAlike == Sound => Alike

(* When a call returns it closes what was captured of it and nothing else, *)
(* and what was not closed is in a frame (the comment and the assertions   *)
(* quoted above), whatever has struck.  The code does not keep this.       *)
ClosedOnReturn == ClosesOwn /\ OpenIsNoted

-----------------------------------------------------------------------------
(* The variables of A2Cells: where each of them is found.                  *)

Calls == [i \in DOMAIN frames |-> [act |-> frames[i].act, fn |-> frames[i].cls]]

FrameOf(x) == {i \in DOMAIN frames : frames[i].act = x.act}

HoldersOf(x) == {c \in Closures : sees[c] = x /\ uv[c].at = "gc"}

Content(x) ==
  IF FrameOf(x) # {}
  THEN stack[frames[CHOOSE i \in FrameOf(x) : TRUE].base + x.reg]
  ELSE IF HoldersOf(x) # {}
       THEN value[uv[CHOOSE c \in HoldersOf(x) : TRUE].obj]
       ELSE NoValue

Contents == [x \in [act : Activations, reg : LocalRegs] |-> Content(x)]

Cells == INSTANCE A2Cells
  WITH Registers <- LocalRegs, NoFunction <- NoClosure,
       running <- Calls, holds <- sees, store <- Contents

(* Until a fault strikes, captured variables behave as A2Cells promises: a *)
(* closure reads and writes the variable it captured, in its register and  *)
(* after it was moved, through returns, further calls, nested calls and    *)
(* caught errors.                                                          *)
RefinesCells ==
  Cells!Init /\ [][faults' = {} => [Cells!Next]_(Cells!vars)]_vars

=============================================================================
