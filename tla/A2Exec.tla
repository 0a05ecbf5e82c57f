------------------------------- MODULE A2Exec -------------------------------
(***************************************************************************)
(* From a parsed script to its effects: a2_parse hands statement after     *)
(* statement to the code generator (A2Ir), a2_ir_exend closes the chunk,   *)
(* and the virtual machine of src/src/a2_vm.c runs it.  What is left is    *)
(* compared with what the script means (A2Source).                         *)
(*                                                                         *)
(* Registers belong to calls (acts), and an upvalue names a call and a     *)
(* register of it: that variables of ended calls are found again is the    *)
(* subject of A2Frames.  A call begins with whatever is in its registers,  *)
(* and overwrites those of its caller above its arguments: a register of   *)
(* which nothing is known is not in the domain.  Maps keep their pairs in  *)
(* the order in which the keys came, and numbers are whole.  Meta tables   *)
(* are left out.                                                           *)
(***************************************************************************)
EXTENDS A2Ir, FiniteSets

CONSTANTS
  Compile(_, _),    \* The code generator: Exec of A2Ir, a statement at a time.
  Intent(_, _),     \* What scripts mean: Meaning of A2Source.
  Programs,         \* Scripts, in a sequence: each a sequence of statements.
  Globals,          \* The global variables they find.
  MaxCalls          \* Bound of the model: calls under way at once.

VARIABLES
  prog,     \* The number of the script.
  next,     \* How many of its statements are compiled.
  gen,      \* The state of the code generator.
  main,     \* The prototype of the chunk.
  phase,    \* "compile", "loaded", "run", "done", "error" or "rejected".
  calls,    \* call_chain: [cls, act, pc, ret, n] of each call.
  acts,     \* The registers of all calls there have been.
  closures, \* [proto, uvs]: the way to the prototype, and the upvalues.
  heap,     \* Arrays and maps.
  glob      \* The global variables.

machine == <<calls, acts, closures, heap, glob>>
vars == <<prog, next, gen, main, phase, calls, acts, closures, heap, glob>>

Source == INSTANCE A2Source

-----------------------------------------------------------------------------
(* Compilation.                                                            *)

Init ==
  /\ prog \in DOMAIN Programs
  /\ next = 0
  /\ gen = OpenIr
  /\ main = None
  /\ phase = "compile"
  /\ calls = << >> /\ acts = << >> /\ closures = << >> /\ heap = << >>
  /\ glob = Globals

(* parse_gsegment: a top level statement is compiled as soon as it is      *)
(* parsed.  An error gives up the whole chunk.                             *)
Generate ==
  /\ phase = "compile" /\ next < Len(Programs[prog])
  /\ LET s == Compile(gen, Programs[prog][next + 1])
     IN  IF s.err = ""
         THEN gen' = s /\ phase' = phase
         ELSE gen' = [OpenIr EXCEPT !.err = s.err] /\ phase' = "rejected"
  /\ next' = next + 1
  /\ UNCHANGED <<prog, main, machine>>

(* a2_ir_exend.                                                            *)
End ==
  /\ phase = "compile" /\ next = Len(Programs[prog])
  /\ main' = Exend(gen)
  /\ gen' = OpenIr
  /\ phase' = "loaded"
  /\ UNCHANGED <<prog, next, machine>>

(* a2_vm_load: the closure of the chunk is run.                            *)
LoadChunk ==
  /\ phase = "loaded"
  /\ closures' = <<[proto |-> << >>, uvs |-> << >>]>>
  /\ acts' = << << >> >>
  /\ calls' = <<[cls |-> 1, act |-> 1, pc |-> 0, ret |-> 0, n |-> 0]>>
  /\ phase' = "run"
  /\ UNCHANGED <<prog, next, gen, main, heap, glob>>

-----------------------------------------------------------------------------
(* The running call.                                                       *)

Ci == Last(calls)

(* The function inside main at the end of a way of indexes.                *)
At(way) == FoldLeft(LAMBDA p, i : p.subs[i + 1], main, way)

Proto == At(closures[Ci.cls].proto)

(* curr_ir.                                                                *)
I == Proto.code[Ci.pc + 1]

Is(ops) == phase = "run" /\ I.op \in ops

Junk == <<"junk", 0>>

RegOf(f, r) == IF r \in DOMAIN f THEN f[r] ELSE Junk

Reg(r) == RegOf(acts[Ci.act], r)

(* _getvalue: a register, or a constant.                                   *)
Operand(k) == IF k < 0 THEN Proto.consts[-k] ELSE Reg(k)

With(f, r, v) == Source!Bound(f, r, v)

Without(f, above) == [r \in {x \in DOMAIN f : x <= above} |-> f[r]]

(* jump: the address is a constant.                                        *)
Target(k) == Operand(k)[2]

AdvanceTo(pc) == calls' = [calls EXCEPT ![Len(calls)].pc = pc]

Advance == AdvanceTo(Ci.pc + 1)

Put(r, v) == acts' = [acts EXCEPT ![Ci.act] = With(@, r, v)]

(* vm_error: the run is over.                                              *)
Fail == phase' = "error" /\ UNCHANGED <<calls, acts, closures, heap, glob>>

Compiled == UNCHANGED <<prog, next, gen, main>>

(* An instruction that puts v into register a, unless v is no value.       *)
Yield(v) ==
  IF v = Source!Wrong THEN Fail
  ELSE /\ Put(I.a, v) /\ Advance
       /\ UNCHANGED <<phase, closures, heap, glob>>

-----------------------------------------------------------------------------
(* Variables and constants.                                                *)

LoadConst == Is({"LOAD"}) /\ Yield(Operand(I.b)) /\ Compiled

(* _vm_loadnil: b registers from a on.                                     *)
LoadNil ==
  /\ Is({"LOADNIL"})
  /\ acts' = [acts EXCEPT ![Ci.act] =
                FoldLeft(LAMBDA f, i : With(f, I.a + i - 1, Nil), @,
                         [i \in 1 .. I.b |-> i])]
  /\ Advance /\ Compiled
  /\ UNCHANGED <<phase, closures, heap, glob>>

Move == Is({"MOVE"}) /\ Yield(Reg(I.b)) /\ Compiled

NameOf(k) == Operand(k)[2][1]

GetGlobal ==
  /\ Is({"GETGLOBAL"})
  /\ Yield(IF NameOf(I.b) \in DOMAIN glob THEN glob[NameOf(I.b)] ELSE Source!Wrong)
  /\ Compiled

(* _vm_setglobal: the value is left in register a as well.                 *)
SetGlobal ==
  /\ Is({"SETGLOBAL"})
  /\ glob' = With(glob, NameOf(I.b), Operand(I.c))
  /\ Put(I.a, Operand(I.c)) /\ Advance /\ Compiled
  /\ UNCHANGED <<phase, closures, heap>>

Upvalue(i) == closures[Ci.cls].uvs[i + 1]

GetUpvalue ==
  /\ Is({"GETUPVALUE"})
  /\ Yield(RegOf(acts[Upvalue(I.b)[1]], Upvalue(I.b)[2]))
  /\ Compiled

SetUpvalue ==
  /\ Is({"SETUPVALUE"})
  /\ LET uv == Upvalue(I.a)
     IN  acts' = [acts EXCEPT ![uv[1]] = With(@, uv[2], Operand(I.b))]
  /\ Advance /\ Compiled
  /\ UNCHANGED <<phase, closures, heap, glob>>

-----------------------------------------------------------------------------
(* Operations.                                                             *)

(* __vm_op and _vm_ope and _vm_opl: the instructions compare types first.  *)
(* _vm_ope leaves register a alone when two truth values are compared, and *)
(* takes nil to be both equal to and different from nil.                   *)
Compared(op, l, r) ==
  CASE l[1] # r[1] -> Source!Wrong
    [] l[1] = "nil" -> Bool(TRUE)
    [] l[1] = "bool" -> Reg(I.a)
    [] OTHER -> Bool((l = r) = (op = "EQU"))

Calculated(op, l, r) ==
  IF l[1] # "num" \/ r[1] # "num" THEN Source!Wrong
  ELSE Source!Arithmetic(op, l[2], r[2])

Connected(op, l, r) ==
  IF l[1] # "bool" \/ r[1] # "bool" THEN Source!Wrong
  ELSE Bool(IF op = "OR" THEN l[2] \/ r[2] ELSE l[2] /\ r[2])

Calculations == {"ADD", "SUB", "MUL", "DIV", "BIG", "LITE", "BIGE", "LITEE"}

Operate ==
  /\ Is(Calculations \cup {"EQU", "NEQU", "OR", "AND", "CAT", "NOT", "NEG"})
  /\ LET l == Operand(I.b)
         r == Operand(I.c)
     IN  Yield(CASE I.op \in Calculations -> Calculated(I.op, l, r)
                 [] I.op \in {"EQU", "NEQU"} -> Compared(I.op, l, r)
                 [] I.op \in {"OR", "AND"} -> Connected(I.op, l, r)
                 [] I.op = "CAT" -> <<"str", Source!Text(l) \o Source!Text(r)>>
                 [] I.op = "NOT" -> Source!Denial(l)
                 [] I.op = "NEG" -> Source!Negation(l))
  /\ Compiled

-----------------------------------------------------------------------------
(* Containers.                                                             *)

NewContainer ==
  /\ Is({"NEWLIST", "NEWMAP"})
  /\ LET t == IF I.op = "NEWLIST" THEN "array" ELSE "map"
     IN  /\ heap' = Append(heap, [t |-> t, xs |-> << >>])
         /\ Put(I.a, <<t, Len(heap) + 1>>)
  /\ Advance /\ Compiled
  /\ UNCHANGED <<phase, closures, glob>>

(* _vm_setlist: c elements from register b on.                             *)
SetList ==
  /\ Is({"SETLIST"})
  /\ LET o == Reg(I.a)[2]
     IN  heap' = [heap EXCEPT ![o].xs = @ \o [i \in 1 .. I.c |-> Reg(I.b + i - 1)]]
  /\ Advance /\ Compiled
  /\ UNCHANGED <<phase, acts, closures, glob>>

(* _vm_setmap: c pairs from register b on.                                 *)
SetMap ==
  /\ Is({"SETMAP"})
  /\ LET o == Reg(I.a)[2]
         kvs == [i \in 1 .. I.c |-> <<Reg(I.b + 2 * i - 2), Reg(I.b + 2 * i - 1)>>]
     IN  heap' = [heap EXCEPT ![o] = Source!MapOf(kvs)]
  /\ Advance /\ Compiled
  /\ UNCHANGED <<phase, acts, closures, glob>>

(* _vm_getvalue.                                                           *)
GetValue ==
  /\ Is({"GETVALUE"})
  /\ LET c == Reg(I.b)
         i == Source!Find(heap, c, Operand(I.c))
     IN  Yield(IF i = 0 THEN Source!Wrong ELSE Source!ElementAt(heap[c[2]], i))
  /\ Compiled

(* _vm_setvalue: only a key that is there can be set.                      *)
SetValue ==
  /\ Is({"SETVALUE"})
  /\ LET c == Reg(I.a)
         i == Source!Find(heap, c, Operand(I.b))
     IN  IF i = 0 THEN Fail
         ELSE /\ heap' = [heap EXCEPT ![c[2]] = Source!WithElement(@, i, Operand(I.c))]
              /\ Advance
              /\ UNCHANGED <<phase, acts, closures, glob>>
  /\ Compiled

-----------------------------------------------------------------------------
(* Jumps and loops.                                                        *)

Jump ==
  /\ Is({"JUMP"})
  /\ AdvanceTo(Target(I.b)) /\ Compiled
  /\ UNCHANGED <<phase, acts, closures, heap, glob>>

Test ==
  /\ Is({"TEST"})
  /\ IF Source!Holds(Reg(I.a)) THEN Advance ELSE AdvanceTo(Target(I.b))
  /\ Compiled
  /\ UNCHANGED <<phase, acts, closures, heap, glob>>

(* _vm_forprep: index, end and step are in registers a, a + 1, a + 2.      *)
ForPrep ==
  /\ Is({"FORPREP"})
  /\ IF \E r \in I.a .. I.a + 2 : Reg(r)[1] # "num" THEN Fail
     ELSE /\ IF Reg(I.a)[2] >= Reg(I.a + 1)[2] THEN AdvanceTo(Target(I.b)) ELSE Advance
          /\ UNCHANGED <<phase, acts, closures, heap, glob>>
  /\ Compiled

ForLoop ==
  /\ Is({"FORLOOP"})
  /\ IF Reg(I.a)[1] # "num" THEN Fail
     ELSE LET i == Reg(I.a)[2] + Reg(I.a + 2)[2]
          IN  /\ Put(I.a, Num(i))
              /\ IF i < Reg(I.a + 1)[2] THEN AdvanceTo(Target(I.b)) ELSE Advance
              /\ UNCHANGED <<phase, closures, heap, glob>>
  /\ Compiled

(* Faulty variant of Following: a map gives the same element again.        *)
FollowingSame(key) ==
  LET o == heap[Reg(I.a + 2)[2]]
  IN  IF key = Nil THEN 1 ELSE Source!Place(o, key) + (IF o.t = "map" THEN 0 ELSE 1)

(* The element behind the one whose key is in register a, if there is one, *)
(* is put with its key into registers a and a + 1 (a2_array_next,          *)
(* a2_map_next).                                                           *)
Following(key) ==
  LET o == heap[Reg(I.a + 2)[2]] IN IF key = Nil THEN 1 ELSE Source!Place(o, key) + 1

Round(i) ==
  LET o == heap[Reg(I.a + 2)[2]]
  IN  acts' = [acts EXCEPT ![Ci.act] =
                 With(With(@, I.a, Source!KeyAt(o, i)), I.a + 1, Source!ElementAt(o, i))]

Elements == Len(heap[Reg(I.a + 2)[2]].xs)

ForeachPrep ==
  /\ Is({"FOREACHPREP"})
  /\ IF ~Source!IsContainer(Reg(I.a + 2)) THEN Fail
     ELSE /\ IF Elements = 0
             THEN Put(I.a, Nil) /\ AdvanceTo(Target(I.b))
             ELSE Round(1) /\ Advance
          /\ UNCHANGED <<phase, closures, heap, glob>>
  /\ Compiled

ForeachLoop ==
  /\ Is({"FOREACHLOOP"})
  /\ IF ~Source!IsContainer(Reg(I.a + 2)) THEN Fail
     ELSE LET i == Following(Reg(I.a))
          IN  /\ IF i > Elements THEN UNCHANGED acts /\ Advance
                 ELSE Round(i) /\ AdvanceTo(Target(I.b))
              /\ UNCHANGED <<phase, closures, heap, glob>>
  /\ Compiled

-----------------------------------------------------------------------------
(* Functions.                                                              *)

(* a2_closure_new: the variables captured.                                 *)
Captured(x) ==
  IF x[1] = "local" THEN <<Ci.act, x[2]>> ELSE closures[Ci.cls].uvs[x[2] + 1]

MakeClosure ==
  /\ Is({"CLOSURE"})
  /\ LET way == Append(closures[Ci.cls].proto, I.b)
         uvx == At(way).upvaluex
     IN  closures' = Append(closures, [proto |-> way,
                                       uvs |-> [i \in DOMAIN uvx |-> Captured(uvx[i])]])
  /\ Put(I.a, <<"fn", Len(closures) + 1>>) /\ Advance /\ Compiled
  /\ UNCHANGED <<phase, heap, glob>>

Args == [i \in 1 .. I.b |-> Reg(I.a + i)]

(* Faulty variant of Parameters: missing arguments are left as they are.   *)
ParametersBare(n) ==
  [r \in 0 .. (IF I.b < n THEN I.b ELSE n) - 1 |-> Args[r + 1]]

Parameters(n) == [r \in 0 .. n - 1 |-> Source!Padded(Args, n)[r + 1]]

(* __vm_call_function: a frame behind the arguments, with the parameters   *)
(* set, and with the other arguments in an array if it wants them.         *)
CallFunction ==
  /\ Is({"CALL"}) /\ Reg(I.a)[1] = "fn"
  /\ Len(calls) < MaxCalls
  /\ LET f == Reg(I.a)[2]
         p == At(closures[f].proto).params
         n == IF p < 0 THEN -1 - p ELSE p
         rest == p < 0 /\ I.b > n
         extra == IF rest THEN <<"array", Len(heap) + 1>> ELSE Nil
         regs == IF p < 0 THEN With(Parameters(n), n, extra) ELSE Parameters(n)
     IN  /\ calls' = Append([calls EXCEPT ![Len(calls)].pc = @ + 1],
                            [cls |-> f, act |-> Len(acts) + 1, pc |-> 0,
                             ret |-> I.a, n |-> I.c])
         /\ acts' = Append([acts EXCEPT ![Ci.act] = Without(@, I.a + I.b)], regs)
         /\ heap' = IF rest
                    THEN Append(heap, [t |-> "array", xs |-> SubSeq(Args, n + 1, I.b)])
                    ELSE heap
  /\ Compiled
  /\ UNCHANGED <<phase, closures, glob>>

(* The results vs go into registers from r on, as many as are wanted.      *)
Results(f, r, n, vs) ==
  FoldLeft(LAMBDA g, i : With(g, r + i - 1, Source!Padded(vs, n)[i]), f,
           [i \in 1 .. n |-> i])

(* __vm_call_cfunction, for a function of the host that returns its        *)
(* arguments.                                                              *)
CallCFunction ==
  /\ Is({"CALL"}) /\ Reg(I.a)[1] = "cfn"
  /\ acts' = [acts EXCEPT ![Ci.act] = Results(@, I.a, I.c, Args)]
  /\ Advance /\ Compiled
  /\ UNCHANGED <<phase, closures, heap, glob>>

CallWrong == Is({"CALL"}) /\ Reg(I.a)[1] \notin {"fn", "cfn"} /\ Fail /\ Compiled

(* __vm_return_function.                                                   *)
ReturnToFunction ==
  /\ Is({"RETURN"}) /\ Len(calls) > 1
  /\ LET up == calls[Len(calls) - 1]
         vs == [i \in 1 .. I.b |-> Reg(I.a + i - 1)]
     IN  acts' = [acts EXCEPT ![up.act] = Results(@, Ci.ret, Ci.n, vs)]
  /\ calls' = Front(calls)
  /\ Compiled
  /\ UNCHANGED <<phase, closures, heap, glob>>

(* _vm_return from the chunk.                                              *)
ReturnToHost ==
  /\ Is({"RETURN"}) /\ Len(calls) = 1
  /\ phase' = "done"
  /\ Compiled
  /\ UNCHANGED machine

(* a2_vm_run.                                                              *)
Run ==
  \/ LoadChunk
  \/ LoadConst \/ LoadNil \/ Move \/ GetGlobal \/ SetGlobal \/ GetUpvalue \/ SetUpvalue
  \/ Operate \/ NewContainer \/ SetList \/ SetMap \/ GetValue \/ SetValue
  \/ Jump \/ Test \/ ForPrep \/ ForLoop \/ ForeachPrep \/ ForeachLoop
  \/ MakeClosure \/ CallFunction \/ CallCFunction \/ CallWrong
  \/ ReturnToFunction \/ ReturnToHost

Next == Generate \/ End \/ Run

(* One thread executes instruction after instruction, and nothing else can *)
(* hold it up.                                                             *)
Spec == Init /\ [][Next]_vars /\ WF_vars(Run)

-----------------------------------------------------------------------------
(* Properties.                                                             *)

(* Between statements the generator is where a block is: no jump waits for *)
(* its loop, one scope is open, and a register is taken for each local     *)
(* variable of the chunk and for nothing else (the arg_cap that            *)
(* _a2_ir_exec restores).  No assertion of the generator has failed on the *)
(* way (a2_ir.c:283, 1113 and 1127).                                       *)
Balanced ==
  /\ gen.err # "assertion"
  /\ Len(gen.chain) = 1
  /\ LET f == Curr(gen)
     IN  /\ Len(f.syms) = 1
         /\ f.fs = << >>
         /\ f.arg_cap = Cardinality(DOMAIN f.syms[1])
         /\ f.arg_cap <= f.max_arg

(* All prototypes inside p, and p.                                         *)
RECURSIVE Protos(_)
Protos(p) == {p} \cup UNION {Protos(p.subs[i]) : i \in DOMAIN p.subs}

Narrow == {"CALL", "GETVALUE", "SETVALUE", "SETGLOBAL", "SETLIST", "SETMAP"}
            \cup Calculations \cup {"EQU", "NEQU", "OR", "AND", "CAT"}

Jumps == {"JUMP", "TEST", "FORPREP", "FORLOOP", "FOREACHPREP", "FOREACHLOOP"}

(* Every operand fits into its field of the instruction word (a2_ir.h:     *)
(* 11-32), whatever the number of constants and variables: a register into *)
(* any field, since ARG_MAX is no more than B_MAX, and a constant into one *)
(* of B_SIZE bits only if the tests for it were made.                      *)
OperandsEncodable ==
  phase = "loaded" =>
    \A p \in Protos(main) : \A n \in DOMAIN p.code :
      LET i == p.code[n]
          last == -1 - (IF i.op \in Narrow THEN BMax ELSE BxMax)
      IN  i.a \in 0 .. ArgMax /\ {i.b, i.c} \subseteq last .. ArgMax

(* The registers that instruction i reads or writes.                       *)
Touched(i) ==
  CASE i.op \in {"FORPREP", "FORLOOP", "FOREACHPREP", "FOREACHLOOP"} -> i.a .. i.a + 2
    [] i.op = "CALL" -> i.a .. i.a + i.b \cup i.a .. i.a + i.c - 1
    [] i.op = "RETURN" -> i.a .. i.a + i.b - 1
    [] i.op = "LOADNIL" -> i.a .. i.a + i.b - 1
    [] i.op = "SETLIST" -> {i.a} \cup i.b .. i.b + i.c - 1
    [] i.op = "SETMAP" -> {i.a} \cup i.b .. i.b + 2 * i.c - 1
    [] i.op = "SETUPVALUE" -> {i.b}
    [] i.op = "JUMP" -> {}
    [] i.op \in {"CLOSURE", "GETUPVALUE", "TEST"} -> {i.a}
    [] OTHER -> {i.a, i.b, i.c}

(* A function is compiled for a frame of its own: every register that an   *)
(* instruction touches is in the frame, every constant, upvalue and inner  *)
(* function it names exists, and every jump leads to an instruction (the   *)
(* assertions at a2_vm.c:31 and 38, a2_xclosure.h and a2_closure.c:48).    *)
CodeFits ==
  phase = "loaded" =>
    \A p \in Protos(main) :
      /\ \A n \in DOMAIN p.code :
           LET i == p.code[n]
           IN  /\ \A r \in Touched(i) :
                    r \in 0 .. p.regs - 1 \/ -r \in DOMAIN p.consts
               /\ i.op \in Jumps =>
                    /\ -i.b \in DOMAIN p.consts
                    /\ p.consts[-i.b][1] = "addr"
                    /\ p.consts[-i.b][2] \in 0 .. Len(p.code) - 1
               /\ i.op = "CLOSURE" => i.b + 1 \in DOMAIN p.subs
               /\ i.op = "GETUPVALUE" => i.b + 1 \in DOMAIN p.upvaluex
               /\ i.op = "SETUPVALUE" => i.a + 1 \in DOMAIN p.upvaluex
      /\ \A q \in DOMAIN p.subs : \A u \in DOMAIN p.subs[q].upvaluex :
           LET x == p.subs[q].upvaluex[u]
           IN  IF x[1] = "local" THEN x[2] < p.regs ELSE x[2] < Len(p.upvaluex)

(* The registers that the instruction about to run takes a value from.     *)
Read ==
  CASE I.op \in {"FORPREP", "FORLOOP"} -> I.a .. I.a + 2
    [] I.op = "FOREACHPREP" -> {I.a + 2}
    [] I.op = "FOREACHLOOP" -> {I.a, I.a + 2}
    [] I.op = "CALL" -> I.a .. I.a + I.b
    [] I.op = "RETURN" -> I.a .. I.a + I.b - 1
    [] I.op = "SETLIST" -> {I.a} \cup I.b .. I.b + I.c - 1
    [] I.op = "SETMAP" -> {I.a} \cup I.b .. I.b + 2 * I.c - 1
    [] I.op = "SETVALUE" -> {I.a, I.b, I.c}
    [] I.op = "TEST" -> {I.a}
    [] I.op \in {"MOVE", "NOT", "NEG", "SETUPVALUE"} -> {I.b}
    [] I.op \in Narrow -> {I.b, I.c}
    [] OTHER -> {}

(* No instruction takes a value from a register that nothing was put into  *)
(* during this call, or that a call has overwritten since: what such a     *)
(* register holds depends on what ran before.                              *)
NoJunkRead ==
  phase = "run" => \A r \in Read : r < 0 \/ r \in DOMAIN acts[Ci.act]

(* A script that was not rejected leaves behind what it means, and fails   *)
(* exactly if it means to.                                                 *)
Means ==
  phase \in {"done", "error"} =>
    Source!Outcome(phase = "done", heap, glob) = Intent(Programs[prog], Globals)

(* What a loaded script starts comes to an end: the jumps of its branches  *)
(* and loops are where they were meant to be.                              *)
Terminates == phase = "loaded" ~> phase \in {"done", "error"}

=============================================================================
