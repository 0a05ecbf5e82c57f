-------------------------------- MODULE A2Ir --------------------------------
(***************************************************************************)
(* The code generator of src/src/a2_ir.c as operators: from the syntax     *)
(* tree of a statement to register code.                                   *)
(*                                                                         *)
(* A state of the generator is                                             *)
(*   chain  cls_sym_chain: the functions being compiled, the innermost     *)
(*          first (a cls_sym together with its a2_xclosure)                *)
(*   r      what the latest operation returned: a register, or a constant, *)
(*          whose numbers are negative                                     *)
(*   vt     the kind of the variable that get_symbol found                 *)
(*   err    why compilation was given up, "" if it was not                 *)
(* Line numbers and the encoding of an instruction in a word are left out; *)
(* the widths of its fields are not.                                       *)
(***************************************************************************)
EXTENDS A2Nodes, Integers, Sequences, SequencesExt

CONSTANTS
  ArgMax,   \* ARG_MAX = A_MAX: limit of the variables and registers.
  BMax,     \* B_MAX = C_MAX: the last constant that fits in an operand.
  BxMax     \* BX_MAX: limit of the constants of a function.

-----------------------------------------------------------------------------
(* The state of the generator.                                             *)

(* cls_sym_new, a2_xclosure_new and new_clssym, with the scope of the      *)
(* parameters; the map of constants is what consts says.                   *)
NewClsSym ==
  [syms |-> << << >> >>, consts |-> << >>, code |-> << >>, upvaluex |-> << >>,
   subs |-> << >>, params |-> 0, arg_cap |-> 0, max_arg |-> 0,
   fs |-> << >>, fh |-> 0]

OpenIr == [chain |-> <<NewClsSym>>, r |-> 0, vt |-> "", err |-> ""]

Curr(S) == Head(S.chain)

Arg(S) == Curr(S).arg_cap

Gives(S, r) == [S EXCEPT !.r = r]

IrError(S, why) == [S EXCEPT !.err = IF @ = "" THEN why ELSE @]

(* An assert of the generator; where it fails, the program ends.           *)
Require(S, holds) == IF holds THEN S ELSE IrError(S, "assertion")

(* Op for each of xs in turn; a2_error does not come back.                 *)
Steps(Op(_, _), S, xs) ==
  LET after[i \in 0 .. Len(xs)] ==
        IF i = 0 THEN S
        ELSE LET s == after[i - 1] IN IF s.err = "" THEN Op(s, xs[i]) ELSE s
  IN  after[Len(xs)]

(* xclosure_curr_iraddr.                                                   *)
Here(S) == Len(Curr(S).code)

(* xclosure_add_ir; an instruction with one wide operand has it in b.      *)
AddIr(S, op, a, b, c) ==
  [S EXCEPT !.chain[1].code = Append(@, [op |-> op, a |-> a, b |-> b, c |-> c])]

(* xclosure_seek_ir, and the instruction there is completed.               *)
Patch(S, addr, b) == [S EXCEPT !.chain[1].code[addr + 1].b = b]

(* Faulty variant of AddArg: the most registers in use are not noted.      *)
AddArgUnnoted(S) ==
  [IF Arg(S) >= ArgMax - 1 THEN IrError(S, "too many variables") ELSE S
     EXCEPT !.r = Arg(S), !.chain[1].arg_cap = @ + 1]

AddArg(S) ==
  LET n == Arg(S)
  IN  [IF n >= ArgMax - 1 THEN IrError(S, "too many variables") ELSE S
         EXCEPT !.r = n, !.chain[1].arg_cap = n + 1,
                !.chain[1].max_arg = IF n + 1 > @ THEN n + 1 ELSE @]

SetArg(S, i) ==
  [Require(S, i \in 0 .. ArgMax - 1)
     EXCEPT !.chain[1].arg_cap = i,
            !.chain[1].max_arg = IF i > @ THEN i ELSE @]

(* new_symbol and free_symbol.                                             *)
OpenScope(S) == [S EXCEPT !.chain[1].syms = Append(@, << >>)]
CloseScope(S) == [S EXCEPT !.chain[1].syms = Front(@)]

Bind(syms, name, vt, i) ==
  [n \in DOMAIN syms \cup {name} |-> IF n = name THEN <<vt, i>> ELSE syms[n]]

(* add_csymbol, with the limit of xclosure_push_cstack.                    *)
AddConst(S, v) ==
  LET consts == Curr(S).consts
  IN  IF Contains(consts, v)
      THEN Gives(S, -(CHOOSE i \in DOMAIN consts : consts[i] = v))
      ELSE IF Len(consts) >= BxMax THEN IrError(S, "too many constants")
      ELSE [S EXCEPT !.chain[1].consts = Append(@, v), !.r = -1 - Len(consts)]

(* is_Blimit and is_Climit: a constant too far down for an operand.        *)
Limit(k) == k < 0 /\ -1 - k > BMax

(* Faulty variant of Fit: the test is one off.                             *)
FitLate(S, k) ==
  IF k < 0 /\ -1 - k > BMax + 1
  THEN LET s == AddArg(S) IN AddIr(s, "LOAD", s.r, k, 0) ELSE Gives(S, k)

(* What goes into an operand for k: such a constant is loaded first.       *)
Fit(S, k) ==
  IF Limit(k) THEN LET s == AddArg(S) IN AddIr(s, "LOAD", s.r, k, 0)
              ELSE Gives(S, k)

-----------------------------------------------------------------------------
(* Names.                                                                  *)

(* add_lsymbol.                                                            *)
AddLocal(S, name) ==
  LET syms == Curr(S).syms
      d == Len(syms)
      s == IF name \in DOMAIN syms[d] /\ syms[d][name][1] = "local"
           THEN IrError(S, "volatile")
           ELSE [S EXCEPT !.chain[1].syms[d] = Bind(@, name, "local", Arg(S))]
  IN  AddArg(s)

(* The innermost scope of function f that binds name, 0 if there is none.  *)
ScopeOf(f, name) ==
  LET ds == {d \in DOMAIN f.syms : name \in DOMAIN f.syms[d]}
  IN  IF ds = {} THEN 0 ELSE CHOOSE d \in ds : \A x \in ds : x <= d

(* Faulty variant of Outer: functions in between take the number of a      *)
(* register for that of an upvalue.                                        *)
OuterDirect(S, j, p, found) == <<found[1], found[2]>>

(* What function j of the chain captures of the next one out, so that in   *)
(* the end it reaches what function p binds the name to: the upvalue that  *)
(* one is about to be given, or the variable itself.                       *)
Outer(S, j, p, found) ==
  IF j + 1 = p THEN found
  ELSE <<"upvalue", Len(S.chain[j + 1].upvaluex)>>

(* get_symbol.  A name bound further out becomes an upvalue of every       *)
(* function in between; a name bound nowhere is that of a global variable. *)
GetSymbol(S, name) ==
  LET f == Curr(S)
      d == ScopeOf(f, name)
      ps == {p \in 2 .. Len(S.chain) : ScopeOf(S.chain[p], name) # 0}
  IN  IF d # 0
      THEN [S EXCEPT !.vt = f.syms[d][name][1], !.r = f.syms[d][name][2]]
      ELSE IF ps = {} THEN [AddConst(S, Str(name)) EXCEPT !.vt = "global"]
      ELSE LET p == CHOOSE q \in ps : \A x \in ps : q <= x
               found == S.chain[p].syms[ScopeOf(S.chain[p], name)][name]
               Capture(j) ==
                 [S.chain[j] EXCEPT
                    !.upvaluex = Append(@, Outer(S, j, p, found)),
                    !.syms[1] = Bind(@, name, "upvalue", Len(S.chain[j].upvaluex))]
           IN  [S EXCEPT !.vt = "upvalue", !.r = Len(f.upvaluex),
                         !.chain = [j \in 1 .. p - 1 |-> Capture(j)]
                                     \o SubSeq(@, p, Len(@))]

-----------------------------------------------------------------------------
(* Expressions.  Exp puts the value of e into register des where it can,   *)
(* into a new register if des is negative, and returns where the value is. *)

RECURSIVE Exp(_, _, _), Function(_, _, _), FuncCall(_, _, _), Comm(_, _),
          Chm(_, _, _, _, _), WVar(_, _, _), Ass(_, _), Exec(_, _), Segment(_, _)

Dest(S, des) == IF des < 0 THEN AddArg(S) ELSE Gives(S, des)

(* OP_IR of _a2_ir_exp: the operands, then the operation.                  *)
Operation(S, e, des) ==
  LET b == Arg(S)
      left == Exp(S, e.l, -1)
      right == Exp(left, e.r, -1)
      l == Fit(right, left.r)
      r == Fit(l, right.r)
  IN  IF des < 0
      THEN Gives(SetArg(AddIr(r, e.op, b, l.r, r.r), b + 1), b)
      ELSE Gives(SetArg(AddIr(r, e.op, des, l.r, r.r), b), des)

(* a2_ir_not and a2_ir_neg.                                                *)
Unary(S, e, op, des) ==
  LET v == Exp(S, e.e, des) IN Gives(AddIr(v, op, des, v.r, 0), des)

(* a2_ir_var.                                                              *)
Var(S, name, des) ==
  LET s == GetSymbol(S, name)
  IN  CASE s.vt = "global" -> Gives(AddIr(s, "GETGLOBAL", des, s.r, 0), des)
        [] s.vt = "upvalue" -> Gives(AddIr(s, "GETUPVALUE", des, s.r, 0), des)
        [] s.vt = "local" -> s

(* What is pushed for an element of a list: a constant is loaded, and what *)
(* has a register already is copied, if it lies below the new one.         *)
Load(S, r, below) ==
  IF r < 0 THEN LET s == AddArg(S) IN AddIr(s, "LOAD", s.r, r, 0)
  ELSE IF r < below THEN AddIr(S, "MOVE", Arg(S) - 1, r, 0) ELSE S

(* _a2_ir_comm: a list of expressions into consecutive registers.          *)
Comm(S, es) ==
  Steps(LAMBDA s, e : LET v == Exp(s, e, -1) IN Load(v, v.r, Arg(s)), S, es)

(* a2_ir_array.                                                            *)
ArrayExp(S, es, des) ==
  LET b == Arg(S)
      s == Comm(AddIr(S, "NEWLIST", des, 0, 0), es)
      t == IF es = << >> THEN s ELSE AddIr(s, "SETLIST", des, b, Len(es))
  IN  Gives(SetArg(t, b), des)

(* a2_ir_map; kvs are pairs of a constant and an expression.               *)
MapExp(S, kvs, des) ==
  LET b == Arg(S)
      Pair(s, kv) == LET k == AddConst(s, kv[1])
                         v == Exp(Load(k, k.r, 0), kv[2], -1)
                     IN  Load(v, v.r, Arg(v) - 1)
      s == Steps(Pair, AddIr(S, "NEWMAP", des, 0, 0), kvs)
  IN  Gives(SetArg(AddIr(s, "SETMAP", des, b, Len(kvs)), b), des)

(* _cma_get, and _cma_set, where what is set is in des.                    *)
Access(S, f, ctn, key, des) ==
  LET k == Fit(S, key)
      v == Fit(k, des)
  IN  IF f = "get" THEN AddIr(k, "GETVALUE", des, ctn, k.r)
                   ELSE AddIr(v, "SETVALUE", ctn, k.r, v.r)

(* a2_ir_chi ("c.name", whatever c) and a2_ir_cma ("c[key]"): the          *)
(* container is looked up by way of register ldes.                         *)
Chm(S, e, ldes, des, f) ==
  LET c == IF e.t = "chi" /\ e.c.t = "chi" THEN Chm(S, e.c, ldes, des, "get")
           ELSE Exp(S, e.c, ldes)
      k == IF e.t = "chi" THEN AddConst(c, Str(e.k)) ELSE Exp(c, e.k, -1)
  IN  Gives(SetArg(Access(k, f, c.r, k.r, des), Arg(S)), des)

(* _a2_ir_exp.                                                             *)
Exp(S, e, des) ==
  LET d == Dest(S, des)
  IN  CASE e.t = "const" -> AddConst(S, e.v)
        [] e.t = "op" -> Operation(S, e, des)
        [] e.t = "var" -> Var(d, e.name, d.r)
        [] e.t = "neg" -> Unary(d, e, "NEG", d.r)
        [] e.t = "not" -> Unary(d, e, "NOT", d.r)
        [] e.t = "map" -> MapExp(d, e.kvs, d.r)
        [] e.t = "array" -> ArrayExp(d, e.es, d.r)
        [] e.t \in {"chi", "cma"} -> Chm(d, e, d.r, d.r, "get")
        [] e.t = "func" -> Function(d, e, d.r)
        [] e.t = "cfunc" -> FuncCall(S, e, 1)
        [] e.t = "ass" -> Ass(S, e)

(* Faulty variant of FuncCall: the place of the result is not reserved     *)
(* while the arguments are evaluated.                                      *)
FuncCallLow(S, e, n) ==
  LET b == Arg(S)
      f == Exp(S, e.f, -1)
      g == IF f.r < b THEN AddIr(f, "MOVE", b, f.r, 0) ELSE f
      a == Comm(SetArg(g, b), e.args)
      s == AddIr(a, "CALL", b, Len(e.args), n)
  IN  Gives(SetArg([s EXCEPT !.chain[1].max_arg = @ + n], b + 1), b)

(* a2_ir_funccall: n results are wanted.                                   *)
FuncCall(S, e, n) ==
  LET b == Arg(S)
      f == Exp(S, e.f, -1)
      g == IF f.r < b THEN AddIr(f, "MOVE", b, f.r, 0) ELSE f
      a == Comm(SetArg(g, b + 1), e.args)
      s == AddIr(IF Len(e.args) >= BMax THEN IrError(a, "too many arguments") ELSE a,
                 "CALL", b, Len(e.args), n)
  IN  Gives(SetArg([s EXCEPT !.chain[1].max_arg = @ + n], b + 1), b)

(* a2_ir_function: the body is compiled in a chain that is one longer; a   *)
(* function with a name is assigned to that global variable.               *)
Function(S, e, des) ==
  LET b == Arg(S)
      open == [S EXCEPT !.chain = <<NewClsSym>> \o @]
      ps == Steps(LAMBDA s, p : AddLocal(s, p), open, e.params)
      params == IF e.va THEN -1 - Len(e.params) ELSE Len(e.params)
      args == [IF e.va THEN AddLocal(ps, "_args") ELSE ps
                 EXCEPT !.chain[1].params = params]
      body == AddIr(Segment(args, e.body), "RETURN", 0, 0, 0)
      f == Curr(body)
      proto == [code |-> f.code, consts |-> f.consts, upvaluex |-> f.upvaluex,
                subs |-> f.subs, params |-> f.params, regs |-> f.max_arg]
      n == Len(body.chain[2].subs)
      back == [body EXCEPT !.chain = [Tail(@) EXCEPT ![1].subs = Append(@, proto)]]
      made == AddIr(back, "CLOSURE", des, n, 0)
      name == AddConst(made, Str(e.name))
      k == Fit(name, name.r)
      done == IF e.name = "" THEN made ELSE AddIr(k, "SETGLOBAL", des, k.r, des)
  IN  Gives(SetArg(done, b), des)

-----------------------------------------------------------------------------
(* Assignments.                                                            *)

(* What is assigned: an expression (_rv_ass), or the register of one of    *)
(* several values (_rv_mass).                                              *)
InReg(r) == [t |-> "reg", r |-> r]

Right(S, right, des) == IF right.t = "reg" THEN Gives(S, right.r) ELSE Exp(S, right, des)

(* Faulty variant of ToLocal: registers of what was assigned are kept.     *)
ToLocalKeeps(S, i, right) ==
  LET v == Right(S, right, i)
      s == CASE v.r < 0 -> AddIr(v, "LOAD", i, v.r, 0)
             [] v.r >= 0 /\ v.r # i -> AddIr(v, "MOVE", i, v.r, 0)
             [] OTHER -> v
  IN  Gives(s, i)

ToLocal(S, i, right) ==
  LET b == Arg(S)
      v == Right(S, right, i)
      s == CASE v.r < 0 -> AddIr(v, "LOAD", i, v.r, 0)
             [] v.r >= 0 /\ v.r # i -> AddIr(v, "MOVE", i, v.r, 0)
             [] OTHER -> v
  IN  Gives(SetArg(s, b), i)

ToUpvalue(S, i, right) ==
  LET b == Arg(S)
      v == Right(S, right, -1)
      s == AddIr(v, "SETUPVALUE", i, v.r, 0)
  IN  Gives(IF Arg(s) - b > 1 THEN SetArg(s, b + 1) ELSE s, v.r)

ToGlobal(S, i, right) ==
  LET b == Arg(S)
      v == Right(S, right, -1)
      k == Fit(v, i)
      w == Fit(k, v.r)
  IN  Gives(SetArg(AddIr(w, "SETGLOBAL", b, k.r, w.r), b + 1), b)

ToContainer(S, e, right) ==
  LET b == Arg(S)
      v == Right(S, right, -1)
      d == AddArg(v)
      s == Chm(d, e, d.r, v.r, "set")
  IN  IF s.r < b THEN SetArg(s, b)
      ELSE Gives(SetArg(IF s.r > b THEN AddIr(s, "MOVE", b, s.r, 0) ELSE s, b + 1), b)

(* a2_ir_wvar.                                                             *)
WVar(S, left, right) ==
  IF left.t # "var" THEN ToContainer(S, left, right)
  ELSE LET s == GetSymbol(S, left.name)
       IN  CASE s.vt = "global" -> ToGlobal(s, s.r, right)
             [] s.vt = "local" -> ToLocal(s, s.r, right)
             [] s.vt = "upvalue" -> ToUpvalue(s, s.r, right)

(* _a2_ir_mass: several variables, from a call or from a list.             *)
Mass(S, lefts, right) ==
  LET b == Arg(S)
      values == CASE right.t = "cfunc" -> SetArg(FuncCall(S, right, Len(lefts)), b)
                  [] right.t = "comma" -> Comm(S, right.es)
                  [] right.t \notin {"cfunc", "comma"} -> Require(S, FALSE)
      count == CASE right.t = "cfunc" -> Len(lefts)
                 [] right.t = "comma" -> Len(right.es)
                 [] right.t \notin {"cfunc", "comma"} -> 0
      rb == Arg(values)
      n == IF count < Len(lefts) THEN count ELSE Len(lefts)
      Step(s, i) == SetArg(WVar(s, lefts[i], InReg(b + i - 1)), rb)
      all == Steps(Step, Gives(values, -1), [i \in 1 .. n |-> i])
      s == Require(all, all.r \in 0 .. rb)
  IN  IF s.r > b THEN Gives(SetArg(AddIr(s, "MOVE", b, s.r, 0), b + 1), b)
                 ELSE SetArg(s, b)

(* a2_ir_ass.                                                              *)
Ass(S, e) == IF e.l.t = "comma" THEN Mass(S, e.l.es, e.r) ELSE WVar(S, e.l, e.r)

-----------------------------------------------------------------------------
(* Statements.                                                             *)

(* Faulty variant of Local: nobody makes the variables nil.                *)
LocalUnset(S, decls) ==
  LET Decl(s, d) == LET v == AddLocal(s, d[1])
                    IN  IF d[2] = None THEN v
                        ELSE WVar(v, [t |-> "var", name |-> d[1]], d[2])
  IN  Steps(Decl, S, decls)

(* a2_ir_local; decls are pairs of a name and an expression or None.       *)
Local(S, decls) ==
  LET bare == \E i \in DOMAIN decls : decls[i][2] = None
      Decl(s, d) == LET v == AddLocal(s, d[1])
                    IN  IF d[2] = None THEN v
                        ELSE WVar(v, [t |-> "var", name |-> d[1]], d[2])
  IN  Steps(Decl, IF bare THEN AddIr(S, "LOADNIL", Arg(S), Len(decls), 0) ELSE S,
               decls)

(* a2_ir_return.                                                           *)
Return(S, e) ==
  LET b == Arg(S)
      v == Exp(S, e, -1)
      w == IF v.r < 0 THEN Load(v, v.r, 0) ELSE v
      list == Comm(S, e.es)
  IN  CASE e.t = "none" -> AddIr(S, "RETURN", 0, 0, 0)
        [] e.t = "comma" -> AddIr(list, "RETURN", b, Len(e.es), 0)
        [] OTHER -> SetArg(AddIr(w, "RETURN", IF v.r < 0 THEN w.r ELSE v.r, 1, 0), b)

(* a2_ir_break (a = 0) and a2_ir_continue (a = 1): a jump is left to the   *)
(* end of the loop.  That there is a loop is read from fh, which no loop   *)
(* takes anything off again.                                               *)
Leave(S, a) ==
  LET s == IF Curr(S).fh = 0 THEN IrError(S, "not in a loop") ELSE S
  IN  [AddIr(s, "JUMP", a, 0, 0) EXCEPT !.chain[1].fs = Append(@, Here(s))]

(* Faulty variant of PatchLeaves: the jumps of the loops around are        *)
(* completed too.                                                          *)
PatchLeavesAll(S, from, end, again) ==
  LET Complete(s, at) ==
        Patch(s, at, IF Curr(s).code[at + 1].a = 0 THEN end ELSE again)
      fs == Curr(S).fs
  IN  [Steps(Complete, S, fs) EXCEPT !.chain[1].fs = << >>]

(* The jumps noted since the loop began are completed and forgotten.       *)
PatchLeaves(S, from, end, again) ==
  LET Complete(s, at) ==
        Patch(s, at, IF Curr(s).code[at + 1].a = 0 THEN end ELSE again)
      fs == Curr(S).fs
  IN  [Steps(Complete, S, SubSeq(fs, from + 1, Len(fs)))
         EXCEPT !.chain[1].fs = SubSeq(@, 1, from)]

(* The common part of a2_ir_for and a2_ir_foreach, from the prepare        *)
(* instruction on; b and from are the registers and the jumps before it.   *)
Loop(S, prep, again, b, from, body) ==
  LET at == Here(S)
      begun == AddConst(AddIr(S, prep, b, 0, 0), Addr(at + 1))
      inside == [begun EXCEPT !.chain[1].fh = @ + 1]
      last == AddIr(Segment(inside, body), again, b, begun.r, 0)
      closed == SetArg(CloseScope(last), b)
      end == AddConst(closed, Addr(Here(last)))
      redo == AddConst(end, Addr(Here(last) - 1))
  IN  PatchLeaves(Patch(redo, at, end.r), from, end.r, redo.r)

(* a2_ir_foreach.                                                          *)
Foreach(S, e) ==
  LET b == Arg(S)
      vars == AddLocal(AddLocal(OpenScope(S), e.k), e.v)
      d == AddArg(vars)
      c == Exp(d, e.c, d.r)
      s == IF c.r < b + 2 THEN AddIr(c, "MOVE", Arg(c) - 1, c.r, 0) ELSE c
  IN  Loop(s, "FOREACHPREP", "FOREACHLOOP", b, Len(Curr(S).fs), e.body)

(* a2_ir_for.                                                              *)
For(S, e) ==
  LET b == Arg(S)
      var == AddLocal(OpenScope(S), e.var)
      init == WVar(var, [t |-> "var", name |-> e.var], e.init)
      d == AddArg(init)
      c == Exp(d, e.count, d.r)
      count == CASE c.r < 0 -> AddIr(c, "LOAD", Arg(c) - 1, c.r, 0)
                 [] c.r >= 0 /\ c.r < b + 1 -> AddIr(c, "MOVE", Arg(c) - 1, c.r, 0)
                 [] OTHER -> c
      step == AddConst(count, e.step)
  IN  Loop(Load(step, step.r, 0), "FORPREP", "FORLOOP", b, Len(Curr(S).fs), e.body)

(* a2_ir_if.                                                               *)
If(S, e) ==
  LET b == Arg(S)
      v == Exp(S, e.c, -1)
      w == IF v.r < 0 THEN Load(v, v.r, 0) ELSE v
      test == SetArg(AddIr(w, "TEST", IF v.r < 0 THEN w.r ELSE v.r, 0, 0), b)
      then == SetArg(CloseScope(Segment(OpenScope(test), e.then)), b)
      skip == IF e.else = << >> THEN then ELSE AddIr(then, "JUMP", 0, 0, 0)
      other == AddConst(skip, Addr(Here(skip)))
      else == CloseScope(Segment(OpenScope(Patch(other, Here(w), other.r)), e.else))
      end == AddConst(else, Addr(Here(else)))
  IN  SetArg(IF e.else = << >> THEN else ELSE Patch(end, Here(then), end.r), b)

(* _a2_ir_exec: a statement.                                               *)
Exec(S, e) ==
  LET b == Arg(S)
      d == AddArg(S)
  IN  CASE e.t = "local" -> Local(S, e.decls)
        [] e.t = "ass" -> SetArg(Ass(S, e), b)
        [] e.t = "if" -> If(S, e)
        [] e.t = "for" -> For(S, e)
        [] e.t = "foreach" -> Foreach(S, e)
        [] e.t = "break" -> Leave(S, 0)
        [] e.t = "continue" -> Leave(S, 1)
        [] e.t = "func" -> SetArg(Function(d, e, d.r), b)
        [] e.t = "return" -> Return(S, e.e)
        [] e.t = "cfunc" -> SetArg(FuncCall(S, e, 1), b)

(* _a2_ir_segment.                                                         *)
Segment(S, body) == Steps(LAMBDA s, e : Exec(s, e), S, body)

(* a2_ir_exend: the prototype of a chunk.                                  *)
Exend(S) ==
  LET f == Curr(AddIr(S, "RETURN", 0, 0, 0))
  IN  [code |-> f.code, consts |-> f.consts, upvaluex |-> f.upvaluex,
       subs |-> f.subs, params |-> f.params, regs |-> f.max_arg]

=============================================================================
