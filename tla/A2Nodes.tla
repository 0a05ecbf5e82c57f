------------------------------ MODULE A2Nodes -------------------------------
(***************************************************************************)
(* Syntax trees, as src/src/a2_parse.c builds them and src/src/a2_ir.c     *)
(* reads them.  A node is a record with its type in the field t; values    *)
(* and constants are pairs of a type and a content.                        *)
(***************************************************************************)

None == [t |-> "none"]

Num(n) == <<"num", n>>
(* A text is a sequence of pieces; a name is one.                          *)
Str(s) == <<"str", <<s>>>>
Bool(b) == <<"bool", b>>
Nil == <<"nil", 0>>
Addr(a) == <<"addr", a>>

(* Expressions: constants, variables, and what is made of them.            *)
C(v) == [t |-> "const", v |-> v]
N(n) == C(Num(n))
T(s) == C(Str(s))
V(n) == [t |-> "var", name |-> n]
Bin(op, l, r) == [t |-> "op", op |-> op, l |-> l, r |-> r]
Neg(e) == [t |-> "neg", e |-> e]
Not(e) == [t |-> "not", e |-> e]
Arr(es) == [t |-> "array", es |-> es]
MapE(kvs) == [t |-> "map", kvs |-> kvs]
Idx(c, k) == [t |-> "cma", c |-> c, k |-> k]
Dot(c, k) == [t |-> "chi", c |-> c, k |-> k]
Do(f, args) == [t |-> "cfunc", f |-> f, args |-> args]
Fun(name, params, va, body) ==
  [t |-> "func", name |-> name, params |-> params, va |-> va, body |-> body]
Set(l, r) == [t |-> "ass", l |-> l, r |-> r]
Comma(es) == [t |-> "comma", es |-> es]

(* Statements.                                                             *)
Loc(decls) == [t |-> "local", decls |-> decls]
IfE(c, a, b) == [t |-> "if", c |-> c, then |-> a, else |-> b]
ForE(var, init, count, step, body) ==
  [t |-> "for", var |-> var, init |-> init, count |-> count,
   step |-> Num(step), body |-> body]
EachE(k, v, c, body) == [t |-> "foreach", k |-> k, v |-> v, c |-> c, body |-> body]
Ret(e) == [t |-> "return", e |-> e]
Brk == [t |-> "break"]
Cont == [t |-> "continue"]

=============================================================================
