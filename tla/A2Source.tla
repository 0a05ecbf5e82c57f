------------------------------ MODULE A2Source ------------------------------
(***************************************************************************)
(* What a script means: an interpreter of syntax trees that knows nothing  *)
(* of registers and instructions.  It is what the code of A2Ir and the     *)
(* machine of A2Exec are measured against.                                 *)
(*                                                                         *)
(* Every variable has a place of its own in store, and every entry of a    *)
(* block has variables of its own.  A state of the interpreter is          *)
(*   env    the place of every local name in scope                         *)
(*   store  the contents of the places                                     *)
(*   glob   the global variables                                           *)
(*   heap   arrays and maps: xs holds the elements, or pairs of a key and  *)
(*          an element in the order in which the keys came                 *)
(*   fns    the functions made so far, with the names around them          *)
(*   v, vs  the value, or the values, of what was evaluated last           *)
(*   flow   how that ended: "go", or a reason why nothing follows          *)
(* Trees are those of A2Ir.  Numbers are whole.                            *)
(***************************************************************************)
EXTENDS Integers, Sequences, SequencesExt, TLC

(* A value that no operation has.                                          *)
Wrong == <<"wrong", 0>>

Empty == <<"nil", 0>>

Truth(b) == <<"bool", b>>

IsNum(v) == v[1] = "num"

(* The text of a value, for "..": texts are sequences of pieces.           *)
Text(v) ==
  CASE v[1] = "str" -> v[2]
    [] v[1] = "nil" -> <<"nil">>
    [] OTHER -> <<ToString(v[2])>>

Arithmetic(op, x, y) ==
  CASE op = "ADD" -> <<"num", x + y>>
    [] op = "SUB" -> <<"num", x - y>>
    [] op = "MUL" -> <<"num", x * y>>
    [] op = "DIV" -> IF y = 0 THEN Wrong ELSE <<"num", x \div y>>
    [] op = "BIG" -> Truth(x > y)
    [] op = "LITE" -> Truth(x < y)
    [] op = "BIGE" -> Truth(x >= y)
    [] op = "LITEE" -> Truth(x <= y)

Binary(op, l, r) ==
  CASE op = "CAT" -> <<"str", Text(l) \o Text(r)>>
    [] op \in {"EQU", "NEQU"} ->
         IF l[1] # r[1] THEN Wrong ELSE Truth((l = r) = (op = "EQU"))
    [] op \in {"OR", "AND"} ->
         IF l[1] # "bool" \/ r[1] # "bool" THEN Wrong
         ELSE Truth(IF op = "OR" THEN l[2] \/ r[2] ELSE l[2] /\ r[2])
    [] OTHER -> IF IsNum(l) /\ IsNum(r) THEN Arithmetic(op, l[2], r[2]) ELSE Wrong

Negation(v) == IF IsNum(v) THEN <<"num", -v[2]>> ELSE Wrong

Denial(v) ==
  CASE v[1] = "nil" -> Truth(TRUE)
    [] v[1] = "bool" -> Truth(~v[2])
    [] OTHER -> Wrong

Holds(v) == v[1] # "nil" /\ v # Truth(FALSE)

(* Where in the elements of container o the key leads, 0 if nowhere.       *)
Place(o, key) ==
  IF o.t = "array" THEN IF IsNum(key) /\ key[2] \in 0 .. Len(o.xs) - 1
                        THEN key[2] + 1 ELSE 0
  ELSE LET is == {i \in DOMAIN o.xs : o.xs[i][1] = key}
       IN  IF is = {} THEN 0 ELSE CHOOSE i \in is : TRUE

KeyAt(o, i) == IF o.t = "array" THEN <<"num", i - 1>> ELSE o.xs[i][1]

ElementAt(o, i) == IF o.t = "array" THEN o.xs[i] ELSE o.xs[i][2]

(* The container with v at place i.                                        *)
WithElement(o, i, v) ==
  IF o.t = "array" THEN [o EXCEPT !.xs[i] = v] ELSE [o EXCEPT !.xs[i][2] = v]

IsContainer(v) == v[1] \in {"array", "map"}

(* The place of key k in container c of the heap, 0 if there is none.      *)
Find(heap, c, k) == IF IsContainer(c) THEN Place(heap[c[2]], k) ELSE 0

(* The map with the pairs kvs put into it one after the other.             *)
MapOf(kvs) ==
  FoldLeft(LAMBDA o, kv : LET i == Place(o, kv[1])
                          IN  IF i = 0 THEN [o EXCEPT !.xs = Append(@, kv)]
                              ELSE WithElement(o, i, kv[2]),
           [t |-> "map", xs |-> << >>], kvs)

-----------------------------------------------------------------------------

(* Op for each of xs in turn, as long as nothing says otherwise.           *)
Steps(Op(_, _), s, xs) ==
  LET after[i \in 0 .. Len(xs)] ==
        IF i = 0 THEN s
        ELSE LET x == after[i - 1] IN IF x.flow = "go" THEN Op(x, xs[i]) ELSE x
  IN  after[Len(xs)]

Fails(s) == [s EXCEPT !.flow = "error"]

Value(s, v) == IF v = Wrong THEN Fails(s) ELSE [s EXCEPT !.v = v]

Bound(f, name, x) ==
  [n \in DOMAIN f \cup {name} |-> IF n = name THEN x ELSE f[n]]

Declare(s, name, v) ==
  [s EXCEPT !.env = Bound(@, name, Len(s.store) + 1), !.store = Append(@, v)]

SetVar(s, name, v) ==
  IF name \in DOMAIN s.env THEN [s EXCEPT !.store[s.env[name]] = v]
  ELSE [s EXCEPT !.glob = Bound(@, name, v)]

New(s, o) == [s EXCEPT !.heap = Append(@, o), !.v = <<o.t, Len(s.heap) + 1>>]

(* The n values wanted of those that there are.                            *)
Padded(vs, n) == [i \in 1 .. n |-> IF i <= Len(vs) THEN vs[i] ELSE Empty]

RECURSIVE Eval(_, _), EvalAll(_, _), Do(_, _), DoAll(_, _), Call(_, _, _),
          Count(_, _, _, _), Each(_, _, _, _)

EvalAll(s, es) ==
  Steps(LAMBDA x, e : LET y == Eval(x, e) IN [y EXCEPT !.vs = Append(x.vs, y.v)],
        [s EXCEPT !.vs = << >>], es)

Call(s, f, args) ==
  IF f[1] = "cfn" THEN [s EXCEPT !.vs = args]
  ELSE IF f[1] # "fn" THEN Fails(s)
  ELSE
    LET fn == s.fns[f[2]]
        n == Len(fn.params)
        rest == IF Len(args) > n
                THEN New(s, [t |-> "array", xs |-> SubSeq(args, n + 1, Len(args))])
                ELSE [s EXCEPT !.v = Empty]
        in == Steps(LAMBDA x, i : Declare(x, fn.params[i], Padded(args, n)[i]),
                    [rest EXCEPT !.env = fn.env], [i \in 1 .. n |-> i])
        all == IF fn.va THEN Declare(in, "_args", rest.v) ELSE in
        out == DoAll([all EXCEPT !.vs = << >>], fn.body)
    IN  [out EXCEPT !.env = s.env,
                    !.vs = IF out.flow = "return" THEN @ ELSE << >>,
                    !.flow = IF @ = "error" THEN @ ELSE "go"]

Eval(s, e) ==
  CASE e.t = "const" -> Value(s, e.v)
    [] e.t = "var" ->
         IF e.name \in DOMAIN s.env THEN Value(s, s.store[s.env[e.name]])
         ELSE IF e.name \in DOMAIN s.glob THEN Value(s, s.glob[e.name]) ELSE Fails(s)
    [] e.t = "op" ->
         LET x == EvalAll(s, <<e.l, e.r>>)
         IN  IF x.flow # "go" THEN x ELSE Value(x, Binary(e.op, x.vs[1], x.vs[2]))
    [] e.t \in {"neg", "not"} ->
         LET x == Eval(s, e.e)
         IN  IF x.flow # "go" THEN x
             ELSE Value(x, IF e.t = "neg" THEN Negation(x.v) ELSE Denial(x.v))
    [] e.t = "array" ->
         LET x == EvalAll(s, e.es)
         IN  IF x.flow # "go" THEN x ELSE New(x, [t |-> "array", xs |-> x.vs])
    [] e.t = "map" ->
         LET x == EvalAll(s, [i \in DOMAIN e.kvs |-> e.kvs[i][2]])
         IN  IF x.flow # "go" THEN x
             ELSE New(x, MapOf([i \in DOMAIN e.kvs |-> <<e.kvs[i][1], x.vs[i]>>]))
    [] e.t \in {"chi", "cma"} ->
         LET k == IF e.t = "cma" THEN e.k ELSE [t |-> "const", v |-> <<"str", <<e.k>>>>]
             x == EvalAll(s, <<e.c, k>>)
             i == Find(x.heap, x.vs[1], x.vs[2])
         IN  IF x.flow # "go" THEN x
             ELSE IF i = 0 THEN Fails(x)
             ELSE Value(x, ElementAt(x.heap[x.vs[1][2]], i))
    [] e.t = "func" ->
         LET x == [s EXCEPT !.v = <<"fn", Len(s.fns) + 1>>,
                            !.fns = Append(@, [params |-> e.params, va |-> e.va,
                                               body |-> e.body, env |-> s.env])]
         IN  IF e.name = "" THEN x ELSE [x EXCEPT !.glob = Bound(@, e.name, x.v)]
    [] e.t = "cfunc" ->
         LET x == EvalAll(s, <<e.f>> \o e.args)
             y == Call(x, x.vs[1], Tail(x.vs))
         IN  IF x.flow # "go" THEN x
             ELSE IF y.flow # "go" THEN y ELSE Value(y, Padded(y.vs, 1)[1])
    [] e.t = "ass" -> Do(s, e)

(* v is assigned to what a variable, or a key of a container, names.  The  *)
(* key must be there.                                                      *)
Assign(s, left, v) ==
  IF left.t = "var" THEN [SetVar(s, left.name, v) EXCEPT !.v = v]
  ELSE LET k == IF left.t = "cma" THEN left.k
                ELSE [t |-> "const", v |-> <<"str", <<left.k>>>>]
           x == EvalAll(s, <<left.c, k>>)
           c == x.vs[1]
           i == Find(x.heap, c, x.vs[2])
       IN  IF x.flow # "go" THEN x
           ELSE IF i = 0 THEN Fails(x)
           ELSE [x EXCEPT !.heap[c[2]] = WithElement(@, i, v), !.v = v]

(* The values for n variables on the left: those of a list, or all that a  *)
(* call returns.                                                           *)
Several(s, right, n) ==
  CASE right.t = "comma" -> EvalAll(s, right.es)
    [] right.t = "cfunc" ->
         LET x == Eval(s, right) IN [x EXCEPT !.vs = Padded(@, n)]
    [] OTHER -> [s EXCEPT !.vs = << >>]

AssignAll(s, lefts, vs) ==
  Steps(LAMBDA x, i : Assign(x, lefts[i], vs[i]),
        s, [i \in 1 .. (IF Len(vs) < Len(lefts) THEN Len(vs) ELSE Len(lefts)) |-> i])

(* A block: its variables end with it.                                     *)
Block(s, body) == [DoAll(s, body) EXCEPT !.env = s.env]

AfterRound(s) == IF s.flow = "continue" THEN [s EXCEPT !.flow = "go"] ELSE s

AfterLoop(s) == IF s.flow = "break" THEN [s EXCEPT !.flow = "go"] ELSE s

(* Rounds of a for loop whose variable is at place x of the store.         *)
Count(s, e, x, last) ==
  IF ~IsNum(s.store[x]) THEN Fails(s)
  ELSE IF s.store[x][2] >= last THEN s
  ELSE LET y == AfterRound(Block(s, e.body))
           z == [y EXCEPT !.store[x] = Binary("ADD", @, e.step)]
       IN  IF y.flow = "go" THEN Count(z, e, x, last) ELSE AfterLoop(y)

(* Rounds of a foreach loop over container c, from element i on.           *)
Each(s, e, c, i) ==
  LET o == s.heap[c[2]]
      in == Declare(Declare(s, e.k, KeyAt(o, i)), e.v, ElementAt(o, i))
      y == [AfterRound(Block(in, e.body)) EXCEPT !.env = s.env]
  IN  IF i > Len(o.xs) THEN s
      ELSE IF y.flow = "go" THEN Each(y, e, c, i + 1) ELSE AfterLoop(y)

Do(s, e) ==
  CASE e.t = "local" ->
         Steps(LAMBDA x, d :
                 LET in == Declare(x, d[1], Empty)
                     y == Eval(in, d[2])
                 IN  IF d[2].t = "none" THEN in
                     ELSE IF y.flow # "go" THEN y ELSE SetVar(y, d[1], y.v),
               s, e.decls)
    [] e.t = "ass" ->
         IF e.l.t = "comma"
         THEN LET x == Several(s, e.r, Len(e.l.es))
              IN  IF x.flow # "go" THEN x ELSE AssignAll(x, e.l.es, x.vs)
         ELSE LET x == Eval(s, e.r)
              IN  IF x.flow # "go" THEN x ELSE Assign(x, e.l, x.v)
    [] e.t = "if" ->
         LET x == Eval(s, e.c)
         IN  IF x.flow # "go" THEN x
             ELSE Block(x, IF Holds(x.v) THEN e.then ELSE e.else)
    [] e.t = "for" ->
         LET i == Eval(s, e.init)
             d == Declare(i, e.var, i.v)
             n == Eval(d, e.count)
         IN  IF i.flow # "go" THEN i
             ELSE IF n.flow # "go" THEN n
             ELSE IF ~IsNum(n.v) THEN Fails(n)
             ELSE [Count(n, e, Len(d.store), n.v[2]) EXCEPT !.env = s.env]
    [] e.t = "foreach" ->
         LET c == Eval(s, e.c)
         IN  IF c.flow # "go" THEN c
             ELSE IF ~IsContainer(c.v) THEN Fails(c) ELSE Each(c, e, c.v, 1)
    [] e.t \in {"break", "continue"} -> [s EXCEPT !.flow = e.t]
    [] e.t = "return" ->
         LET x == EvalAll(s, CASE e.e.t = "none" -> << >>
                               [] e.e.t = "comma" -> e.e.es
                               [] OTHER -> <<e.e>>)
         IN  IF x.flow # "go" THEN x ELSE [x EXCEPT !.flow = "return"]
    [] e.t \in {"func", "cfunc"} -> Eval(s, e)

DoAll(s, body) == Steps(LAMBDA x, e : Do(x, e), s, body)

-----------------------------------------------------------------------------
(* What can be seen of a value from outside: the contents of containers,   *)
(* and of a function that it is one.                                       *)
RECURSIVE Seen(_, _)

Seen(heap, v) ==
  CASE v[1] = "array" ->
         <<"array", [i \in DOMAIN heap[v[2]].xs |-> Seen(heap, heap[v[2]].xs[i])]>>
    [] v[1] = "map" ->
         <<"map", [i \in DOMAIN heap[v[2]].xs |->
                     <<heap[v[2]].xs[i][1], Seen(heap, heap[v[2]].xs[i][2])>>]>>
    [] v[1] = "fn" -> <<"fn", 0>>
    [] OTHER -> v

Outcome(ok, heap, glob) ==
  [ok |-> ok, glob |-> [n \in DOMAIN glob |-> Seen(heap, glob[n])]]

(* What is left of a script, run with the given global variables.          *)
Meaning(prog, glob) ==
  LET s == DoAll([env |-> << >>, store |-> << >>, glob |-> glob, heap |-> << >>,
                  fns |-> << >>, v |-> Empty, vs |-> << >>, flow |-> "go"], prog)
  IN  Outcome(s.flow # "error", s.heap, s.glob)

=============================================================================
