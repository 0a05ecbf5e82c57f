----------------------------- MODULE A2Grammar ------------------------------
(***************************************************************************)
(* The grammar of the language, without a word on how to read it: which    *)
(* tokens a syntax tree may be written with, and which ones it is printed  *)
(* with.  Every form of an expression has a level, and stands where that   *)
(* level, or a looser one, is asked for: 0 lists, 1 assignments, 2 "|",    *)
(* 3 "&", 4 comparisons, 5 sums, 6 products, 7 "..", 8 "!" and "-",        *)
(* 9 calls and accesses, 10 names, constants, functions and containers.    *)
(* Anything from level 1 up may be put in parentheses.                     *)
(***************************************************************************)
EXTENDS A2Nodes, Integers, Sequences, FiniteSets, SequencesExt, TLC

OpT(s) == <<"op", s>>
KeyT(s) == <<"key", s>>
EndT == <<"end", 0>>
NameT(n) == <<"ide", n>>

(* The level and the token of an operator.                                 *)
OpLevel ==
  "OR" :> 2 @@ "AND" :> 3 @@ "BIG" :> 4 @@ "LITE" :> 4 @@ "BIGE" :> 4 @@ "LITEE" :> 4
    @@ "EQU" :> 4 @@ "NEQU" :> 4 @@ "ADD" :> 5 @@ "SUB" :> 5 @@ "MUL" :> 6 @@ "DIV" :> 6
    @@ "CAT" :> 7
Sign ==
  "OR" :> "|" @@ "AND" :> "&" @@ "BIG" :> ">" @@ "LITE" :> "<" @@ "BIGE" :> ">="
    @@ "LITEE" :> "<=" @@ "EQU" :> "==" @@ "NEQU" :> "!=" @@ "ADD" :> "+" @@ "SUB" :> "-"
    @@ "MUL" :> "*" @@ "DIV" :> "/" @@ "CAT" :> ".."

IsNum(e) == e.t = "const" /\ e.v[1] = "num"

(* What a string, a truth value or nil is written with.                    *)
ConstT(v) == IF v[1] = "str" THEN <<"str", v[2][1]>> ELSE v

RECURSIVE Level(_)
Level(e) ==
  CASE e.t = "comma" -> 0
    [] e.t = "ass" -> IF e.l.t = "comma" \/ (e.r.t = "ass" /\ Level(e.r) = 0) THEN 0 ELSE 1
    [] e.t = "op" -> OpLevel[e.op]
    [] e.t \in {"neg", "not"} -> 8
    [] e.t \in {"cma", "chi", "cfunc"} -> 9
    [] e.t \in {"const", "var", "array", "map", "func"} -> 10

(* The levels of the two operands: chains lean to the left, but those of   *)
(* ".." to the right, and there are none of comparisons.                   *)
LeftLevel(op) == CASE op = "CAT" -> 8 [] OpLevel[op] = 4 -> 5
                   [] op # "CAT" /\ OpLevel[op] # 4 -> OpLevel[op]
RightLevel(op) == IF op = "CAT" THEN 7 ELSE OpLevel[op] + 1

-----------------------------------------------------------------------------
(* Pieces of token sequences.                                              *)

Before(t, k) == SubSeq(t, 1, k - 1)
After(t, k) == SubSeq(t, k + 1, Len(t))

(* The brackets that open in the first n tokens of t close there too.      *)
Balanced(t, n) ==
  Cardinality({j \in 1 .. n : t[j] \in {OpT("("), OpT("["), OpT("{")}})
    = Cardinality({j \in 1 .. n : t[j] \in {OpT(")"), OpT("]"), OpT("}")}})

Places(t, op) == {k \in DOMAIN t : t[k] = OpT(op) /\ Balanced(t, k - 1)}

Begins(t, head) == Len(head) <= Len(t) /\ SubSeq(t, 1, Len(head)) = head

(* t stands between what open begins with and the operator close.          *)
Enclosed(t, open, close) ==
  Begins(t, open) /\ Len(t) > Len(open) /\ Last(t) = OpT(close)
Inside(t, open) == SubSeq(t, Len(open) + 1, Len(t) - 1)

RECURSIVE Trim(_)
Trim(t) == CASE t = << >> -> t
             [] t # << >> /\ Head(t) = EndT -> Trim(Tail(t))
             [] t # << >> /\ Head(t) # EndT ->
                  IF Last(t) = EndT THEN Trim(Front(t)) ELSE t

Paren == <<OpT("(")>>

Numeric ==
  {OpT(op) : op \in {"+", "-", "*", "/", "(", ")"}}

(* The numbers that t is an expression of level k for: constant            *)
(* expressions stand for their values.                                     *)
RECURSIVE Numbers(_, _)
Numbers(t, k) ==
  LET Pairs(op, j) ==
        IF k > j THEN {}
        ELSE UNION {Numbers(Before(t, p), j) \X Numbers(After(t, p), j + 1) : p \in Places(t, op)}
  IN  IF \E i \in DOMAIN t : t[i][1] # "num" /\ t[i] \notin Numeric THEN {} ELSE UNION {
        IF Len(t) = 1 /\ t[1][1] = "num" THEN {t[1][2]} ELSE {},
        IF k <= 8 /\ Begins(t, <<OpT("-")>>) THEN {-n : n \in Numbers(Tail(t), 10)} ELSE {},
        IF Enclosed(t, Paren, ")") THEN Numbers(Inside(t, Paren), 1) ELSE {},
        {x[1] + x[2] : x \in Pairs("+", 5)}, {x[1] - x[2] : x \in Pairs("-", 5)},
        {x[1] * x[2] : x \in Pairs("*", 6)},
        {x[1] \div x[2] : x \in {y \in Pairs("/", 6) : y[2] # 0}}}

-----------------------------------------------------------------------------
(* Expressions.                                                            *)

RECURSIVE Form(_, _), Written(_, _, _), List(_, _, _), Fields(_, _), Block(_, _), Line(_, _)

(* t is an expression of level k that stands for e.                        *)
Written(e, k, t) ==
  \/ IF IsNum(e) THEN e.v[2] \in Numbers(t, k) ELSE Level(e) >= k /\ Form(e, t)
  \/ /\ Enclosed(t, Paren, ")")
     /\ \/ Written(e, 1, Inside(t, Paren))
        \/ e.t = "var" /\ Inside(t, Paren) = <<NameT(e.name), EndT>>

(* Where an expression begins anew, a line may end behind a lone name.     *)
Fresh(e, k, t) == Written(e, k, t) \/ (e.t = "var" /\ t = <<NameT(e.name), EndT>>)

(* t is the list of es, with commas in between.                            *)
List(es, k, t) ==
  CASE es = << >> -> t = << >>
    [] Len(es) = 1 -> Fresh(es[1], k, t)
    [] Len(es) > 1 -> \E p \in Places(t, ",") :
                         Fresh(es[1], k, Before(t, p)) /\ List(Tail(es), k, After(t, p))

(* The elements of a container, where lines may end between the tokens.    *)
Fields(kvs, t) ==
  LET Field(kv, f) ==
        LET v == IF kv[1] = None THEN f ELSE SubSeq(f, 3, Len(f))
        IN  /\ kv[1] # None =>
                 /\ Len(f) > 2 /\ f[2] = OpT("=")
                 /\ f[1] \in IF kv[1][1] = "str" THEN {NameT(kv[1][2][1]), ConstT(kv[1])}
                             ELSE {kv[1]}
            /\ Fresh(kv[2], 1, v)
  IN  CASE kvs = << >> -> t = << >>
        [] Len(kvs) = 1 -> Field(kvs[1], Trim(t))
        [] Len(kvs) > 1 -> \E p \in Places(t, ",") :
                              Field(kvs[1], Trim(Before(t, p))) /\ Fields(Tail(kvs), After(t, p))

Names(ps) == FlattenSeq([i \in DOMAIN ps |-> IF i = 1 THEN <<NameT(ps[i])>>
                                             ELSE <<OpT(","), NameT(ps[i])>>])

(* Everything of a function before its body.                               *)
Header(e) ==
  <<KeyT("function")>> \o (IF e.name = "" THEN << >> ELSE <<NameT(e.name)>>) \o Paren
    \o Names(e.params)
    \o (IF ~e.va THEN << >> ELSE IF e.params = << >> THEN <<OpT("...")>>
        ELSE <<OpT(","), OpT("...")>>)
    \o <<OpT(")"), OpT("{")>>

(* t is e, with nothing around it.                                         *)
Form(e, t) ==
  CASE e.t = "var" -> t = <<NameT(e.name)>>
    [] e.t = "const" -> t = <<ConstT(e.v)>>
    [] e.t = "comma" -> Len(e.es) > 1 /\ \E p \in Places(t, ",") :
                          /\ Written(e.es[1], 2, Before(t, p))
                          /\ IF Len(e.es) = 2 THEN Written(e.es[2], 2, After(t, p))
                             ELSE Form(Comma(Tail(e.es)), After(t, p))
    [] e.t = "ass" -> \E p \in Places(t, "=") :
                        /\ Written(e.l, IF e.l.t = "comma" THEN 0 ELSE 2, Before(t, p))
                        /\ Written(e.r, 0, After(t, p))
                        /\ e.r.t = "comma" => e.l.t = "comma"
                        /\ e.l.t = "comma" => e.r.t \in {"comma", "cfunc"}
    [] e.t = "op" -> \E p \in Places(t, Sign[e.op]) :
                       /\ Written(e.l, LeftLevel(e.op), Before(t, p))
                       /\ Written(e.r, RightLevel(e.op), After(t, p))
    [] e.t = "neg" -> Begins(t, <<OpT("-")>>) /\ Written(e.e, 10, Tail(t))
    [] e.t = "not" -> Begins(t, <<OpT("!")>>) /\ Written(e.e, 10, Tail(t))
    [] e.t = "chi" -> /\ Len(t) > 2 /\ SubSeq(t, Len(t) - 1, Len(t)) = <<OpT("."), NameT(e.k)>>
                      /\ Written(e.c, 9, SubSeq(t, 1, Len(t) - 2))
    [] e.t = "cma" -> \E p \in Places(t, "[") :
                        /\ Last(t) = OpT("]") /\ p < Len(t)
                        /\ Written(e.c, 9, Before(t, p))
                        /\ Fresh(e.k, 1, Front(After(t, p)))
    [] e.t = "cfunc" -> \E p \in Places(t, "(") :
                          /\ Last(t) = OpT(")") /\ p < Len(t)
                          /\ Written(e.f, 9, Before(t, p))
                          /\ List(e.args, 1, Front(After(t, p)))
    [] e.t = "array" -> /\ Enclosed(t, <<OpT("[")>>, "]")
                        /\ Fields([i \in DOMAIN e.es |-> <<None, e.es[i]>>], Inside(t, <<OpT("[")>>))
    [] e.t = "map" -> Enclosed(t, <<OpT("{")>>, "}") /\ Fields(e.kvs, Inside(t, <<OpT("{")>>))
    [] e.t = "func" -> /\ Enclosed(t, Header(e), "}")
                       /\ e.body # << >> /\ Block(e.body, Inside(t, Header(e)))

-----------------------------------------------------------------------------
(* Statements.                                                             *)

(* Statements one after the other, and ends of lines between them.         *)
Block(body, t) ==
  CASE t # << >> /\ Head(t) = EndT -> Block(body, Tail(t))
    [] body = << >> -> t = << >>
    [] body # << >> /\ (t # << >> => Head(t) # EndT) ->
         \E k \in DOMAIN t : /\ Balanced(t, k)
                             /\ Line(Head(body), SubSeq(t, 1, k))
                             /\ Block(Tail(body), After(t, k))

(* A block in braces, or a statement that is not.                          *)
Part(body, t) ==
  \/ Enclosed(t, <<OpT("{")>>, "}") /\ Block(body, Inside(t, <<OpT("{")>>))
  \/ Len(body) = 1 /\ t # << >> /\ Head(t) # OpT("{") /\ Line(body[1], t)

(* The names of a declaration, with their values.                          *)
RECURSIVE Declared(_, _)
Declared(decls, t) ==
  LET Decl(d, f) == \/ d[2] = None /\ f = <<NameT(d[1])>>
                    \/ /\ d[2] # None /\ Begins(f, <<NameT(d[1]), OpT("=")>>)
                       /\ Written(d[2], 1, SubSeq(f, 3, Len(f)))
  IN  CASE Len(decls) = 1 -> Decl(decls[1], t)
        [] Len(decls) > 1 -> \E p \in Places(t, ",") :
                                Decl(decls[1], Before(t, p)) /\ Declared(Tail(decls), After(t, p))

(* t is the statement e.                                                   *)
Line(e, t) ==
  LET Braced(head, body, u) == Enclosed(u, head, "}") /\ Block(body, Inside(u, head))
      Close == <<OpT(")"), OpT("{")>>
      ForHead == <<KeyT("for"), OpT("("), NameT(e.var), OpT("=")>>
      EachHead == <<KeyT("foreach"), OpT("("), NameT(e.k), OpT(","), NameT(e.v), KeyT("in")>>
      IfHead == <<KeyT("if"), OpT("(")>>
  IN  CASE e.t = "local" -> Begins(t, <<KeyT("local")>>) /\ Declared(e.decls, Tail(t))
        [] e.t = "break" -> t = <<KeyT("break")>>
        [] e.t = "continue" -> t = <<KeyT("continue")>>
        [] e.t = "return" ->
             /\ Begins(t, <<KeyT("return")>>)
             /\ IF e.e = None THEN Len(t) = 1 ELSE Fresh(e.e, 0, Tail(t))
        [] e.t = "for" ->
             /\ Begins(t, ForHead)
             /\ LET u == After(t, Len(ForHead))
                IN  \E p, q \in Places(u, ",") :
                      /\ p < q
                      /\ Written(e.init, 1, Before(u, p))
                      /\ Fresh(e.count, 1, SubSeq(u, p + 1, q - 1))
                      /\ Braced(<<e.step>> \o Close, e.body, After(u, q))
        [] e.t = "foreach" ->
             /\ Begins(t, EachHead)
             /\ LET u == After(t, Len(EachHead))
                IN  \E p \in Places(u, ")") :
                      /\ Fresh(e.c, 1, Before(u, p))
                      /\ Braced(Close, e.body, SubSeq(u, p, Len(u)))
        [] e.t = "if" ->
             /\ Begins(t, IfHead) /\ e.then # << >>
             /\ \E p \in Places(After(t, 2), ")") :
                  LET u == After(t, 2 + p)
                  IN  /\ Written(e.c, 2, SubSeq(t, 3, 1 + p))
                      /\ \E q \in DOMAIN u :
                           /\ Balanced(u, q)
                           /\ \/ Part(e.then, SubSeq(u, 1, q))
                              \/ u[q] = EndT /\ Part(e.then, Before(u, q))
                           /\ \/ q = Len(u) /\ e.else = << >>
                              \/ /\ q < Len(u) /\ u[q + 1] = KeyT("else")
                                 /\ Part(e.else, After(u, q + 1))
        [] OTHER -> Fresh(e, 0, t)

-----------------------------------------------------------------------------
(* How trees are printed: with no more parentheses than necessary.         *)

RECURSIVE Text(_), TextLines(_)

TextAt(e, k) == IF Level(e) >= k THEN Text(e) ELSE Paren \o Text(e) \o <<OpT(")")>>

Separated(Show(_), xs) ==
  FlattenSeq([i \in DOMAIN xs |-> IF i = 1 THEN Show(xs[i]) ELSE <<OpT(",")>> \o Show(xs[i])])

TextList(es, k) == Separated(LAMBDA e : TextAt(e, k), es)

Braces(body) == <<OpT("{")>> \o TextLines(body) \o <<OpT("}")>>

Text(e) ==
  LET Decl(d) == IF d[2] = None THEN <<NameT(d[1])>>
                 ELSE <<NameT(d[1]), OpT("=")>> \o TextAt(d[2], 1)
      Pair(kv) == <<ConstT(kv[1]), OpT("=")>> \o TextAt(kv[2], 1)
  IN  CASE e.t = "var" -> <<NameT(e.name)>>
        [] e.t = "const" -> <<ConstT(e.v)>>
        [] e.t = "comma" -> TextList(e.es, 2)
        [] e.t = "ass" -> TextAt(e.l, IF e.l.t = "comma" THEN 0 ELSE 2) \o <<OpT("=")>>
                            \o TextAt(e.r, IF e.r.t = "comma" THEN 0 ELSE 1)
        [] e.t = "op" -> TextAt(e.l, LeftLevel(e.op)) \o <<OpT(Sign[e.op])>>
                           \o TextAt(e.r, RightLevel(e.op))
        [] e.t = "neg" -> <<OpT("-")>> \o TextAt(e.e, 10)
        [] e.t = "not" -> <<OpT("!")>> \o TextAt(e.e, 10)
        [] e.t = "chi" -> TextAt(e.c, 9) \o <<OpT("."), NameT(e.k)>>
        [] e.t = "cma" -> TextAt(e.c, 9) \o <<OpT("[")>> \o TextAt(e.k, 1) \o <<OpT("]")>>
        [] e.t = "cfunc" -> TextAt(e.f, 9) \o Paren \o TextList(e.args, 1) \o <<OpT(")")>>
        [] e.t = "array" -> <<OpT("[")>> \o TextList(e.es, 1) \o <<OpT("]")>>
        [] e.t = "map" -> <<OpT("{")>> \o Separated(Pair, e.kvs) \o <<OpT("}")>>
        [] e.t = "func" -> Header(e) \o Tail(Braces(e.body))
        [] e.t = "local" -> <<KeyT("local")>> \o Separated(Decl, e.decls)
        [] e.t \in {"break", "continue"} -> <<KeyT(e.t)>>
        [] e.t = "return" -> <<KeyT("return")>> \o (IF e.e = None THEN << >> ELSE Text(e.e))
        [] e.t = "for" -> <<KeyT("for"), OpT("("), NameT(e.var), OpT("=")>> \o TextAt(e.init, 1)
                            \o <<OpT(",")>> \o TextAt(e.count, 1)
                            \o <<OpT(","), e.step, OpT(")")>> \o Braces(e.body)
        [] e.t = "foreach" ->
             <<KeyT("foreach"), OpT("("), NameT(e.k), OpT(","), NameT(e.v), KeyT("in")>>
               \o TextAt(e.c, 1) \o <<OpT(")")>> \o Braces(e.body)
        [] e.t = "if" ->
             <<KeyT("if"), OpT("(")>> \o TextAt(e.c, 2) \o <<OpT(")")>> \o Braces(e.then)
               \o (IF e.else = << >> THEN << >> ELSE <<KeyT("else")>> \o Braces(e.else))

(* A line end is a token behind what may end a statement.                  *)
TextLines(body) ==
  FlattenSeq([i \in DOMAIN body |->
    LET t == Text(body[i])
    IN  IF Last(t)[1] = "op" \/ (Last(t)[1] = "key" /\ Last(t) # KeyT("return"))
        THEN t ELSE Append(t, EndT)])

=============================================================================
