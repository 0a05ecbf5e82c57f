------------------------------ MODULE A2Parse -------------------------------
(***************************************************************************)
(* The parser of src/src/a2_parse.c: from the tokens of a script to the    *)
(* syntax trees that are handed to the code generator, a statement at a    *)
(* time.                                                                   *)
(*                                                                         *)
(* A token is a pair of a kind and a content, as A2Lex leaves it, without  *)
(* its line.  A state of the parser is                                     *)
(*   ts     token_chain, and i, t_idx: the place of the current token      *)
(*   given  token_chain as it was at first (history): constants are        *)
(*          calculated in the tokens                                       *)
(*   n      the node that the latest function returned, None for node 0;   *)
(*          that of a number points to its token: N(p) is a node at place  *)
(*          p until the code generator takes the number from there         *)
(*   err    why it stopped: "rejected" if a2_error was called, "wild" if   *)
(*          it used node 0 or a token past the end as if there were one,   *)
(*          "" if it goes on                                               *)
(*   odd    the peculiarities met, where the trees say less than the       *)
(*          tokens do                                                      *)
(* The texts of messages and the growth of the buffer of nodes are left    *)
(* out; numbers are whole.                                                 *)
(***************************************************************************)
EXTENDS A2Nodes, Integers, Sequences, SequencesExt, TLC

CONSTANTS
  Parse(_),         \* The parser: Segcontent, a statement at a time.
  Describes(_, _),  \* Trees and tokens they are written with: Block of A2Grammar.
  Texts(_),         \* How a script is printed: TextLines of A2Grammar.
  Inputs,           \* Scripts given as tokens: [before, set, len, after], for up
                    \* to len pieces of the set, with other tokens around them.
  Programs          \* Scripts given as trees: a sequence of sequences of them.

VARIABLES
  program,  \* The number of the script in Programs, 0 if it is one of Inputs.
  parser,   \* The state of the parser.
  trees,    \* What was handed to the code generator, statement by statement.
  status    \* "parsing", "done", "rejected" or "wild".

Grammar == INSTANCE A2Grammar

vars == <<program, parser, trees, status>>

-----------------------------------------------------------------------------
(* The state of the parser.                                                *)

Open(ts) == [ts |-> ts, given |-> ts, i |-> 1, n |-> None, err |-> "", odd |-> {}]

(* The token k places on: parse_attoken and parse_matchtoken.              *)
At(S, k) == IF S.i + k <= Len(S.ts) THEN S.ts[S.i + k] ELSE <<"nothing", 0>>

AtEnd(S) == S.i > Len(S.ts)
Kind(S) == At(S, 0)[1]
Sees(S, op) == At(S, 0) = <<"op", op>>
SeesKey(S, key) == At(S, 0) = <<"key", key>>

(* After a stop there is nothing left to read, and all else is undone.     *)
Stop(S, why) ==
  IF S.err # "" THEN S
  ELSE [S EXCEPT !.err = why, !.n = None, !.i = Len(S.ts) + 1]

Reject(S) == Stop(S, "rejected")
Wild(S) == Stop(S, "wild")

Gives(S, n) == IF S.err # "" THEN S ELSE [S EXCEPT !.n = n]
Note(S, what) == [S EXCEPT !.odd = @ \cup {what}]

(* parse_readtoken, k times.                                               *)
Skip(S, k) == IF AtEnd(S) THEN S ELSE [S EXCEPT !.i = @ + k]

Expect(S, op) == IF Sees(S, op) THEN Skip(S, 1) ELSE Reject(S)

(* A node whose operand is node n: if that is node 0, the code generator   *)
(* will look at it.                                                        *)
Holds(S, n, node) == Gives(IF n = None THEN Note(S, "hole") ELSE S, node)

RECURSIVE SkipEnds(_)
SkipEnds(S) == IF Kind(S) = "end" THEN SkipEnds(Skip(S, 1)) ELSE S

-----------------------------------------------------------------------------
(* The kinds of nodes (a2_parse.h).                                        *)

Places == {"var", "cma", "chi"}

(* nt_lmask: what may stand left of "=".  An assignment may, but has no    *)
(* place that the code generator could put something into.                 *)
LeftKinds == Places \cup {"ass", "comma"}

(* nt_rmask: what may be called or looked into.                            *)
Readable(e) == e.t \in Places \cup {"array", "map", "func", "cfunc"}

IsNumber(e) == e.t = "const" /\ e.v[1] = "num"

(* The number in the token of a node, and the node when it was changed.    *)
Number(S, e) == S.ts[e.v[2]][2]

Changed(S, e, n) == IF S.err # "" THEN S ELSE [S EXCEPT !.ts[e.v[2]] = Num(n), !.n = e]

(* A tree as the code generator finds it: with the numbers that are in the *)
(* tokens by then.                                                         *)
RECURSIVE Resolved(_, _)
Resolved(S, e) ==
  LET Trees == {"l", "r", "e", "c", "f", "init", "count"}
                 \cup (IF e.t = "cma" THEN {"k"} ELSE {})
      Lists == {"es", "args", "body", "then", "else"}
      Pairings == {"kvs", "decls"}
  IN  IF IsNumber(e) THEN N(Number(S, e))
      ELSE [x \in DOMAIN e |->
             CASE x \in Trees -> Resolved(S, e[x])
               [] x \in Lists -> [j \in DOMAIN e[x] |-> Resolved(S, e[x][j])]
               [] x \in Pairings ->
                    [j \in DOMAIN e[x] |-> <<e[x][j][1], Resolved(S, e[x][j][2])>>]
               [] x \notin Trees \cup Lists \cup Pairings -> e[x]]

Arithmetic == {"ADD", "SUB", "MUL", "DIV"}

(* nt_fmask: what may be the bound of a loop.                              *)
Countable(e) ==
  \/ e.t \in Places \cup {"ass", "cfunc"}
  \/ IsNumber(e)
  \/ e.t = "op" /\ e.op \in Arithmetic

(* nt_amask: what may be an operand of arithmetic.                         *)
Operand(e) == Countable(e) \/ e.t \in {"array", "map", "func"}

Calculated(op, l, r) ==
  CASE op = "ADD" -> l + r
    [] op = "SUB" -> l - r
    [] op = "MUL" -> l * r
    [] op = "DIV" -> l \div r

(* The operators from parse_logic to parse_advanced, the loosest first.    *)
(* The types of ">=" and "<=" are exchanged here and again in the code     *)
(* generator (a2_ir.c:1254); the trees have what is meant.                 *)
Levels ==
  <<"|" :> "OR", "&" :> "AND",
    ">" :> "BIG" @@ "<" :> "LITE" @@ ">=" :> "BIGE" @@ "<=" :> "LITEE"
      @@ "==" :> "EQU" @@ "!=" :> "NEQU",
    "+" :> "ADD" @@ "-" :> "SUB",
    "*" :> "MUL" @@ "/" :> "DIV">>

-----------------------------------------------------------------------------
(* Expressions.                                                            *)

RECURSIVE Expression(_, _), Operation(_, _), CommaRest(_, _), Binary(_, _),
          BinaryRest(_, _, _), Deep(_), DeepRest(_), Elements(_, _), Pairs(_, _),
          Cargs(_, _), Args(_, _), Decls(_, _), Lsegment(_, _), Elif(_), Segcontent(_)

(* _parse_expression: pfunc is parse_operation if comma is true, parse_op  *)
(* if it is not.  What cannot begin an expression is left alone, unless it *)
(* is a keyword; a name is an expression if an end follows, which goes     *)
(* with it.                                                                *)
Expression(S, comma) ==
  LET after == At(S, 1)[1]
      isName == Kind(S) = "ide" /\ after # "op"
      isElse == \/ Kind(S) \in {"nothing", "end"}
                \/ Kind(S) = "op" /\ At(S, 0)[2] \notin {"(", "{", "[", "+", "-"}
      isKey == Kind(S) = "key" /\ ~SeesKey(S, "function")
  IN  CASE isName /\ after = "nothing" -> Gives(Skip(S, 1), V(At(S, 0)[2]))
        [] isName /\ after = "end" -> Gives(Skip(S, 2), V(At(S, 0)[2]))
        [] isName /\ after \notin {"nothing", "end"} -> Reject(S)
        [] isElse -> Gives(S, None)
        [] isKey -> Reject(S)
        [] ~(isName \/ isElse \/ isKey) -> Operation(S, comma)

(* parse_comma.                                                            *)
CommaRest(S, es) ==
  LET e == Binary(Skip(S, 1), 1)
  IN  IF ~Sees(S, ",") THEN Gives(S, Comma(es))
      ELSE IF e.n = None THEN Reject(e) ELSE CommaRest(e, Append(es, e.n))

Commas(S) ==
  LET first == Binary(S, 1)
  IN  IF first.n = None \/ ~Sees(first, ",") THEN first
      ELSE CommaRest(first, <<first.n>>)

(* _parse_operation: assignments go to the right.                          *)
Operation(S, comma) ==
  LET left == IF comma THEN Commas(S) ELSE Binary(S, 1)
      l == left.n
      ls == IF l.t = "comma" THEN ToSet(l.es) ELSE {l}
      right == Operation(Skip(left, 1), comma)
      r == right.n
      noted == IF \E e \in ls : e.t = "ass" THEN Note(right, "left") ELSE right
  IN  IF ~Sees(left, "=") THEN left
      ELSE IF l = None THEN Wild(left)
      ELSE IF \E e \in ls : e.t \notin LeftKinds THEN Reject(left)
      ELSE IF r = None THEN Wild(right)
      ELSE IF l.t = "comma" /\ r.t \notin {"comma", "cfunc"} THEN Reject(right)
      ELSE IF r.t = "comma" /\ l.t # "comma" THEN Reject(right)
      ELSE Gives(noted, Set(l, r))

(* Faulty variant of Merged: the result goes into the token of the right   *)
(* operand.                                                                *)
MergedRight(S, op, l, r) ==
  IF op = "DIV" /\ IsNumber(r) /\ Number(S, r) = 0 THEN Reject(S)
  ELSE IF IsNumber(l) /\ IsNumber(r)
  THEN LET n == Calculated(op, Number(S, l), Number(S, r))
           s == IF op = "DIV" /\ n * Number(S, r) # Number(S, l) THEN Note(S, "fraction") ELSE S
       IN  Gives(Changed(s, r, n), l)
  ELSE IF Operand(l) /\ Operand(r) THEN Gives(S, Bin(op, l, r)) ELSE Reject(S)

(* CHECK_EXP12 and MERGER: numbers are calculated at once, in the token of *)
(* the left operand.                                                       *)
Merged(S, op, l, r) ==
  IF op = "DIV" /\ IsNumber(r) /\ Number(S, r) = 0 THEN Reject(S)
  ELSE IF IsNumber(l) /\ IsNumber(r)
  THEN LET n == Calculated(op, Number(S, l), Number(S, r))
           s == IF op = "DIV" /\ n * Number(S, r) # Number(S, l) THEN Note(S, "fraction") ELSE S
       IN  Changed(s, l, n)
  ELSE IF Operand(l) /\ Operand(r) THEN Gives(S, Bin(op, l, r)) ELSE Reject(S)

(* parse_logic, parse_interval, parse_limits, parse_arithmetic and         *)
(* parse_advanced.  A chain of operators takes what was built so far as    *)
(* its left operand, but parse_limits goes back to the first operand and   *)
(* forgets what was in between.                                            *)
BinaryRest(S, k, exp1) ==
  LET op == Levels[k][At(S, 0)[2]]
      right == Binary(Skip(S, 1), k + 1)
      noted == IF S.n # exp1 THEN Note(right, "chain") ELSE right
      head == IF op \in Arithmetic THEN Merged(noted, op, exp1, right.n)
              ELSE Gives(noted, Bin(op, exp1, right.n))
  IN  IF Kind(S) # "op" \/ At(S, 0)[2] \notin DOMAIN Levels[k] THEN S
      ELSE IF exp1 = None \/ right.n = None THEN Reject(right)
      ELSE BinaryRest(head, k, IF k = 3 THEN exp1 ELSE head.n)

Binary(S, k) ==
  LET first == Binary(S, k + 1)
  IN  IF k > Len(Levels) THEN Deep(S) ELSE BinaryRest(first, k, first.n)

-----------------------------------------------------------------------------
(* Operands.                                                               *)

(* parse_array, from the first element on.                                 *)
Elements(S, es) ==
  LET s == SkipEnds(S)
      e == Expression(s, FALSE)
      all == Append(es, e.n)
      after == SkipEnds(e)
  IN  IF AtEnd(s) THEN Reject(s)
      ELSE IF e.n = None THEN (IF AtEnd(e) THEN Wild(e) ELSE Reject(e))
      ELSE IF Sees(after, ",") THEN Elements(Skip(after, 1), all)
      ELSE Gives(Expect(after, "]"), Arr(all))

Array(S) ==
  LET s == Skip(S, 1)
  IN  IF Sees(s, "]") THEN Gives(Skip(s, 1), Arr(<< >>)) ELSE Elements(s, << >>)

(* parse_map, from the first key on.                                       *)
Pairs(S, kvs) ==
  LET s == SkipEnds(S)
      key == IF Kind(s) = "num" THEN Num(At(s, 0)[2]) ELSE Str(At(s, 0)[2])
      e == Expression(Skip(s, 2), FALSE)
      after == SkipEnds(Holds(e, e.n, e.n))
      all == Append(kvs, <<key, e.n>>)
  IN  IF Kind(s) \notin {"ide", "num", "str"} \/ At(s, 1) # <<"op", "=">> THEN Reject(s)
      ELSE IF Sees(after, ",") THEN Pairs(Skip(after, 1), all)
      ELSE Gives(Expect(after, "}"), MapE(all))

Map(S) ==
  LET s == Skip(S, 1)
  IN  IF Sees(s, "}") THEN Gives(Skip(s, 1), MapE(<< >>)) ELSE Pairs(s, << >>)

(* parse_cargs.                                                            *)
Cargs(S, es) ==
  LET e == Expression(S, FALSE)
      all == Append(es, e.n)
  IN  IF e.n = None THEN Reject(e)
      ELSE IF Sees(e, ",") THEN Cargs(Skip(e, 1), all)
      ELSE Gives(Expect(e, ")"), [t |-> "args", es |-> all])

(* parse_args: the parameters of a function.  Another token in the place   *)
(* of a name, or of the comma behind it, is passed over.                   *)
Args(S, names) ==
  LET isName == Kind(S) = "ide"
      s == IF isName THEN Skip(S, 1) ELSE Note(S, "params")
      all == IF isName THEN Append(names, At(S, 0)[2]) ELSE names
      Is(state, va) == Gives(Skip(state, 1), [t |-> "args", es |-> all, va |-> va])
  IN  IF Kind(S) \notin {"ide", "op"} THEN Reject(S)
      ELSE IF Sees(S, "...") THEN
        CASE At(S, 1) = <<"nothing", 0>> -> Wild(S)
          [] At(S, 1) = <<"op", ")">> -> Is(Skip(S, 1), TRUE)
          [] At(S, 1) \notin {<<"nothing", 0>>, <<"op", ")">>} -> Reject(S)
      ELSE IF Sees(s, ")") THEN Is(s, FALSE)
      ELSE IF Sees(s, ",") THEN Args(Skip(s, 1), all)
      ELSE Args(Skip(Note(s, "params"), 1), all)

(* parse_function.                                                         *)
Function(S) ==
  LET isNamed == At(S, 1)[1] = "ide"
      name == IF isNamed THEN At(S, 1)[2] ELSE ""
      open == Expect(Skip(S, IF isNamed THEN 2 ELSE 1), "(")
      args == IF Sees(open, ")")
              THEN Gives(Skip(open, 1), [t |-> "args", es |-> << >>, va |-> FALSE])
              ELSE Args(open, << >>)
      body == Lsegment(Expect(args, "{"), << >>)
  IN  IF body.n.t = "block" /\ body.n.es = << >> THEN Reject(body)
      ELSE Gives(body, Fun(name, args.n.es, args.n.va, body.n.es))

(* The "(" of parse_base: an assignment may stand inside, but no list.     *)
Paren(S) ==
  LET e == Expression(Skip(S, 1), FALSE)
  IN  IF AtEnd(e) THEN Wild(e)
      ELSE Expect(IF e.n = None THEN Note(e, "empty") ELSE e, ")")

(* parse_base.                                                             *)
Base(S) ==
  LET v == At(S, 0)[2]
  IN  CASE Kind(S) = "ide" ->
             IF At(S, 1)[1] \in {"nothing", "end", "key", "op"}
             THEN Gives(Skip(S, 1), V(v)) ELSE Reject(S)
        [] Kind(S) = "str" -> Gives(Skip(S, 1), T(v))
        [] Kind(S) = "num" -> Gives(Skip(S, 1), N(S.i))
        [] Kind(S) \in {"bool", "nil"} -> Gives(Skip(S, 1), C(At(S, 0)))
        [] Kind(S) = "key" -> IF v = "function" THEN Function(S) ELSE Gives(S, None)
        [] Kind(S) = "op" -> (CASE v = "[" -> Array(S)
                                [] v = "{" -> Map(S)
                                [] v = "(" -> Paren(S)
                                [] v \notin {"[", "{", "("} -> Gives(S, None))
        [] Kind(S) \in {"end", "nothing"} -> Reject(S)

(* parse_term: "!" and "-" take what parse_base takes and no more.  A      *)
(* number is negated in its token.                                         *)
Term(S) ==
  LET e == Base(Skip(S, 1))
  IN  IF AtEnd(S) THEN Reject(S)
      ELSE IF Sees(S, "!") THEN Holds(e, e.n, Not(e.n))
      ELSE IF ~Sees(S, "-") THEN Base(S)
      ELSE IF e.n = None THEN Wild(e)
      ELSE IF IsNumber(e.n) THEN Changed(e, e.n, -Number(e, e.n))
      ELSE Gives(e, Neg(e.n))

(* parse_deep, from the first operator on.                                 *)
DeepRest(S) ==
  LET cat == Deep(Skip(S, 1))
      key == Expression(Skip(S, 1), FALSE)
      close == Expect(key, "]")
      call == IF At(S, 1) = <<"op", ")">> THEN Gives(Skip(S, 2), [t |-> "args", es |-> << >>])
              ELSE Cargs(Skip(S, 1), << >>)
  IN  CASE Sees(S, "..") ->
             IF S.n = None THEN Reject(S) ELSE IF cat.n = None THEN Reject(cat)
             ELSE Gives(cat, Bin("CAT", S.n, cat.n))
        [] Sees(S, "[") ->
             IF ~Readable(S.n) THEN Reject(S)
             ELSE DeepRest(Holds(close, key.n, Idx(S.n, key.n)))
        [] Sees(S, "(") ->
             IF S.n = None THEN Wild(S) ELSE IF ~Readable(S.n) THEN Reject(S)
             ELSE DeepRest(Gives(call, Do(S.n, call.n.es)))
        [] Sees(S, ".") ->
             IF ~Readable(S.n) \/ At(S, 1)[1] # "ide" THEN Reject(S)
             ELSE DeepRest(Gives(Skip(S, 2), Dot(S.n, At(S, 1)[2])))
        [] ~\E op \in {"..", "[", "(", "."} : Sees(S, op) -> S

Deep(S) == DeepRest(Term(S))

-----------------------------------------------------------------------------
(* Statements.                                                             *)

(* Faulty variant of Lsegment: an end ends the segment.                    *)
LsegmentLine(S, body) ==
  LET s == Segcontent(S)
  IN  IF AtEnd(S) THEN Reject(S)
      ELSE IF Kind(S) = "end" \/ Sees(S, "}")
      THEN Gives(Skip(S, 1), [t |-> "block", es |-> body])
      ELSE Lsegment(s, Append(body, s.n))

(* parse_lsegment, behind its "{".                                         *)
Lsegment(S, body) ==
  LET s == Segcontent(S)
  IN  IF AtEnd(S) THEN Reject(S)
      ELSE IF Kind(S) = "end" THEN Lsegment(Skip(S, 1), body)
      ELSE IF Sees(S, "}") THEN Gives(Skip(S, 1), [t |-> "block", es |-> body])
      ELSE Lsegment(s, Append(body, s.n))

(* A segment in braces, or a single statement without.                     *)
Part(S) ==
  LET s == Segcontent(S)
  IN  IF Sees(S, "{") THEN Lsegment(Skip(S, 1), << >>)
      ELSE IF AtEnd(S) THEN Wild(S)
      ELSE Gives(s, [t |-> "block", es |-> <<s.n>>])

(* parse_local: names, each with a value or without.  A comma that no name *)
(* follows is left to the next statement.                                  *)
Decls(S, decls) ==
  LET set == Expression(S, FALSE)
      s == IF At(S, 1) = <<"op", "=">> THEN set ELSE Gives(Skip(S, 1), None)
      e == IF s.n = None THEN None ELSE s.n.r
      all == Append(decls, <<At(S, 0)[2], e>>)
  IN  IF Kind(S) # "ide" THEN Reject(S)
      ELSE IF Sees(s, ",") /\ At(s, 1)[1] = "ide" THEN Decls(Skip(s, 1), all)
      ELSE Gives(s, Loc(all))

(* parse_for; the step is a literal number.                                *)
For(S) ==
  LET open == Expect(Skip(S, 1), "(")
      init == IF Kind(open) # "ide" THEN Reject(open)
              ELSE IF At(open, 1) = <<"nothing", 0>> THEN Wild(open)
              ELSE IF At(open, 1) # <<"op", "=">> THEN Reject(open)
              ELSE Expression(open, FALSE)
      count == Expression(Expect(init, ","), FALSE)
      step == Expect(IF count.n = None THEN Wild(count)
                     ELSE IF Countable(count.n) THEN count ELSE Reject(count), ",")
      close == Expect(IF Kind(step) = "num" THEN Skip(step, 1) ELSE Reject(step), ")")
      body == Lsegment(Expect(close, "{"), << >>)
  IN  Gives(body, ForE(init.n.l.name, init.n.r, count.n, At(step, 0)[2], body.n.es))

(* parse_foreach.                                                          *)
Foreach(S) ==
  LET Variable(s) == IF s.n = None THEN Wild(s)
                     ELSE IF s.n.t = "var" THEN s ELSE Reject(s)
      k == Variable(Deep(Expect(Skip(S, 1), "(")))
      v == Variable(Deep(Expect(k, ",")))
      in == IF SeesKey(v, "in") THEN Skip(v, 1) ELSE Reject(v)
      c == Expression(in, FALSE)
      ctn == IF c.n = None THEN Wild(c) ELSE IF Readable(c.n) THEN c ELSE Reject(c)
      body == Lsegment(Expect(Expect(ctn, ")"), "{"), << >>)
  IN  Gives(body, EachE(k.n.name, v.n.name, c.n, body.n.es))

(* parse_if; the line may end between the segment and its else.            *)
If(S) ==
  LET c == Binary(Expect(Skip(S, 1), "("), 1)
      then == Part(Expect(IF c.n = None THEN Reject(c) ELSE c, ")"))
      else == Elif(IF Kind(then) = "end" THEN Skip(then, 1) ELSE then)
  IN  IF then.n.t = "block" /\ then.n.es = << >> THEN Reject(then)
      ELSE Gives(else, IfE(c.n, then.n.es, else.n.es))

(* parse_elif.                                                             *)
Elif(S) ==
  LET s == Skip(S, 1)
  IN  IF ~SeesKey(S, "else") THEN Gives(S, [t |-> "block", es |-> << >>])
      ELSE IF AtEnd(s) THEN Reject(s) ELSE Part(s)

(* Faulty variant of Return: the keyword is only looked at.                *)
ReturnSeen(S) ==
  IF At(S, 1)[1] \in {"nothing", "end"} THEN Gives(S, Ret(None))
  ELSE LET e == Expression(Skip(S, 1), TRUE) IN Gives(e, Ret(e.n))

(* parse_return.                                                           *)
Return(S) ==
  LET e == Expression(Skip(S, 1), TRUE) IN Gives(e, Ret(e.n))

(* parse_segcontent: one statement.                                        *)
Segcontent(S) ==
  LET key == At(S, 0)[2]
      Known == {"local", "function", "for", "foreach", "return", "if", "break", "continue"}
  IN  CASE Kind(S) = "ide" -> Expression(S, TRUE)
        [] Kind(S) = "key" /\ key \in Known ->
             (CASE key = "local" -> Decls(Skip(S, 1), << >>)
                [] key = "function" -> Deep(S)
                [] key = "for" -> For(S)
                [] key = "foreach" -> Foreach(S)
                [] key = "return" -> Return(S)
                [] key = "if" -> If(S)
                [] key = "break" -> Gives(Skip(S, 1), Brk)
                [] key = "continue" -> Gives(Skip(S, 1), Cont))
        [] Kind(S) # "ide" /\ (Kind(S) = "key" => key \notin Known) -> Reject(S)

-----------------------------------------------------------------------------
(* parse_gsegment.                                                         *)

(* The lexer makes a token of a line end only behind what may end a        *)
(* statement.                                                              *)
Lexed(ts) ==
  \A i \in DOMAIN ts : ts[i][1] = "end" =>
    i > 1 /\ (ts[i - 1][1] \in {"ide", "num", "str"} \/ ts[i - 1] = <<"key", "return">>)

Init ==
  /\ \/ /\ program = 0
        /\ \E x \in DOMAIN Inputs : \E k \in 0 .. Inputs[x].len :
             \E m \in [1 .. k -> Inputs[x].set] :
               parser = Open(Inputs[x].before \o FlattenSeq(m) \o Inputs[x].after)
        /\ Lexed(parser.ts)
     \/ program \in DOMAIN Programs /\ parser = Open(Texts(Programs[program]))
  /\ trees = << >>
  /\ status = "parsing"

SkipEnd ==
  /\ status = "parsing" /\ Kind(parser) = "end"
  /\ parser' = Skip(parser, 1)
  /\ UNCHANGED <<program, trees, status>>

(* A statement is parsed and its tree handed to the code generator.        *)
Statement ==
  /\ status = "parsing" /\ ~AtEnd(parser) /\ Kind(parser) # "end"
  /\ parser' = Parse(parser)
  /\ IF parser'.err # "" THEN trees' = trees
     ELSE trees' = Append(trees, Resolved(parser', parser'.n))
  /\ status' = IF parser'.err # "" THEN parser'.err
               ELSE IF "hole" \in parser'.odd THEN "wild" ELSE status
  /\ UNCHANGED program

End ==
  /\ status = "parsing" /\ AtEnd(parser)
  /\ status' = "done"
  /\ UNCHANGED <<program, parser, trees>>

Next == SkipEnd \/ Statement \/ End

Spec == Init /\ [][Next]_vars

-----------------------------------------------------------------------------
(* The trees of a script are what its tokens say: operators bind as the    *)
(* grammar has it, numbers are calculated right, each else, brace, comma   *)
(* and line end went where it belongs, and no token was passed over        *)
(* (a2_parse.c:563-719 and all that calls it), with the exceptions noted   *)
(* in odd.                                                                 *)
Faithful ==
  (status = "done" /\ parser.odd = {}) => Describes(trees, parser.given)

(* Every printed script is read, and as what it was printed from: no form  *)
(* is refused or misread in any place where the grammar allows it.         *)
RoundTrip ==
  (program # 0 /\ status # "parsing") => status = "done" /\ trees = Programs[program]

(* Every round of parse_gsegment takes a token, or is the last one: the    *)
(* loop at a2_parse.c:218 has no other way to end than to run out of       *)
(* tokens or into an error, and no form of a statement returns a node      *)
(* without having read something.                                          *)
Advances == [][parser'.i > parser.i \/ status' # status]_vars

=============================================================================
