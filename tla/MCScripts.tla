------------------------------ MODULE MCScripts -----------------------------
(***************************************************************************)
(* Scripts put together from templates, for A2Exec and A2Parse.            *)
(***************************************************************************)
EXTENDS A2Nodes, Integers, Sequences, TLC

Id(args) == Do(V("id"), args)

(* The statements stand in a function h(x, y), which is inside a function  *)
(* with a variable u; g is global.  All four are seen afterwards.          *)
InH(body) ==
  <<Set(V("g"), N(2)),
    Fun("f", <<"p">>, FALSE,
      <<Loc(<< <<"u", N(3)>>,
               <<"h", Fun("", <<"x", "y">>, FALSE,
                          body \o <<Ret(Comma(<<V("x"), V("y"), V("u"), V("g")>>))>>)>> >>),
        Set(Comma(<<V("a"), V("b"), V("c"), V("d")>>), Do(V("h"), <<N(4), N(5)>>)),
        Set(V("e"), V("u"))>>),
    Do(V("f"), <<N(1)>>)>>

(* The scripts that Make gives for each of xs, and for each of xs and ys.  *)
Each1(Make(_), xs) == [i \in DOMAIN xs |-> Make(xs[i])]

Each2(Make(_, _), xs, ys) ==
  [n \in 1 .. Len(xs) * Len(ys) |->
     Make(xs[(n - 1) \div Len(ys) + 1], ys[((n - 1) % Len(ys)) + 1])]

Leaf == <<V("x"), V("u"), V("g"), Id(<<V("y")>>), N(1)>>

Values ==
  Each2(LAMBDA i, j : Bin("ADD", Leaf[i], Leaf[j]), <<1, 2, 3, 4>>, <<1, 2, 3, 4, 5>>)
  \o Each2(LAMBDA i, j : Bin("SUB", Bin("MUL", Leaf[i], N(3)), Leaf[j]), <<1, 2, 3, 4>>, <<1, 2, 3, 4, 5>>)
  \o Each2(LAMBDA i, j : Bin("CAT", Leaf[i], Bin("CAT", T("s"), Leaf[j])), <<1, 2, 3, 4, 5>>, <<1, 2, 3, 4, 5>>)

(* What a value is put into.                                               *)
Targets == <<V("x"), V("u"), V("g"), V("n")>>

Sums == Each2(LAMBDA t, e : InH(<<Set(t, e)>>), Targets, Values)

Truths ==
  <<Bin("LITE", V("x"), V("g")), Bin("BIGE", Bin("ADD", V("u"), N(2)), V("y")),
    Bin("EQU", Id(<<V("x")>>), N(4)), Not(Bin("BIG", V("y"), V("x"))),
    Bin("AND", Bin("LITEE", V("x"), N(4)), Not(Bin("NEQU", V("u"), N(3)))),
    Bin("OR", Bin("NEQU", V("g"), N(2)), Bin("LITE", Neg(V("y")), V("x"))),
    C(Nil), C(Bool(TRUE)), V("x"), Not(C(Nil))>>

Branches ==
  Each2(LAMBDA c, t :
    InH(<<IfE(c, <<Loc(<< <<"z", V("y")>> >>), Set(t, Bin("MUL", V("z"), V("z")))>>,
              IF t = V("u") THEN << >>
              ELSE <<Loc(<< <<"z", N(9)>> >>), Set(t, Bin("ADD", V("x"), V("z")))>>),
          Set(V("y"), t)>>),
    Truths, <<V("x"), V("u"), V("g")>>)

(* Loops inside loops, with what ends a round early in either.             *)
Bodies ==
  <<Set(V("u"), Bin("ADD", V("u"), V("i"))),
    IfE(Bin("EQU", V("i"), N(2)), <<Brk>>, <<Set(V("g"), Bin("ADD", V("g"), V("i")))>>),
    IfE(Bin("EQU", V("i"), N(2)), <<Cont>>, << >>),
    IfE(Bin("BIG", V("i"), N(1)), <<Ret(V("i"))>>, << >>),
    Loc(<< <<"z", None>>, <<"w", Bin("MUL", V("i"), V("x"))>> >>)>>

Tail1 == Set(V("x"), Bin("SUB", V("x"), V("i")))

Ranges == << <<N(1), V("x"), 1>>, <<V("u"), N(3), 1>>, <<Bin("SUB", V("u"), N(2)), V("y"), 2>> >>

Counts ==
  Each2(LAMBDA r, b : InH(<<ForE("i", r[1], r[2], r[3], <<b, Tail1>>)>>), Ranges, Bodies)

Ends(n) == IfE(Bin("EQU", V("j"), N(1)), <<IF n = 1 THEN Brk ELSE Cont>>, <<Set(V("u"), V("j"))>>)

Nested ==
  Each2(LAMBDA b, n :
          InH(<<ForE("j", N(0), N(3), 1,
                  <<ForE("i", N(1), N(4), 1, <<b, Tail1>>), Ends(n),
                    Set(V("g"), Bin("ADD", V("g"), V("x")))>>)>>),
        Bodies \o <<Set(V("i"), N(7))>>, <<1, 2>>)
  \o
  Each2(LAMBDA b, n :
          InH(<<EachE("l", "j", Arr(<<N(2), N(1), N(0)>>),
                  <<Ends(n), ForE("i", N(1), N(4), 1, <<b, Tail1>>)>>)>>),
        Bodies, <<1, 2>>)

Containers ==
  <<Arr(<<V("x"), Bin("ADD", V("x"), N(3)), V("g")>>), Arr(<< >>),
    MapE(<< <<Str("k"), V("x")>>, <<Num(2), V("u")>> >>),
    MapE(<< <<Str("k"), Arr(<<V("g"), N(7)>>)>>, <<Str("k"), N(6)>> >>)>>

Walks ==
  Each2(LAMBDA c, b : InH(<<EachE("k", "i", c, <<b, Set(V("y"), Bin("SUB", V("i"), V("y")))>>)>>),
        Containers, <<Set(V("u"), Bin("CAT", V("k"), V("i"))), IfE(Bin("EQU", V("k"), N(1)), <<Cont>>, <<Brk>>)>>)

Uses ==
  <<Set(V("y"), Idx(V("t"), N(1))), Set(V("u"), Dot(V("t"), "k")),
    Set(Idx(V("t"), N(0)), Bin("ADD", V("x"), N(1))), Set(Dot(V("t"), "k"), V("u")),
    Set(Idx(V("t"), Bin("SUB", V("u"), N(1))), Id(<<V("x")>>)),
    Set(V("g"), Bin("ADD", Idx(V("t"), N(2)), Idx(V("t"), V("g")))),
    Set(V("y"), Id(<<Idx(V("t"), N(0))>>)), Set(V("y"), Idx(Dot(V("t"), "k"), N(1))),
    Set(V("x"), Do(V("t"), << >>))>>

Accesses ==
  Each2(LAMBDA c, s : InH(<<Loc(<< <<"t", c>> >>), s, Set(V("g"), V("t"))>>),
        Containers \o <<N(1)>>, Uses)

(* A function inside h, and what is done with it.                          *)
Inner ==
  <<Fun("", <<"x">>, FALSE, <<Set(V("y"), Bin("ADD", V("x"), V("u"))), Ret(V("y"))>>),
    Fun("", << >>, FALSE, <<Set(V("u"), V("x")), Ret(Comma(<<V("u"), V("g")>>))>>),
    Fun("", <<"p">>, TRUE, <<Ret(Comma(<<V("_args"), V("p"), V("x")>>))>>),
    Fun("", <<"p", "q">>, FALSE, <<Set(V("x"), V("q")), Ret(None)>>),
    Fun("", <<"p">>, FALSE,
        <<Loc(<< <<"w", Fun("", << >>, FALSE, <<Set(V("u"), V("x")), Ret(V("p"))>>)>> >>),
          Ret(Do(V("w"), << >>))>>)>>

Calls ==
  Each2(LAMBDA f, s : InH(<<Loc(<< <<"m", f>> >>), s>>), Inner,
    <<Set(Comma(<<V("x"), V("n")>>), Do(V("m"), <<V("y"), V("g")>>)),
      Set(V("g"), Bin("CAT", Do(V("m"), <<N(6)>>), Do(V("m"), << >>))),
      Set(Comma(<<V("y"), V("u"), V("n")>>), Do(V("m"), <<Do(V("m"), <<V("x")>>), V("u")>>)),
      Ret(Do(V("m"), <<V("g"), V("y")>>))>>)

Several ==
  Each2(LAMBDA r, l : InH(<<Set(Comma(l), r), Loc(<< <<"z", V("y")>> >>), Set(V("y"), V("z"))>>),
        <<Comma(<<V("y"), V("x")>>), Comma(<<V("u"), V("g"), N(8)>>), Id(<<V("g"), V("y")>>),
          Id(<<Bin("ADD", V("x"), N(1))>>)>>,
        << <<V("x"), V("y")>>, <<V("u"), V("x")>>, <<V("g"), V("u"), V("n")>>, <<V("n"), V("x")>> >>)

(* Statements that no function has, or that go wrong.                      *)
Faults ==
  Each1(LAMBDA s : InH(<<Set(V("g"), V("y")), s>>),
        <<Brk, IfE(V("x"), <<Cont>>, << >>), Loc(<< <<"x", N(1)>> >>),
          Loc(<< <<"z", N(1)>>, <<"z", N(1)>> >>), Id(<<V("x"), N(1), N(2), N(3)>>),
          Set(V("x"), V("nowhere")), Set(V("x"), Neg(T("s"))), Set(V("x"), Not(N(1))),
          Set(V("x"), Bin("ADD", V("x"), Arr(<< >>))), Set(V("x"), Bin("DIV", V("x"), Bin("SUB", V("y"), N(5)))),
          Set(V("x"), Bin("AND", V("x"), V("y"))), Set(V("x"), Bin("EQU", V("x"), C(Nil))),
          ForE("i", T("s"), N(1), 1, <<Brk>>), ForE("i", N(0), V("h"), 1, <<Brk>>),
          ForE("i", N(0), N(1), 1, <<Set(V("i"), T("s"))>>),
          EachE("i", "j", V("x"), <<Brk>>), Do(V("x"), << >>),
          Set(Idx(V("x"), N(1)), N(2))>>)

Unset == <<InH(<<Loc(<< <<"z", None>>, <<"w", None>> >>), Set(V("x"), Bin("CAT", V("z"), V("w")))>>)>>

(* More and more constants, and more and more variables.                   *)
Many ==
  Each1(LAMBDA n : InH([i \in 1 .. n |-> Set(V("g"), Bin("ADD", V("g"), N(10 + i)))]),
        <<2, 3, 4, 8, 20>>)
  \o Each1(LAMBDA n : InH([i \in 1 .. n |-> Loc(<< <<ToString(i), Bin("ADD", V("x"), N(i % 2))>> >>)]),
           <<6, 7, 8, 9, 10, 11>>)
  \o Each1(LAMBDA n : InH(<<Set(V("g"), Arr([i \in 1 .. n |-> Bin("SUB", V("x"), N(1))]))>>), <<7, 9>>)

(* Statements outside of functions.                                        *)
Chunks ==
  Each2(LAMBDA s, e : <<Loc(<< <<"x", N(2)>>, <<"y", None>> >>), Set(V("y"), N(5)), Set(V("g"), N(1)), s,
                        Set(V("x"), e), Set(V("a"), V("x")), Set(V("b"), V("y")), Ret(V("x")), Set(V("b"), N(9))>>,
        <<Fun("f", << >>, FALSE, <<Set(V("x"), Bin("ADD", V("x"), V("y"))), Ret(V("g"))>>),
          Set(V("f"), Fun("", <<"p">>, TRUE, <<Set(V("y"), V("p")), Ret(V("p"))>>)),
          ForE("i", N(0), V("x"), 1, <<Set(V("y"), Bin("SUB", N(9), V("x")))>>)>>,
        <<Bin("ADD", V("y"), N(1)), Id(<<V("y")>>), Do(V("f"), <<V("y"), N(3)>>)>>)

(* Every statement after, and inside, every other.                         *)
Plain ==
  <<Set(V("x"), Bin("ADD", V("x"), Id(<<V("u")>>))), Set(V("g"), Neg(V("y"))),
    Set(V("u"), Bin("SUB", V("g"), V("x"))), Set(Comma(<<V("x"), V("y")>>), Comma(<<V("y"), V("g")>>)),
    Set(Comma(<<V("u"), V("x")>>), Id(<<V("y"), V("u")>>)), Loc(<< <<"z", V("x")>>, <<"w", Id(<<V("y")>>)>> >>),
    Id(<<V("x")>>), Set(V("n"), Arr(<<V("x"), MapE(<< <<Str("k"), V("u")>> >>)>>)),
    IfE(Bin("LITE", V("x"), V("y")), <<Loc(<< <<"q", V("u")>> >>), Set(V("u"), Bin("SUB", N(7), V("q")))>>,
        <<Set(V("x"), V("u"))>>),
    ForE("i", V("g"), V("y"), 2, <<Set(V("x"), Bin("ADD", V("x"), V("i")))>>),
    EachE("k", "v", Arr(<<V("g"), V("y")>>), <<Set(V("g"), V("v")), IfE(Bin("BIG", V("v"), V("x")), <<Brk>>, << >>)>>),
    Fun("r", <<"n">>, FALSE,
        <<IfE(Bin("LITE", V("n"), N(1)), <<Ret(N(7))>>, << >>),
          Ret(Bin("ADD", V("n"), Do(V("r"), <<Bin("SUB", V("n"), N(1))>>)))>>),
    Set(V("g"), Do(V("r"), <<V("g")>>))>>

InSequence == Each2(LAMBDA a, b : InH(<<a, b>>), Plain, Plain)

Around(n, s) ==
  CASE n = 1 -> <<IfE(Bin("EQU", V("x"), N(4)), <<s>>, <<Brk>>)>>
    [] n = 2 -> <<IfE(Bin("NEQU", V("x"), N(4)), <<Set(V("u"), N(1))>>, <<s>>), s>>
    [] n = 3 -> <<ForE("j", N(0), N(2), 1, <<s, Set(V("u"), V("j"))>>)>>
    [] n = 4 -> <<EachE("j", "l", Arr(<<N(4), N(2)>>), <<Set(V("x"), V("l")), s>>)>>
    [] n = 5 -> <<Loc(<< <<"m", Fun("", <<"x">>, FALSE, <<s, Ret(V("x"))>>)>> >>),
                  Set(V("y"), Do(V("m"), <<V("u")>>))>>

Outside ==
  Each2(LAMBDA a, b :
          <<Set(V("g"), N(2)), Loc(<< <<"x", N(4)>>, <<"y", N(5)>>, <<"u", N(3)>> >>), a, b,
            Loc(<< <<"s", Bin("ADD", V("x"), Bin("ADD", V("y"), V("u")))>> >>), Set(V("a"), V("s"))>>,
        Plain, Plain)

Inside == Each2(LAMBDA n, s : InH(Around(n, s)), <<2, 3, 4, 5>>, Plain)

MCPrograms ==
  InSequence \o Outside \o Inside \o
  Sums \o Branches \o Counts \o Nested \o Walks \o Accesses \o Calls \o Several
       \o Faults \o Unset \o Many \o Chunks

=============================================================================
