------------------------------ MODULE MCA2Parse -----------------------------
(***************************************************************************)
(* Instances of A2Parse for TLC: all short sequences of tokens, in places  *)
(* of statements where they matter, and the scripts of MCScripts.          *)
(***************************************************************************)
EXTENDS A2Parse, MCScripts

(* The operators of the two modules, in a form that TLC takes for values.  *)
MCParse(S) == LET s == Segcontent(S) IN s
MCDescribes(body, t) == LET answer == Grammar!Block(body, t) IN answer
MCTexts(body) == LET t == Grammar!TextLines(body) IN t

Keys == {"return", "local", "function", "if", "else", "for", "foreach", "in", "break"}

Token(s) ==
  CASE s = "a" -> Grammar!NameT(s)
    [] s = "2" -> Num(2)
    [] s = "s" -> <<"str", s>>
    [] s = ";" -> Grammar!EndT
    [] s \in Keys -> Grammar!KeyT(s)
    [] s \notin Keys \cup {"a", "2", "s", ";"} -> Grammar!OpT(s)

Tokens(ss) == IF ss = << >> THEN << >> ELSE [i \in 1 .. Len(ss) |-> Token(ss[i])]

FillP(before, pieces, len, after) ==
  [before |-> Tokens(before), set |-> {Tokens(p) : p \in pieces}, len |-> len,
   after |-> Tokens(after)]

Fill(before, set, len, after) == FillP(before, {<<s>> : s \in set}, len, after)

Then(ops, pieces) == {<<op>> \o p : op \in ops, p \in pieces}

Expressions ==
  <<Fill(<<"a", "=">>, {"a", "2", "(", "-", ")", "+"}, 4, << >>),
    Fill(<<"a">>, {"a", "(", ")", "[", "]", "."}, 4, << >>),
    Fill(<<"a">>, {"a", "2", "(", ")", "=", ",", ";"}, 4, << >>),
    Fill(<<"a", "=", "{">>, {"a", "2", "=", ",", ";", "}"}, 4, << >>),
    Fill(<<"a", "=", "[">>, {"a", "2", ",", ";", "]", "("}, 4, << >>),
    FillP(<<"a", "=", "2">>, Then({"+", "-", "*", "/"}, {<<"a">>, <<"2">>, <<"-", "2">>}), 3, << >>),
    FillP(<<"a", "=", "a">>, Then({"+", "*", "..", "<", "&", "|"}, {<<"a">>, <<"s">>}), 4, << >>),
    FillP(<<"a", "=", "a">>, Then({"-", "/", "..", "==", "&", "|", "="}, {<<"a">>, <<"!", "a">>}), 3, << >>),
    FillP(<<"a", "=", "(", "a">>, Then({"+", "*", ".."}, {<<"a">>, <<"(", "2">>, <<"a", ")">>}), 4, <<")">>),
    FillP(<<"a">>, {<<"[", "2", "]">>, <<".", "a">>, <<"(", ")">>, <<"(", "a", ";", ")">>, <<"..", "a">>,
                    <<"=", "a">>, <<",", "a">>, <<"+", "2">>}, 5, << >>),
    FillP(<<"a", "=">>, {<<"[">>, <<"]">>, <<"a", ",">>, <<"2">>, <<";">>, <<"{">>, <<"}">>, <<"s", "=">>}, 4, << >>),
    FillP(<<"a", "(">>, {<<"2", ",">>, <<"a">>, <<")">>, <<";">>, <<"(">>, <<"a", "=">>}, 5, << >>)>>

Statements ==
  <<Fill(<<"return">>, {"a", "2", ",", ";", "!", "("}, 4, << >>),
    Fill(<<"local">>, {"a", "2", ",", ";", "="}, 5, << >>),
    Fill(<<"function", "(">>, {"a", "2", ",", "...", ")"}, 4, <<")", "{", "break", "}">>),
    Fill(<<"if", "(">>, {"a", ")", "!", "{", "break", "}"}, 4, << >>),
    FillP(<<"if", "(", "a", ")">>, {<<"break">>, <<"{">>, <<"}">>, <<"else">>, <<"if", "(", "a", ")">>,
                                    <<"a", "=", "a", ";">>}, 5, << >>),
    FillP(<< >>, {<<"function", "a", "(", ")">>, <<"{">>, <<"}">>, <<"if", "(", "2", ")">>, <<"return">>,
                  <<"a", ";">>}, 6, << >>),
    FillP(<<"function", "a", "(", ")", "{">>, {<<"for", "(", "a", "=", "2", ",", "a", ",", "2", ")">>, <<"{">>,
             <<"}">>, <<"break", "break">>, <<"local", "a">>, <<";">>}, 5, <<"}">>),
    Fill(<<"for", "(">>, {"a", "=", ",", "2", "s"}, 5, <<",", "2", ")", "{", "}">>),
    Fill(<<"for", "(", "a", "=", "a", ",">>, {"a", "2", ",", ")", "{", "}"}, 4, << >>),
    Fill(<<"foreach", "(">>, {"a", ",", "in", "[", "]", ")"}, 5, <<")", "{", "}">>),
    Fill(<<"a", "(", ")">>, {"a", ";", "=", "break", "else", "}"}, 4, << >>)>>

MCInputs == Expressions \o Statements

=============================================================================
