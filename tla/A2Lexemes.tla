----------------------------- MODULE A2Lexemes ------------------------------
(***************************************************************************)
(* What tokens a text consists of, without a word on how to read it: the   *)
(* longest lexeme comes first, and each kind of lexeme is a set of texts.  *)
(* Texts are sequences of bytes, and one byte stands for all those that    *)
(* the tables of src/src/a2_lex.c treat alike.                             *)
(***************************************************************************)
EXTENDS Integers, Sequences, FiniteSets, SequencesExt, FiniteSetsExt

(* "k" stands for a keyword, "r" for the keyword return and "t" for true,  *)
(* false and nil; "e" is a hexadecimal digit.                              *)
Letters == {"a", "e", "x", "n", "k", "r", "t"}
Digits == {"0", "1"}
HexDigits == Digits \cup {"e"}
Quotes == {"'", "\""}
SingleOps == {"(", "+"}
EqualOps == {">", "="}
Bytes == Letters \cup Digits \cup Quotes \cup SingleOps \cup EqualOps
           \cup {".", "\\", "nl", ";", " ", "#", "?"}

OnlyOf(s, set) == \A i \in DOMAIN s : s[i] \in set

IsWord(s) == s[1] \in Letters /\ OnlyOf(s, Letters \cup Digits)

IsHex(s) == Len(s) >= 2 /\ s[1] = "0" /\ s[2] = "x" /\ OnlyOf(Tail(Tail(s)), HexDigits)

(* Any number of points, but a digit behind each of them.                  *)
IsDecimal(s) ==
  /\ s[1] \in Digits
  /\ OnlyOf(s, Digits \cup {"."})
  /\ \A i \in DOMAIN s : s[i] = "." => i < Len(s) /\ s[i + 1] \in Digits

Ops == {<<".">>, <<".", ".">>, <<".", ".", ".">>}
         \cup {<<c>> : c \in SingleOps \cup EqualOps} \cup {<<c, "=">> : c \in EqualOps}

(* The quote at place i has an even number of backslashes before it.       *)
Closes(s, i) ==
  /\ i > 1 /\ s[i] = s[1]
  /\ \E n \in 0 .. i - 2 :
       /\ n % 2 = 0
       /\ \A j \in i - n .. i - 1 : s[j] = "\\"
       /\ i - n - 1 > 1 => s[i - n - 1] # "\\"

IsString(s) ==
  /\ s[1] \in Quotes
  /\ Closes(s, Len(s)) /\ \A i \in 1 .. Len(s) - 1 : ~Closes(s, i)

(* A comment takes the newline at its end with it.                         *)
IsComment(s) == s[1] = "#" /\ \A i \in 1 .. Len(s) - 1 : s[i] # "nl"

IsLexeme(s) ==
  \/ IsWord(s) \/ IsHex(s) \/ IsDecimal(s) \/ s \in Ops \/ IsString(s) \/ IsComment(s)
  \/ s \in {<<"nl">>, <<";">>, <<" ">>}

(* What is known of a string behind one more byte c: what it consists of   *)
(* so far, and whether a backslash waits for what it escapes.  Backslashes *)
(* pair with what they escape, others stay, and the newlines are lost.     *)
KeptWith(st, c) ==
  IF st.open /\ c \in Quotes \cup {"\\", "n"}
  THEN [open |-> FALSE, out |-> Append(st.out, IF c = "n" THEN "newline" ELSE c)]
  ELSE LET out == IF st.open THEN Append(st.out, "\\") ELSE st.out
       IN  [open |-> c = "\\", out |-> IF c \in {"\\", "nl"} THEN out ELSE Append(out, c)]

NothingKept == [open |-> FALSE, out |-> << >>]

Kept(s) ==
  LET kept[i \in 1 .. Len(s)] ==
        IF i = 1 THEN NothingKept ELSE KeptWith(kept[i - 1], s[i])
  IN  kept

(* The bytes of a string, without its quotes.                              *)
Content(s) == Kept(s)[Len(s) - 1].out

Keys == {<<"k">>, <<"r">>}
Values == {<<"t">>}

Token(k, v, line) == [k |-> k, v |-> v, line |-> line]

TokenOf(s, line) ==
  CASE IsWord(s) -> Token(IF s \in Keys THEN "key" ELSE IF s \in Values THEN "val" ELSE "ide",
                          s, line)
    [] IsHex(s) -> Token("hex", Tail(Tail(s)), line)
    [] IsDecimal(s) -> Token("num", s, line)
    [] s \in Ops -> Token("op", s, line)
    [] OTHER -> Token("str", Content(s), line)

(* What may stand at the end of a statement.                               *)
EndsStatement(token) == token.k \notin {"end", "op"} /\ (token.k = "key" => token.v = <<"r">>)

Wrong == <<Token("wrong", << >>, 0)>>

(* A number may not be followed by a single point.                         *)
IsLonePoint(text, p) ==
  p <= Len(text) /\ text[p] = "." /\ (p = Len(text) \/ text[p + 1] # ".")

(* Where a lexeme that begins at place p may end.                          *)
Ends(text, p) == {q \in p .. Len(text) : IsLexeme(SubSeq(text, p, q))}

LineAt(text, p) == 1 + Cardinality({i \in 1 .. p - 1 : text[i] = "nl"})

(* The tokens with that of the lexeme s, which begins on the line.         *)
With(ts, s, line) ==
  CASE s[1] \in {" ", "#"} -> ts
    [] s[1] \in {"nl", ";"} ->
         IF ts # << >> /\ EndsStatement(Last(ts)) THEN Append(ts, Token("end", << >>, 0)) ELSE ts
    [] OTHER -> Append(ts, TokenOf(s, line))

Refused == [next |-> 0, tokens |-> Wrong]

(* The longest lexeme that begins at place next is taken, and the next one *)
(* begins behind it.                                                       *)
Taken(st, text, p, q) ==
  LET s == SubSeq(text, p, q)
  IN  IF IsDecimal(s) /\ IsLonePoint(text, q + 1) THEN Refused
      ELSE [next |-> q + 1, tokens |-> With(st.tokens, s, LineAt(text, p))]

TakenAt(st, text, p) ==
  IF p # st.next THEN st
  ELSE IF Ends(text, p) = {} THEN Refused
  ELSE Taken(st, text, p, Max(Ends(text, p)))

NothingTaken == [next |-> 1, tokens |-> << >>]

(* What is known of a text at each place: its tokens so far, and where the *)
(* next one begins.                                                        *)
Takes(text) ==
  LET takes[p \in 0 .. Len(text)] ==
        IF p = 0 THEN NothingTaken ELSE TakenAt(takes[p - 1], text, p)
  IN  takes

(* The tokens of a text, Wrong if it has none.                             *)
Tokens(text) == Takes(text)[Len(text)].tokens

=============================================================================
