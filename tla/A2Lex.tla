------------------------------- MODULE A2Lex --------------------------------
(***************************************************************************)
(* The lexer of src/src/a2_lex.c reading from a stream of A2Stream, byte   *)
(* after byte.  What it finds is compared with A2Lexemes, which knows the  *)
(* whole text.                                                             *)
(*                                                                         *)
(* Numbers are kept as their digits.  That a word is a keyword is found by *)
(* hash and comparison: the set Keys of A2Lexemes.                         *)
(***************************************************************************)
EXTENDS A2Stream, A2Lexemes

CONSTANTS
  Strings,  \* Texts given as strings.
  Files     \* Texts given as files.

VARIABLES
  io,       \* The stream.
  mode,     \* What is being read: "main", "comment", "string", "word",
            \* "hex", "decimal", or how it ended: "done", "error".
  buf,      \* a2_s_num_bufs.
  quote,    \* What the string began with.
  at,       \* The line where the token began.
  line,     \* The line.
  tokens    \* The tokens found.

vars == <<io, mode, buf, quote, at, line, tokens>>

ASSUME TextsAssumption ==
  /\ Strings \cup Files \subseteq Seq(Bytes) \ {<< >>}
  /\ Nul \notin Bytes /\ Unknown \notin Bytes \cup {Nul}

Init ==
  /\ io \in {OpenS(t) : t \in Strings} \cup {Open(t) : t \in Files}
  /\ mode = "main"
  /\ buf = << >> /\ quote = "'" /\ at = 1
  /\ line = 1
  /\ tokens = << >>

(* What a2_io_atchar can give: memory that nobody wrote holds any byte.    *)
Current(s) == IF AtChar(s) = Unknown THEN Bytes ELSE {AtChar(s)}

(* The loop of a2_lex_read is at a byte of this set.                       *)
Sees(set) == mode = "main" /\ ~IsEnd(io, 0) /\ Current(io) \cap set # {}

Add(token) == tokens' = Append(tokens, token)

(* What is read from here on belongs to one token, or to a comment.        *)
Begin(m, s) ==
  /\ mode' = m /\ io' = s /\ buf' = << >> /\ at' = line
  /\ UNCHANGED <<line, tokens>>

-----------------------------------------------------------------------------
(* Comments.                                                               *)

Comment == Sees({"#"}) /\ Begin("comment", io) /\ UNCHANGED quote

(* Faulty variant of CommentByte: only a newline ends a comment.           *)
CommentByteOn ==
  /\ mode = "comment"
  /\ io' = Advanced(io)
  /\ IF ReadChar(io) = "nl" THEN mode' = "main" ELSE UNCHANGED mode
  /\ line' = IF ReadChar(io) = "nl" THEN line + 1 ELSE line
  /\ UNCHANGED <<buf, quote, at, tokens>>

(* The loop ends at a newline, which is read as well, or at the end.       *)
CommentByte ==
  /\ mode = "comment"
  /\ io' = Advanced(io)
  /\ IF ReadChar(io) \in {"nl", Nul} THEN mode' = "main" ELSE UNCHANGED mode
  /\ line' = IF ReadChar(io) = "nl" THEN line + 1 ELSE line
  /\ UNCHANGED <<buf, quote, at, tokens>>

-----------------------------------------------------------------------------
(* lex_string.                                                             *)

StringBegin ==
  /\ Sees(Quotes)
  /\ Begin("string", Advanced(io))
  /\ quote' = ReadChar(io)

Keep(c, s) == buf' = Append(buf, c) /\ io' = s /\ UNCHANGED <<mode, quote, at, line, tokens>>

(* Faulty variant of Escape: only a quote of the kind that began the       *)
(* string can be escaped.                                                  *)
EscapeOwn ==
  /\ mode = "string" /\ ~IsEnd(io, 0) /\ ReadChar(io) = "\\"
  /\ LET s == Advanced(io)
     IN  \E c \in Current(s) :
           CASE c = "n" -> Keep("newline", Advanced(s))
             [] c \in {quote, "\\"} -> Keep(c, Advanced(s))
             [] OTHER -> Keep("\\", s)

(* A backslash, and what it escapes; before other bytes it stays.          *)
Escape ==
  /\ mode = "string" /\ ~IsEnd(io, 0) /\ ReadChar(io) = "\\"
  /\ LET s == Advanced(io)
     IN  \E c \in Current(s) :
           CASE c = "n" -> Keep("newline", Advanced(s))
             [] c \in Quotes \cup {"\\"} -> Keep(c, Advanced(s))
             [] OTHER -> Keep("\\", s)

StringByte ==
  /\ mode = "string" /\ ~IsEnd(io, 0) /\ ReadChar(io) \notin {"\\", "nl", quote}
  /\ Keep(ReadChar(io), Advanced(io))

StringLine ==
  /\ mode = "string" /\ ~IsEnd(io, 0) /\ ReadChar(io) = "nl"
  /\ line' = line + 1
  /\ io' = Advanced(io)
  /\ UNCHANGED <<mode, buf, quote, at, tokens>>

StringEnd ==
  /\ mode = "string" /\ ~IsEnd(io, 0) /\ ReadChar(io) = quote
  /\ Add(Token("str", buf, at))
  /\ mode' = "main" /\ io' = Advanced(io)
  /\ UNCHANGED <<buf, quote, at, line>>

StringOpen ==
  /\ mode = "string" /\ IsEnd(io, 0)
  /\ mode' = "error"
  /\ UNCHANGED <<io, buf, quote, at, line, tokens>>

-----------------------------------------------------------------------------
(* lex_number and lex_identifier.                                          *)

NumberBegin ==
  /\ Sees(Digits)
  /\ \E c \in Current(io) \cap Digits :
       IF c = "0" /\ MatchChar(io, 1) = "x"
       THEN Begin("hex", Advanced(Advanced(Looked(io, 1))))
       ELSE Begin("decimal", Looked(io, 1))
  /\ UNCHANGED quote

WordBegin == Sees(Letters) /\ Begin("word", io) /\ UNCHANGED quote

(* Faulty variant of PointOf: what follows the point is not looked at.     *)
PointOfAny(c) == c = "."

(* A point goes with the number if a digit follows it.                     *)
PointOf(c) == c = "." /\ MatchChar(io, 1) \in Digits

(* Byte c goes with what is being read.                                    *)
Goes(c) ==
  CASE mode = "word" -> c \in Letters \cup Digits
    [] mode = "hex" -> c \in HexDigits
    [] mode = "decimal" -> c \in Digits \/ PointOf(c)

Reading == mode \in {"word", "hex", "decimal"}

(* The stream when it is known what byte c is: a look behind a point may   *)
(* have loaded a block.                                                    *)
Consulted(c) == IF mode = "decimal" /\ c = "." THEN Looked(io, 1) ELSE io

Byte ==
  /\ Reading /\ ~IsEnd(io, 0)
  /\ \E c \in Current(io) : Goes(c) /\ Keep(c, Advanced(Consulted(c)))

TokenRead ==
  CASE mode = "word" -> TokenOf(buf, at)
    [] mode = "hex" -> Token("hex", buf, at)
    [] mode = "decimal" -> Token("num", buf, at)

(* A number may not be followed by a single point.  What follows the point *)
(* is looked at a second time.                                             *)
LonePoint(c) == mode = "decimal" /\ c = "." /\ MatchChar(Looked(io, 1), 1) # "."

Finish ==
  /\ Reading
  /\ \/ IsEnd(io, 0) /\ UNCHANGED io
     \/ ~IsEnd(io, 0) /\ \E c \in Current(io) :
          ~Goes(c) /\ ~LonePoint(c) /\ io' = Consulted(c)
  /\ Add(TokenRead)
  /\ mode' = "main"
  /\ UNCHANGED <<buf, quote, at, line>>

NumberWrong ==
  /\ Reading /\ ~IsEnd(io, 0)
  /\ \E c \in Current(io) : ~Goes(c) /\ LonePoint(c) /\ io' = Consulted(c)
  /\ mode' = "error"
  /\ UNCHANGED <<buf, quote, at, line, tokens>>

-----------------------------------------------------------------------------
(* The other cases of a2_lex_read.                                         *)

Operator(s, op) ==
  Add(Token("op", op, line)) /\ io' = s /\ UNCHANGED <<mode, buf, quote, at, line>>

(* One, two or three points: the current byte is looked at after each.     *)
Points ==
  /\ Sees({"."})
  /\ LET one == Advanced(io)
         two == Advanced(one)
     IN  \/ Current(one) # {"."} /\ Operator(one, <<".">>)
         \/ "." \in Current(one) /\ Current(two) # {"."} /\ Operator(two, <<".", ".">>)
         \/ "." \in Current(one) /\ "." \in Current(two)
              /\ Operator(Advanced(two), <<".", ".", ".">>)

Single ==
  /\ Sees(SingleOps)
  /\ \E c \in Current(io) \cap SingleOps : Operator(Advanced(io), <<c>>)

WithEqual ==
  /\ Sees(EqualOps)
  /\ \E c \in Current(io) \cap EqualOps :
       LET s == Advanced(io)
       IN  \/ "=" \in Current(s) /\ Operator(Advanced(s), <<c, "=">>)
           \/ Current(s) # {"="} /\ Operator(s, <<c>>)

(* A newline or a semicolon ends a statement, if there is one to end.      *)
LineEnd ==
  /\ Sees({"nl", ";"})
  /\ \E c \in Current(io) \cap {"nl", ";"} : line' = IF c = "nl" THEN line + 1 ELSE line
  /\ IF tokens # << >> /\ EndsStatement(Last(tokens))
     THEN Add(Token("end", << >>, line' - 1)) ELSE UNCHANGED tokens
  /\ io' = Advanced(io)
  /\ UNCHANGED <<mode, buf, quote, at>>

Blank == Sees({" "}) /\ io' = Advanced(io) /\ UNCHANGED <<mode, buf, quote, at, line, tokens>>

NotAllowed ==
  /\ Sees({"?", "\\"})
  /\ mode' = "error"
  /\ UNCHANGED <<io, buf, quote, at, line, tokens>>

End ==
  /\ mode = "main" /\ IsEnd(io, 0)
  /\ mode' = "done"
  /\ UNCHANGED <<io, buf, quote, at, line, tokens>>

(* a2_lex_read.                                                            *)
Next ==
  \/ Comment \/ CommentByte
  \/ StringBegin \/ Escape \/ StringByte \/ StringLine \/ StringEnd \/ StringOpen
  \/ NumberBegin \/ WordBegin \/ Byte \/ Finish \/ NumberWrong
  \/ Points \/ Single \/ WithEqual \/ LineEnd \/ Blank \/ NotAllowed \/ End

(* The loops of the lexer run without interruption.                        *)
Spec == Init /\ [][Next]_vars /\ WF_vars(Next)

-----------------------------------------------------------------------------
(* Properties.                                                             *)

(* Tokens, but for the line of the ends of statements: for those at a      *)
(* semicolon it is that of the line before.                                *)
Unplaced(ts) == [i \in DOMAIN ts |-> IF ts[i].k = "end" THEN [ts[i] EXCEPT !.line = 0]
                                     ELSE ts[i]]

(* A text is read as the tokens that it consists of, each with the line it *)
(* is on, and it is refused exactly if it does not consist of tokens: one  *)
(* byte of look-ahead at a time finds the longest lexeme, also at the ends *)
(* of lines, strings, blocks and the text (a2_lex.c:84-183).               *)
Lexed ==
  /\ mode = "done" => Unplaced(tokens) = Tokens(io.text)
  /\ mode = "error" => Tokens(io.text) = Wrong

(* Every text is read to its end or refused.                               *)
LexEnds == <>(mode \in {"done", "error"})

=============================================================================
