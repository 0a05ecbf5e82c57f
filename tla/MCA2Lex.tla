------------------------------ MODULE MCA2Lex -------------------------------
(* Instances of A2Lex for TLC: all short texts over all bytes, and longer  *)
(* ones over those that have to do with each other.                        *)
EXTENDS A2Lex, TLC

TextsOf(set, lens) == UNION {[1 .. n -> set] : n \in lens}

MCStrings ==
  TextsOf(Bytes, 1 .. 2)
    \cup TextsOf({"a", "1", "=", ".", "'", "\\", "nl", "#", "?", "("}, {3})
    \cup TextsOf({"0", "x", "e", ".", "="}, {4, 5})
    \cup TextsOf({"0", "."}, {6, 7})
    \cup TextsOf({"'", "\"", "\\", "n", "nl"}, {4, 5})
    \cup {<<"'">> \o t : t \in TextsOf({"'", "\\", "n"}, {6})}
    \cup TextsOf({"a", "k", "r", "t", "nl", ";", "#", "("}, {4})

(* Files that do not end with an operator that may go on and, if they are  *)
(* longer than a block, have the end of each block inside a comment or a   *)
(* string.                                                                 *)
MCFiles ==
  {t \in TextsOf({"a", "1", "=", "'", "#", "\\", "nl"}, 1 .. 4) : t[Len(t)] # "="}
    \cup {Append(t, "nl") : t \in TextsOf({"a", "1", "=", "'", "#"}, {4})}
    \cup {<<"a", "=", "'">> \o t \o <<"'", "nl", "a">> : t \in TextsOf({"n", "nl", "\""}, {3})}
    \cup {<<"=", "#", "n", "n">> \o t \o <<"#", "n", "n", "nl", "1", "nl">> : t \in TextsOf({"n", "'"}, {5})}
    \cup {<<"=", "#">> \o t \o <<"nl", "0", "nl">> : t \in TextsOf({"n", "'", "#"}, {4})}

=============================================================================
