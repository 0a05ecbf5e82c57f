---------------------------- MODULE A2Lex_proofs ----------------------------
(***************************************************************************)
(* Proofs about the lexer of A2Lex, for strings of any length and files    *)
(* that fit in one block: it reads the text as the tokens that A2Lexemes   *)
(* gives it.  (In longer files a block that ends between two tokens is     *)
(* read past its end.)                                                     *)
(*                                                                         *)
(* What A2Lexemes says of a text comes first, without the lexer: what its  *)
(* recursions compute, by induction, and where the longest lexemes end.    *)
(* Then what is known of a text of which only the first bytes are read,    *)
(* and last that each step of the lexer keeps this.                        *)
(***************************************************************************)
EXTENDS A2Lex, FiniteSetTheorems, SequenceTheorems, TLAPS

(* Induction, for sets of numbers.                                         *)
LEMMA Induction ==
  ASSUME NEW S, 0 \in S, \A n \in Nat : n \in S => n + 1 \in S
  PROVE  Nat \subseteq S
<1> DEFINE T == Nat \ S
<1> SUFFICES ASSUME T # {} PROVE FALSE
  OBVIOUS
<1>1. PICK m \in T : \A y \in T : <<y, m>> \notin OpToRel(<, Nat)
  BY NatLessThanWellFounded, WFMin
<1>2. \A y \in T : ~(y < m)
  BY <1>1 DEF OpToRel
<1>3. m # 0 /\ m - 1 \in Nat
  OBVIOUS
<1>4. m - 1 \in S
  BY <1>2, <1>3
<1> QED BY <1>3, <1>4

(* The recursions of A2Lexemes have the functions that they describe: each *)
(* has one for the first n places, for every n.                            *)
LEMMA KeptDef ==
  ASSUME NEW s \in Seq(Bytes), Len(s) > 0
  PROVE  Kept(s) = [i \in 1 .. Len(s) |->
                      IF i = 1 THEN NothingKept ELSE KeptWith(Kept(s)[i - 1], s[i])]
<1> DEFINE Upto(n, g) == g = [i \in 1 .. n |->
                      IF i = 1 THEN NothingKept ELSE KeptWith(g[i - 1], s[i])]
           S == {n \in Nat : \E g : Upto(n, g)}
<1>1. 0 \in S
  <2>1. Upto(0, [i \in 1 .. 0 |-> i])
    OBVIOUS
  <2> QED BY <2>1
<1>2. ASSUME NEW n \in Nat, n \in S PROVE n + 1 \in S
  <2>1. PICK g : Upto(n, g)
    BY <1>2
  <2> DEFINE next == IF n = 0 THEN NothingKept ELSE KeptWith(g[n], s[n + 1])
             h == [i \in 1 .. n + 1 |-> IF i = n + 1 THEN next ELSE g[i]]
  <2>2. ASSUME NEW i \in 1 .. n + 1
        PROVE  h[i] = IF i = 1 THEN NothingKept ELSE KeptWith(h[i - 1], s[i])
    <3>1. CASE i = n + 1
      <4>1. h[i] = next /\ (i = 1 <=> n = 0)
        BY <3>1
      <4>2. n # 0 => h[i - 1] = g[n]
        BY <3>1
      <4> QED BY <3>1, <4>1, <4>2
    <3>2. CASE i # n + 1
      <4>1. i \in 1 .. n /\ h[i] = g[i]
        BY <3>2
      <4>2. i # 1 => h[i - 1] = g[i - 1]
        BY <4>1
      <4>3. g[i] = IF i = 1 THEN NothingKept ELSE KeptWith(g[i - 1], s[i])
        BY <2>1, <4>1
      <4> QED BY <4>1, <4>2, <4>3
    <3> QED BY <3>1, <3>2
  <2> HIDE DEF next
  <2>3. Upto(n + 1, h)
    BY <2>2
  <2>4. \E f : Upto(n + 1, f)
    <3> HIDE DEF h, Upto
    <3> QED BY <2>3
  <2> HIDE DEF Upto
  <2> QED BY <2>4
<1>3. Len(s) \in S
  <2> HIDE DEF S
  <2> QED BY <1>1, <1>2, Induction
<1>4. PICK g : Upto(Len(s), g)
  BY <1>3
<1> QED BY <1>4 DEF Kept

LEMMA TakesDef ==
  ASSUME NEW text \in Seq(Bytes)
  PROVE  Takes(text) = [p \in 0 .. Len(text) |->
                          IF p = 0 THEN NothingTaken
                          ELSE TakenAt(Takes(text)[p - 1], text, p)]
<1> DEFINE Upto(n, g) == g = [p \in 0 .. n |->
                          IF p = 0 THEN NothingTaken ELSE TakenAt(g[p - 1], text, p)]
           S == {n \in Nat : \E g : Upto(n, g)}
<1>1. 0 \in S
  <2>1. Upto(0, [p \in 0 .. 0 |-> NothingTaken])
    OBVIOUS
  <2>2. \E f : Upto(0, f)
    <3> HIDE DEF Upto
    <3> QED BY <2>1
  <2> QED BY <2>2
<1>2. ASSUME NEW n \in Nat, n \in S PROVE n + 1 \in S
  <2>1. PICK g : Upto(n, g)
    BY <1>2
  <2> DEFINE next == TakenAt(g[n], text, n + 1)
             h == [p \in 0 .. n + 1 |-> IF p = n + 1 THEN next ELSE g[p]]
  <2>2. ASSUME NEW p \in 0 .. n + 1
        PROVE  h[p] = IF p = 0 THEN NothingTaken ELSE TakenAt(h[p - 1], text, p)
    <3>1. CASE p = n + 1
      <4>1. h[p] = next /\ p # 0
        BY <3>1
      <4>2. h[p - 1] = g[n]
        BY <3>1
      <4> QED BY <3>1, <4>1, <4>2
    <3>2. CASE p # n + 1
      <4>1. p \in 0 .. n /\ h[p] = g[p]
        BY <3>2
      <4>2. p # 0 => h[p - 1] = g[p - 1]
        BY <4>1
      <4>3. g[p] = IF p = 0 THEN NothingTaken ELSE TakenAt(g[p - 1], text, p)
        BY <2>1, <4>1
      <4> QED BY <4>1, <4>2, <4>3
    <3> QED BY <3>1, <3>2
  <2> HIDE DEF next
  <2>3. Upto(n + 1, h)
    BY <2>2
  <2>4. \E f : Upto(n + 1, f)
    <3> HIDE DEF h, Upto
    <3> QED BY <2>3
  <2> HIDE DEF Upto
  <2> QED BY <2>4
<1>3. Len(text) \in S
  <2> HIDE DEF S
  <2> QED BY <1>1, <1>2, Induction
<1>4. PICK g : Upto(Len(text), g)
  BY <1>3
<1> QED BY <1>4 DEF Takes

-----------------------------------------------------------------------------
(* Strings.                                                                *)

(* The part of a text from place p to place q.                             *)
LEMMA PartOfText ==
  ASSUME NEW text \in Seq(Bytes), NEW p \in 1 .. Len(text), NEW q \in p - 1 .. Len(text)
  PROVE  /\ SubSeq(text, p, q) \in Seq(Bytes)
         /\ Len(SubSeq(text, p, q)) = q - p + 1
         /\ \A i \in 1 .. q - p + 1 : SubSeq(text, p, q)[i] = text[p + i - 1]
  OBVIOUS

LEMMA KeptSteps ==
  ASSUME NEW s \in Seq(Bytes), Len(s) > 0
  PROVE  /\ Kept(s)[1] = NothingKept
         /\ \A i \in 1 .. Len(s) - 1 : Kept(s)[i + 1] = KeptWith(Kept(s)[i], s[i + 1])
<1>1. Len(s) \in Nat
  OBVIOUS
<1> DEFINE F(f, i) == IF i = 1 THEN NothingKept ELSE KeptWith(f[i - 1], s[i])
<1>2. Kept(s) = [i \in 1 .. Len(s) |-> F(Kept(s), i)]
  BY KeptDef
<1>3. \A i \in 1 .. Len(s) : Kept(s)[i] = F(Kept(s), i)
  <2> HIDE DEF F
  <2> QED BY <1>2
<1>4. F(Kept(s), 1) = NothingKept
  OBVIOUS
<1>5. ASSUME NEW i \in 1 .. Len(s) - 1
      PROVE  /\ F(Kept(s), i + 1) = KeptWith(Kept(s)[i], s[i + 1])
             /\ i + 1 \in 1 .. Len(s)
  BY <1>1
<1> QED BY <1>1, <1>3, <1>4, <1>5

(* What is kept of the beginning of a string does not depend on the rest.  *)
LEMMA KeptOfPart ==
  ASSUME NEW s \in Seq(Bytes), NEW t \in Seq(Bytes), NEW n \in Nat \ {0},
         n <= Len(s), n <= Len(t), \A i \in 1 .. n : s[i] = t[i]
  PROVE  \A i \in 1 .. n : Kept(s)[i] = Kept(t)[i]
<1> DEFINE S == {i \in Nat : i \in 1 .. n => Kept(s)[i] = Kept(t)[i]}
<1>1. Len(s) \in Nat /\ Len(t) \in Nat /\ 0 \in S
  OBVIOUS
<1>2. ASSUME NEW i \in Nat, i \in S PROVE i + 1 \in S
  <2> SUFFICES ASSUME i + 1 \in 1 .. n PROVE Kept(s)[i + 1] = Kept(t)[i + 1]
    OBVIOUS
  <2>1. CASE i = 0
    BY <1>1, <2>1, KeptSteps
  <2>2. CASE i # 0
    <3>1. Kept(s)[i] = Kept(t)[i] /\ s[i + 1] = t[i + 1]
      BY <1>2, <2>2
    <3>2. i \in 1 .. Len(s) - 1 /\ i \in 1 .. Len(t) - 1
      BY <1>1, <2>2
    <3>3. /\ Kept(s)[i + 1] = KeptWith(Kept(s)[i], s[i + 1])
          /\ Kept(t)[i + 1] = KeptWith(Kept(t)[i], t[i + 1])
      BY <1>1, <3>2, KeptSteps
    <3> QED BY <3>1, <3>3
  <2> QED BY <2>1, <2>2
<1>3. Nat \subseteq S
  <2> HIDE DEF S
  <2> QED BY <1>1, <1>2, Induction
<1> QED BY <1>3

StringState == [open : BOOLEAN, out : Seq(Bytes \cup {"newline"})]

LEMMA KeptWithType ==
  ASSUME NEW st \in StringState, NEW c \in Bytes
  PROVE  KeptWith(st, c) \in StringState
<1>1. "\\" \in Bytes
  BY DEF Bytes
<1>2. st.open \in BOOLEAN /\ st.out \in Seq(Bytes \cup {"newline"})
  BY DEF StringState
<1>3. /\ Append(st.out, IF c = "n" THEN "newline" ELSE c) \in Seq(Bytes \cup {"newline"})
      /\ Append(st.out, "\\") \in Seq(Bytes \cup {"newline"})
      /\ Append(st.out, c) \in Seq(Bytes \cup {"newline"})
      /\ Append(Append(st.out, "\\"), c) \in Seq(Bytes \cup {"newline"})
  BY <1>1, <1>2
<1> QED BY <1>2, <1>3 DEF KeptWith, StringState

LEMMA KeptWithOpen ==
  ASSUME NEW st \in StringState, NEW c
  PROVE  KeptWith(st, c).open <=> (c = "\\" /\ ~st.open)
<1>1. st.open \in BOOLEAN
  BY DEF StringState
<1>2. CASE st.open /\ c \in Quotes \cup {"\\", "n"}
  <2>1. KeptWith(st, c).open = FALSE
    BY <1>2 DEF KeptWith
  <2> QED BY <1>2, <2>1
<1>3. CASE ~(st.open /\ c \in Quotes \cup {"\\", "n"})
  <2>1. KeptWith(st, c).open = (c = "\\")
    BY <1>3 DEF KeptWith
  <2> QED BY <1>1, <1>3, <2>1
<1> QED BY <1>2, <1>3

LEMMA KeptType ==
  ASSUME NEW s \in Seq(Bytes), Len(s) > 0
  PROVE  \A i \in 1 .. Len(s) : Kept(s)[i] \in StringState
<1> DEFINE S == {i \in Nat : i \in 1 .. Len(s) => Kept(s)[i] \in StringState}
<1>1. 0 \in S /\ Len(s) \in Nat
  OBVIOUS
<1>2. ASSUME NEW i \in Nat, i \in S PROVE i + 1 \in S
  <2> SUFFICES ASSUME i + 1 \in 1 .. Len(s) PROVE Kept(s)[i + 1] \in StringState
    OBVIOUS
  <2>1. CASE i = 0
    <3>1. NothingKept \in StringState
      BY DEF NothingKept, StringState
    <3> QED BY <2>1, <3>1, KeptSteps
  <2>2. CASE i # 0
    <3>1. i \in 1 .. Len(s) - 1 /\ Kept(s)[i] \in StringState
      BY <1>1, <1>2, <2>2
    <3>2. Kept(s)[i + 1] = KeptWith(Kept(s)[i], s[i + 1])
      BY <3>1, KeptSteps
    <3>3. s[i + 1] \in Bytes
      BY <1>1
    <3> QED BY <3>1, <3>2, <3>3, KeptWithType
  <2> QED BY <2>1, <2>2
<1>3. Nat \subseteq S
  <2> HIDE DEF S
  <2> QED BY <1>1, <1>2, Induction
<1> QED BY <1>3

(* There are exactly n backslashes before place i of s.                    *)
Run(s, i, n) ==
  /\ n \in 0 .. i - 2
  /\ \A j \in i - n .. i - 1 : s[j] = "\\"
  /\ i - n - 1 > 1 => s[i - n - 1] # "\\"

LEMMA RunUnique ==
  ASSUME NEW s \in Seq(Bytes), NEW i \in Nat, NEW n, NEW m, Run(s, i, n), Run(s, i, m)
  PROVE  n = m
<1>1. ASSUME NEW k, NEW l, Run(s, i, k), Run(s, i, l), k < l PROVE FALSE
  <2>1. k \in Nat /\ l \in Nat /\ l <= i - 2
    BY <1>1 DEF Run
  <2>2. i - k - 1 > 1 /\ i - k - 1 \in i - l .. i - 1
    BY <1>1, <2>1
  <2> QED BY <1>1, <2>2 DEF Run
<1>2. n \in Nat /\ m \in Nat
  BY DEF Run
<1>3. ~(n < m) /\ ~(m < n)
  BY <1>1
<1> QED BY <1>2, <1>3

(* A backslash waits for what it escapes if it is the last of an odd       *)
(* number.                                                                 *)
LEMMA OpenIsOdd ==
  ASSUME NEW s \in Seq(Bytes), Len(s) > 0
  PROVE  \A i \in 2 .. Len(s) + 1 :
           \E n \in Nat : Run(s, i, n) /\ (Kept(s)[i - 1].open <=> n % 2 = 1)
<1> DEFINE Odd(i) == \E n \in Nat : Run(s, i, n) /\ (Kept(s)[i - 1].open <=> n % 2 = 1)
           S == {i \in Nat : i + 1 \in 2 .. Len(s) + 1 => Odd(i + 1)}
<1>1. 0 \in S /\ Len(s) \in Nat
  OBVIOUS
<1>2. ASSUME NEW i \in Nat, i \in S PROVE i + 1 \in S
  <2> SUFFICES ASSUME i + 2 \in 2 .. Len(s) + 1 PROVE Odd(i + 2)
    BY i + 1 + 1 = i + 2
  <2>1. CASE i = 0
    <3>1. Run(s, 2, 0)
      BY DEF Run
    <3>2. Kept(s)[2 - 1].open = FALSE
      BY KeptSteps DEF NothingKept
    <3> QED BY <2>1, <3>1, <3>2
  <2>2. CASE i # 0
    <3>1. i \in 1 .. Len(s) - 1
      BY <1>1, <2>2
    <3>2. PICK n \in Nat : Run(s, i + 1, n) /\ (Kept(s)[i].open <=> n % 2 = 1)
      <4>1. Odd(i + 1) /\ i + 1 - 1 = i
        BY <1>2, <3>1
      <4> QED BY <4>1
    <3> DEFINE st == Kept(s)[i]
               c == s[i + 1]
    <3>3. Kept(s)[i + 1] = KeptWith(st, c) /\ st \in StringState
      BY <1>1, <3>1, KeptSteps, KeptType
    <3> HIDE DEF st
    <3>4. Kept(s)[i + 1].open <=> (c = "\\" /\ ~st.open)
      BY <3>3, KeptWithOpen
    <3>5. CASE c = "\\"
      <4>1. n \in 0 .. i - 1
        BY <3>2 DEF Run
      <4>2. Run(s, i + 2, n + 1)
        <5>1. ASSUME NEW j \in i + 2 - (n + 1) .. i + 1 PROVE s[j] = "\\"
          BY <3>1, <3>2, <3>5, <4>1 DEF Run
        <5>2. i + 2 - (n + 1) - 1 = i + 1 - n - 1
          BY <3>1, <4>1
        <5>3. i + 2 - (n + 1) - 1 > 1 => s[i + 2 - (n + 1) - 1] # "\\"
          BY <3>2, <5>2 DEF Run
        <5> QED BY <3>1, <4>1, <5>1, <5>3 DEF Run
      <4>3. (n + 1) % 2 = 1 <=> n % 2 # 1
        OBVIOUS
      <4>4. Kept(s)[i + 2 - 1].open <=> (n + 1) % 2 = 1
        <5>1. i + 2 - 1 = i + 1 /\ st.open \in BOOLEAN
          BY <3>3 DEF StringState
        <5> QED BY <3>2, <3>4, <3>5, <4>3, <5>1 DEF st
      <4>5. n + 1 \in Nat
        OBVIOUS
      <4> QED BY <4>2, <4>4, <4>5
    <3>6. CASE c # "\\"
      <4>1. Run(s, i + 2, 0)
        BY <3>1, <3>6 DEF Run
      <4>2. ~Kept(s)[i + 2 - 1].open
        BY <3>1, <3>4, <3>6
      <4> QED BY <4>1, <4>2
    <3> QED BY <3>5, <3>6
  <2> QED BY <2>1, <2>2
<1>3. Nat \subseteq S
  <2> HIDE DEF S
  <2> QED BY <1>1, <1>2, Induction
<1>4. ASSUME NEW i \in 2 .. Len(s) + 1 PROVE Odd(i)
  <2>1. i - 1 \in Nat /\ i - 1 + 1 = i
    BY <1>1
  <2>2. i - 1 \in S
    <3> HIDE DEF S
    <3> QED BY <1>3, <2>1
  <2> HIDE DEF Odd
  <2> QED BY <2>1, <2>2
<1> QED BY <1>4

(* A quote ends a string unless a backslash waits for it.                  *)
LEMMA ClosesUnlessOpen ==
  ASSUME NEW s \in Seq(Bytes), NEW i \in 2 .. Len(s)
  PROVE  Closes(s, i) <=> (s[i] = s[1] /\ ~Kept(s)[i - 1].open)
<1> Len(s) \in Nat /\ Len(s) > 0 /\ i \in 2 .. Len(s) + 1 /\ i - 1 \in 1 .. Len(s)
  OBVIOUS
<1>1. PICK n \in Nat : Run(s, i, n) /\ (Kept(s)[i - 1].open <=> n % 2 = 1)
  BY OpenIsOdd
<1>2. Kept(s)[i - 1].open \in BOOLEAN
  BY KeptType DEF StringState
<1>3. Closes(s, i) <=> (s[i] = s[1] /\ \E m \in 0 .. i - 2 : Run(s, i, m) /\ m % 2 = 0)
  BY DEF Closes, Run
<1>4. n \in 0 .. i - 2
  BY <1>1 DEF Run
<1>5. (\E m \in 0 .. i - 2 : Run(s, i, m) /\ m % 2 = 0) <=> n % 2 = 0
  <2>1. ASSUME NEW m \in 0 .. i - 2, Run(s, i, m) PROVE m = n
    BY <1>1, <2>1, RunUnique
  <2> QED BY <1>1, <1>4, <2>1
<1>6. n % 2 = 0 <=> ~(n % 2 = 1)
  OBVIOUS
<1> QED BY <1>1, <1>2, <1>3, <1>5, <1>6

-----------------------------------------------------------------------------
(* How the tokens of a text follow from its lexemes.                       *)

(* The tokens of the first p bytes are ts, and the next one begins behind. *)
At(text, p, ts) ==
  p \in 0 .. Len(text) /\ Takes(text)[p] = [next |-> p + 1, tokens |-> ts]

(* The longest lexeme that begins at place b ends at place q.              *)
Longest(text, b, q) ==
  /\ q \in b .. Len(text)
  /\ IsLexeme(SubSeq(text, b, q))
  /\ \A r \in q + 1 .. Len(text) : ~IsLexeme(SubSeq(text, b, r))

LEMMA TakesSteps ==
  ASSUME NEW text \in Seq(Bytes)
  PROVE  /\ Takes(text)[0] = NothingTaken
         /\ \A p \in 1 .. Len(text) :
              Takes(text)[p] = TakenAt(Takes(text)[p - 1], text, p)
<1> DEFINE F(f, p) == IF p = 0 THEN NothingTaken ELSE TakenAt(f[p - 1], text, p)
<1>1. Takes(text) = [p \in 0 .. Len(text) |-> F(Takes(text), p)] /\ Len(text) \in Nat
  BY TakesDef
<1>2. \A p \in 0 .. Len(text) : Takes(text)[p] = F(Takes(text), p)
  <2> HIDE DEF F
  <2> QED BY <1>1
<1>3. ASSUME NEW p \in 1 .. Len(text)
      PROVE  p \in 0 .. Len(text) /\ F(Takes(text), p) = TakenAt(Takes(text)[p - 1], text, p)
  BY <1>1
<1>4. 0 \in 0 .. Len(text) /\ F(Takes(text), 0) = NothingTaken
  BY <1>1
<1> QED
  <2> HIDE DEF F
  <2> QED BY <1>2, <1>3, <1>4

(* Places where no lexeme begins change nothing.                           *)
LEMMA Passed ==
  ASSUME NEW text \in Seq(Bytes), NEW b \in 0 .. Len(text), NEW e \in b .. Len(text),
         \A p \in b + 1 .. e : p # Takes(text)[b].next
  PROVE  Takes(text)[e] = Takes(text)[b]
<1> DEFINE S == {n \in Nat : b + n <= e => Takes(text)[b + n] = Takes(text)[b]}
<1>1. 0 \in S
  OBVIOUS
<1>2. ASSUME NEW n \in Nat, n \in S PROVE n + 1 \in S
  <2> SUFFICES ASSUME b + n + 1 <= e
               PROVE  Takes(text)[b + (n + 1)] = Takes(text)[b]
    OBVIOUS
  <2>1. b + n + 1 \in 1 .. Len(text) /\ b + n + 1 \in b + 1 .. e
    OBVIOUS
  <2>2. Takes(text)[b + n + 1] = TakenAt(Takes(text)[b + n], text, b + n + 1)
    <3>1. b + n + 1 - 1 = b + n
      OBVIOUS
    <3> QED BY <2>1, <3>1, TakesSteps
  <2>3. Takes(text)[b + n] = Takes(text)[b]
    BY <1>2
  <2>4. b + n + 1 # Takes(text)[b + n].next
    BY <2>1, <2>3
  <2>5. Takes(text)[b + n + 1] = Takes(text)[b + n]
    BY <2>2, <2>4 DEF TakenAt
  <2> QED BY <2>3, <2>5
<1>3. Nat \subseteq S
  <2> HIDE DEF S
  <2> QED BY <1>1, <1>2, Induction
<1>4. e - b \in S
  <2>1. e - b \in Nat
    OBVIOUS
  <2> HIDE DEF S
  <2> QED BY <1>3, <2>1
<1>5. b + (e - b) = e
  OBVIOUS
<1> QED BY <1>4, <1>5

LEMMA TakenWhole ==
  ASSUME NEW text \in Seq(Bytes), NEW ts, NEW b \in 1 .. Len(text), At(text, b - 1, ts),
         NEW q, Longest(text, b, q)
  PROVE  Takes(text)[b] = Taken([next |-> b, tokens |-> ts], text, b, q)
<1> DEFINE st == [next |-> b, tokens |-> ts]
<1>1. Takes(text)[b] = TakenAt(st, text, b)
  <2>1. Takes(text)[b - 1] = st
    BY DEF At
  <2> QED BY <2>1, TakesSteps
<1>2. q \in Ends(text, b) /\ \A r \in Ends(text, b) : r <= q
  <2>1. q \in Ends(text, b)
    BY DEF Longest, Ends
  <2>2. ASSUME NEW r \in Ends(text, b), ~(r <= q) PROVE FALSE
    <3>1. r \in b .. Len(text) /\ q \in b .. Len(text) /\ IsLexeme(SubSeq(text, b, r))
      BY DEF Longest, Ends
    <3>2. r \in q + 1 .. Len(text)
      BY <2>2, <3>1
    <3> QED BY <3>1, <3>2 DEF Longest
  <2> QED BY <2>1, <2>2
<1>3. Max(Ends(text, b)) = q
  <2>1. \A r \in Ends(text, b) : r \in Int
    BY DEF Ends
  <2> DEFINE M == CHOOSE x \in Ends(text, b) : \A y \in Ends(text, b) : x >= y
  <2>2. M \in Ends(text, b) /\ \A y \in Ends(text, b) : M >= y
    BY <1>2, <2>1
  <2>3. M = q
    <3> HIDE DEF M
    <3> QED BY <1>2, <2>1, <2>2
  <2> QED BY <2>3 DEF Max
<1>4. st.next = b
  OBVIOUS
<1> HIDE DEF st
<1>5. TakenAt(st, text, b) = Taken(st, text, b, q)
  BY <1>2, <1>3, <1>4 DEF TakenAt
<1> QED BY <1>1, <1>5 DEF st

LEMMA TakeLexeme ==
  ASSUME NEW text \in Seq(Bytes), NEW ts, NEW b \in 1 .. Len(text), At(text, b - 1, ts),
         NEW q, Longest(text, b, q),
         ~(IsDecimal(SubSeq(text, b, q)) /\ IsLonePoint(text, q + 1))
  PROVE  At(text, q, With(ts, SubSeq(text, b, q), LineAt(text, b)))
<1> DEFINE w == With(ts, SubSeq(text, b, q), LineAt(text, b))
<1>1. Takes(text)[b] = [next |-> q + 1, tokens |-> w]
  BY TakenWhole DEF Taken
<1>2. q \in b .. Len(text) /\ b \in 0 .. Len(text) /\ q \in 0 .. Len(text)
  BY DEF Longest
<1> HIDE DEF w
<1>3. \A p \in b + 1 .. q : p # Takes(text)[b].next
  BY <1>1, <1>2
<1>4. Takes(text)[q] = Takes(text)[b]
  BY <1>2, <1>3, Passed
<1>5. At(text, q, w)
  BY <1>1, <1>2, <1>4 DEF At
<1> QED BY <1>5 DEF w

LEMMA RefusedIsWrong ==
  ASSUME NEW text \in Seq(Bytes), NEW b \in 1 .. Len(text), Takes(text)[b] = Refused
  PROVE  Tokens(text) = Wrong
<1>1. Len(text) \in b .. Len(text) /\ b \in 0 .. Len(text)
  OBVIOUS
<1>2. \A p \in b + 1 .. Len(text) : p # Takes(text)[b].next
  BY DEF Refused
<1>3. Takes(text)[Len(text)] = Refused
  BY <1>1, <1>2, Passed
<1> QED BY <1>3 DEF Tokens, Refused

LEMMA RefuseNone ==
  ASSUME NEW text \in Seq(Bytes), NEW ts, NEW b \in 1 .. Len(text), At(text, b - 1, ts),
         \A r \in b .. Len(text) : ~IsLexeme(SubSeq(text, b, r))
  PROVE  Tokens(text) = Wrong
<1>1. Takes(text)[b] = TakenAt(Takes(text)[b - 1], text, b)
  BY TakesSteps
<1>2. Takes(text)[b - 1].next = b
  BY DEF At
<1>3. Ends(text, b) = {}
  BY DEF Ends
<1>4. Takes(text)[b] = Refused
  BY <1>1, <1>2, <1>3 DEF TakenAt
<1> QED BY <1>4, RefusedIsWrong

LEMMA RefusePoint ==
  ASSUME NEW text \in Seq(Bytes), NEW ts, NEW b \in 1 .. Len(text), At(text, b - 1, ts),
         NEW q, Longest(text, b, q),
         IsDecimal(SubSeq(text, b, q)), IsLonePoint(text, q + 1)
  PROVE  Tokens(text) = Wrong
<1>1. Takes(text)[b] = Refused
  BY TakenWhole DEF Taken
<1> QED BY <1>1, RefusedIsWrong

-----------------------------------------------------------------------------
(* The longest lexemes of each kind: the kind is known by the first byte.  *)

Spaces == {"nl", ";", " "}

LEMMA SpacesAre ==
  ASSUME NEW s, s \in {<<"nl">>, <<";">>, <<" ">>}
  PROVE  Len(s) = 1 /\ s[1] \in Spaces
<1>1. CASE s = <<"nl">>
  BY <1>1 DEF Spaces
<1>2. CASE s = <<";">>
  BY <1>2 DEF Spaces
<1>3. CASE s = <<" ">>
  BY <1>3 DEF Spaces
<1> QED BY <1>1, <1>2, <1>3

LEMMA PointsAre ==
  ASSUME NEW s, s \in {<<".">>, <<".", ".">>, <<".", ".", ".">>}
  PROVE  /\ Len(s) \in 1 .. 3
         /\ s[1] = "." /\ (Len(s) > 1 => s[2] = ".") /\ (Len(s) > 2 => s[3] = ".")
<1>1. CASE s = <<".">>
  BY <1>1
<1>2. CASE s = <<".", ".">>
  BY <1>2
<1>3. CASE s = <<".", ".", ".">>
  BY <1>3
<1> QED BY <1>1, <1>2, <1>3

LEMMA FirstByte ==
  ASSUME NEW s \in Seq(Bytes), Len(s) > 0
  PROVE  /\ IsWord(s) => s[1] \in Letters
         /\ IsHex(s) => s[1] = "0"
         /\ IsDecimal(s) => s[1] \in Digits
         /\ s \in Ops => s[1] \in {"."} \cup SingleOps \cup EqualOps
         /\ IsString(s) => s[1] \in Quotes
         /\ IsComment(s) => s[1] = "#"
         /\ s \in {<<"nl">>, <<";">>, <<" ">>} => s[1] \in Spaces
<1>1. s \in Ops => s[1] \in {"."} \cup SingleOps \cup EqualOps
  <2>1. CASE s \in {<<".">>, <<".", ".">>, <<".", ".", ".">>}
    BY <2>1
  <2>2. CASE s \in {<<c>> : c \in SingleOps \cup EqualOps}
    BY <2>2
  <2>3. CASE s \in {<<c, "=">> : c \in EqualOps}
    BY <2>3
  <2> QED BY <2>1, <2>2, <2>3 DEF Ops
<1>2. s \in {<<"nl">>, <<";">>, <<" ">>} => s[1] \in Spaces
  BY SpacesAre
<1>3. IsWord(s) => s[1] \in Letters
  BY DEF IsWord
<1>4. IsHex(s) => s[1] = "0"
  BY DEF IsHex
<1>5. IsDecimal(s) => s[1] \in Digits
  BY DEF IsDecimal
<1>6. IsString(s) => s[1] \in Quotes
  BY DEF IsString
<1>7. IsComment(s) => s[1] = "#"
  BY DEF IsComment
<1> QED BY <1>1, <1>2, <1>3, <1>4, <1>5, <1>6, <1>7

LEMMA KindByFirst ==
  ASSUME NEW s \in Seq(Bytes), Len(s) > 0, IsLexeme(s)
  PROVE  /\ s[1] \in Letters => IsWord(s)
         /\ s[1] \in Digits => IsHex(s) \/ IsDecimal(s)
         /\ s[1] \in {"."} \cup SingleOps \cup EqualOps => s \in Ops
         /\ s[1] \in Quotes => IsString(s)
         /\ s[1] = "#" => IsComment(s)
         /\ s[1] \in Spaces => Len(s) = 1
         /\ s[1] \notin {"?", "\\"}
<1>1. s \in {<<"nl">>, <<";">>, <<" ">>} => Len(s) = 1
  BY SpacesAre
<1> QED BY <1>1, FirstByte DEF IsLexeme, Letters, Digits, SingleOps, EqualOps, Quotes, Spaces

LEMMA OpsBySecond ==
  ASSUME NEW s \in Seq(Bytes), s \in Ops, Len(s) > 1
  PROVE  \/ s[1] = "." /\ s[2] = "." /\ Len(s) \in 2 .. 3 /\ (Len(s) > 2 => s[3] = ".")
         \/ s[1] \in EqualOps /\ s[2] = "=" /\ Len(s) = 2
<1>1. CASE s \in {<<".">>, <<".", ".">>, <<".", ".", ".">>}
  BY <1>1, PointsAre
<1>2. CASE s \in {<<c>> : c \in SingleOps \cup EqualOps}
  <2>1. PICK c \in SingleOps \cup EqualOps : s = <<c>>
    BY <1>2
  <2> QED BY <2>1
<1>3. CASE s \in {<<c, "=">> : c \in EqualOps}
  BY <1>3
<1> QED BY <1>1, <1>2, <1>3 DEF Ops

LEMMA LongestWord ==
  ASSUME NEW text \in Seq(Bytes), NEW b \in 1 .. Len(text), NEW q \in b .. Len(text),
         text[b] \in Letters, \A i \in b .. q : text[i] \in Letters \cup Digits,
         q < Len(text) => text[q + 1] \notin Letters \cup Digits
  PROVE  Longest(text, b, q) /\ IsWord(SubSeq(text, b, q))
<1> DEFINE s == SubSeq(text, b, q)
<1>1. s \in Seq(Bytes) /\ Len(s) = q - b + 1 /\ \A i \in 1 .. q - b + 1 : s[i] = text[b + i - 1]
  BY PartOfText
<1> HIDE DEF s
<1>2. IsWord(s)
  <2>1. ASSUME NEW i \in DOMAIN s PROVE s[i] \in Letters \cup Digits
    <3>1. i \in 1 .. q - b + 1
      BY <1>1
    <3>2. s[i] = text[b + i - 1] /\ b + i - 1 \in b .. q
      BY <1>1, <3>1
    <3> QED BY <3>2
  <2>2. s[1] = text[b]
    BY <1>1
  <2> QED BY <2>1, <2>2 DEF IsWord, OnlyOf
<1>3. ASSUME NEW r \in q + 1 .. Len(text), IsLexeme(SubSeq(text, b, r)) PROVE FALSE
  <2> DEFINE u == SubSeq(text, b, r)
  <2>1. u \in Seq(Bytes) /\ Len(u) = r - b + 1 /\ \A i \in 1 .. r - b + 1 : u[i] = text[b + i - 1]
    BY PartOfText
  <2>2. IsLexeme(u)
    BY <1>3
  <2> HIDE DEF u
  <2>3. u[1] = text[b] /\ u[q + 1 - b + 1] = text[q + 1] /\ q + 1 - b + 1 \in DOMAIN u
    BY <2>1
  <2>4. IsWord(u)
    <3>1. u[1] \in Letters /\ Len(u) > 0
      BY <2>1, <2>3
    <3> QED BY <2>1, <2>2, <3>1, KindByFirst
  <2>5. text[q + 1] \in Letters \cup Digits /\ q < Len(text)
    BY <2>3, <2>4 DEF IsWord, OnlyOf
  <2> QED BY <2>5
<1> QED BY <1>2, <1>3 DEF s, Longest, IsLexeme

LEMMA HexPlaces ==
  ASSUME NEW s \in Seq(Bytes), Len(s) >= 2
  PROVE  /\ Tail(Tail(s)) \in Seq(Bytes) /\ Len(Tail(Tail(s))) = Len(s) - 2
         /\ \A i \in 1 .. Len(s) - 2 : Tail(Tail(s))[i] = s[i + 2]
         /\ IsHex(s) <=> (/\ s[1] = "0" /\ s[2] = "x"
                          /\ \A i \in 3 .. Len(s) : s[i] \in HexDigits)
<1> DEFINE t == Tail(s)
           u == Tail(t)
<1>1. /\ t \in Seq(Bytes) /\ Len(t) = Len(s) - 1
      /\ \A i \in 1 .. Len(s) - 1 : t[i] = s[i + 1]
  OBVIOUS
<1>2. /\ u \in Seq(Bytes) /\ Len(u) = Len(s) - 2
      /\ \A i \in 1 .. Len(s) - 2 : u[i] = t[i + 1]
  <2> HIDE DEF t
  <2> QED BY <1>1
<1> HIDE DEF t, u
<1>3. \A i \in 1 .. Len(s) - 2 : u[i] = s[i + 2]
  <2> SUFFICES ASSUME NEW i \in 1 .. Len(s) - 2 PROVE u[i] = s[i + 2]
    OBVIOUS
  <2>1. u[i] = t[i + 1] /\ i + 1 \in 1 .. Len(s) - 1
    BY <1>2
  <2>2. t[i + 1] = s[i + 1 + 1]
    BY <1>1, <2>1
  <2> QED BY <2>1, <2>2
<1>4. OnlyOf(u, HexDigits) <=> \A i \in 3 .. Len(s) : s[i] \in HexDigits
  <2>1. ASSUME OnlyOf(u, HexDigits), NEW i \in 3 .. Len(s) PROVE s[i] \in HexDigits
    <3>1. i - 2 \in 1 .. Len(s) - 2 /\ i - 2 + 2 = i
      OBVIOUS
    <3>2. i - 2 \in DOMAIN u
      BY <1>2, <3>1
    <3>3. u[i - 2] = s[i]
      BY <1>3, <3>1
    <3>4. u[i - 2] \in HexDigits
      BY <2>1, <3>2 DEF OnlyOf
    <3> QED BY <3>3, <3>4
  <2>2. ASSUME \A i \in 3 .. Len(s) : s[i] \in HexDigits, NEW i \in DOMAIN u
        PROVE  u[i] \in HexDigits
    <3>1. i \in 1 .. Len(s) - 2 /\ i + 2 \in 3 .. Len(s)
      BY <1>2
    <3> QED BY <1>3, <2>2, <3>1
  <2> QED BY <2>1, <2>2 DEF OnlyOf
<1>5. IsHex(s) <=> (s[1] = "0" /\ s[2] = "x" /\ OnlyOf(u, HexDigits))
  BY DEF IsHex, t, u
<1> QED BY <1>2, <1>3, <1>4, <1>5 DEF t, u

(* The text has 0x at place b.                                             *)
HexAt(text, b) == text[b] = "0" /\ b < Len(text) /\ text[b + 1] = "x"

LEMMA LongestHex ==
  ASSUME NEW text \in Seq(Bytes), NEW b \in 1 .. Len(text), NEW q \in b + 1 .. Len(text),
         HexAt(text, b), \A i \in b + 2 .. q : text[i] \in HexDigits,
         q < Len(text) => text[q + 1] \notin HexDigits
  PROVE  Longest(text, b, q) /\ IsHex(SubSeq(text, b, q)) /\ ~IsDecimal(SubSeq(text, b, q))
<1> DEFINE s == SubSeq(text, b, q)
<1>1. s \in Seq(Bytes) /\ Len(s) = q - b + 1 /\ \A i \in 1 .. q - b + 1 : s[i] = text[b + i - 1]
  BY PartOfText
<1> HIDE DEF s
<1>2. Len(s) >= 2 /\ s[1] = "0" /\ s[2] = "x" /\ 2 \in DOMAIN s
  BY <1>1 DEF HexAt
<1>3. IsHex(s)
  <2>1. ASSUME NEW i \in 3 .. Len(s) PROVE s[i] \in HexDigits
    <3>1. i \in 1 .. q - b + 1 /\ b + i - 1 \in b + 2 .. q
      BY <1>1
    <3> QED BY <1>1, <3>1
  <2> QED BY <1>1, <1>2, <2>1, HexPlaces
<1>4. ~IsDecimal(s)
  BY <1>2 DEF IsDecimal, OnlyOf, Digits
<1>5. ASSUME NEW r \in q + 1 .. Len(text), IsLexeme(SubSeq(text, b, r)) PROVE FALSE
  <2> DEFINE u == SubSeq(text, b, r)
  <2>1. u \in Seq(Bytes) /\ Len(u) = r - b + 1 /\ \A i \in 1 .. r - b + 1 : u[i] = text[b + i - 1]
    BY PartOfText
  <2>2. IsLexeme(u)
    BY <1>5
  <2> HIDE DEF u
  <2>3. /\ u[1] = "0" /\ u[2] = "x" /\ u[q + 1 - b + 1] = text[q + 1]
        /\ q + 1 - b + 1 \in 3 .. Len(u) /\ 2 \in DOMAIN u /\ Len(u) >= 2
    BY <2>1 DEF HexAt
  <2>4. ~IsDecimal(u)
    BY <2>3 DEF IsDecimal, OnlyOf, Digits
  <2>5. IsHex(u)
    <3>1. u[1] \in Digits /\ Len(u) > 0
      BY <2>3 DEF Digits
    <3> QED BY <2>1, <2>2, <2>4, <3>1, KindByFirst
  <2>6. \A i \in 3 .. Len(u) : u[i] \in HexDigits
    BY <2>1, <2>3, <2>5, HexPlaces
  <2>7. u[q + 1 - b + 1] \in HexDigits
    BY <2>3, <2>6
  <2>8. text[q + 1] \in HexDigits /\ q < Len(text)
    BY <2>3, <2>7
  <2> QED BY <2>8
<1>6. q \in b .. Len(text)
  OBVIOUS
<1> QED BY <1>3, <1>4, <1>5, <1>6 DEF s, Longest, IsLexeme

(* The byte at place i goes with a number.                                 *)
GoesOn(text, i) ==
  \/ text[i] \in Digits
  \/ text[i] = "." /\ i < Len(text) /\ text[i + 1] \in Digits

LEMMA LongestDecimal ==
  ASSUME NEW text \in Seq(Bytes), NEW b \in 1 .. Len(text), NEW q \in b .. Len(text),
         text[b] \in Digits, ~HexAt(text, b), \A i \in b .. q : GoesOn(text, i),
         q < Len(text) => ~GoesOn(text, q + 1)
  PROVE  Longest(text, b, q) /\ IsDecimal(SubSeq(text, b, q))
<1> DEFINE s == SubSeq(text, b, q)
<1>1. s \in Seq(Bytes) /\ Len(s) = q - b + 1 /\ \A i \in 1 .. q - b + 1 : s[i] = text[b + i - 1]
  BY PartOfText
<1> HIDE DEF s
<1>2. IsDecimal(s)
  <2>1. s[1] \in Digits
    BY <1>1
  <2>2. ASSUME NEW i \in DOMAIN s
        PROVE  /\ s[i] \in Digits \cup {"."}
               /\ s[i] = "." => i < Len(s) /\ s[i + 1] \in Digits
    <3>1. i \in 1 .. q - b + 1 /\ b + i - 1 \in b .. q
      BY <1>1
    <3>2. s[i] = text[b + i - 1] /\ GoesOn(text, b + i - 1)
      BY <1>1, <3>1
    <3>3. CASE text[b + i - 1] \in Digits
      BY <3>2, <3>3 DEF Digits
    <3>4. CASE text[b + i - 1] = "." /\ b + i - 1 < Len(text) /\ text[b + i - 1 + 1] \in Digits
      <4>1. b + i - 1 # q
        <5> SUFFICES ASSUME b + i - 1 = q PROVE FALSE
          OBVIOUS
        <5>1. q < Len(text) /\ text[q + 1] \in Digits
          BY <3>4
        <5> QED BY <5>1 DEF GoesOn
      <4>2. i + 1 \in 1 .. q - b + 1
        BY <3>1, <4>1
      <4>3. s[i + 1] = text[b + (i + 1) - 1] /\ b + (i + 1) - 1 = b + i - 1 + 1
        <5>1. s[i + 1] = text[b + (i + 1) - 1]
          BY <1>1, <4>2
        <5>2. b + (i + 1) - 1 = b + i - 1 + 1
          BY <3>1
        <5> QED BY <5>1, <5>2
      <4>4. i < Len(s)
        BY <1>1, <4>2
      <4>5. s[i + 1] \in Digits
        BY <3>4, <4>3
      <4>6. s[i] = "."
        BY <3>2, <3>4
      <4> QED BY <4>4, <4>5, <4>6
    <3> QED BY <3>2, <3>3, <3>4 DEF GoesOn
  <2> QED BY <2>1, <2>2 DEF IsDecimal, OnlyOf
<1>3. ASSUME NEW r \in q + 1 .. Len(text), IsLexeme(SubSeq(text, b, r)) PROVE FALSE
  <2> DEFINE u == SubSeq(text, b, r)
  <2>1. u \in Seq(Bytes) /\ Len(u) = r - b + 1 /\ \A i \in 1 .. r - b + 1 : u[i] = text[b + i - 1]
    BY PartOfText
  <2>2. IsLexeme(u)
    BY <1>3
  <2> HIDE DEF u
  <2>3. /\ u[1] = text[b] /\ Len(u) >= 2 /\ u[2] = text[b + 1]
        /\ q + 1 - b + 1 \in DOMAIN u /\ u[q + 1 - b + 1] = text[q + 1]
    BY <2>1
  <2>4. ~IsHex(u)
    <3>1. b < Len(text)
      OBVIOUS
    <3> QED BY <2>3, <3>1 DEF IsHex, HexAt
  <2>5. IsDecimal(u)
    <3>1. u[1] \in Digits /\ Len(u) > 0
      BY <2>3
    <3> QED BY <2>1, <2>2, <2>4, <3>1, KindByFirst
  <2>6. text[q + 1] \in Digits \cup {"."}
    BY <2>3, <2>5 DEF IsDecimal, OnlyOf
  <2>7. text[q + 1] = "." => q + 1 < Len(text) /\ text[q + 1 + 1] \in Digits
    <3> SUFFICES ASSUME text[q + 1] = "."
                 PROVE  q + 1 < Len(text) /\ text[q + 1 + 1] \in Digits
      OBVIOUS
    <3> DEFINE k == q + 1 - b + 1
    <3>1. k \in DOMAIN u /\ u[k] = "."
      BY <2>3
    <3>2. k < Len(u) /\ u[k + 1] \in Digits
      <4> HIDE DEF k
      <4> QED BY <2>5, <3>1 DEF IsDecimal
    <3>3. q + 1 < r /\ k + 1 \in 1 .. r - b + 1 /\ b + (k + 1) - 1 = q + 1 + 1
      BY <2>1, <3>2
    <3>4. u[k + 1] = text[q + 1 + 1]
      <4>1. u[k + 1] = text[b + (k + 1) - 1]
        <5> HIDE DEF k
        <5> QED BY <2>1, <3>3
      <4> QED BY <3>3, <4>1
    <3>5. q + 1 < Len(text)
      BY <3>3
    <3> QED BY <3>2, <3>4, <3>5
  <2>8. q < Len(text)
    OBVIOUS
  <2> QED BY <2>6, <2>7, <2>8 DEF GoesOn
<1> QED BY <1>2, <1>3 DEF s, Longest, IsLexeme

LEMMA ShortParts ==
  ASSUME NEW text \in Seq(Bytes), NEW b \in 1 .. Len(text)
  PROVE  /\ SubSeq(text, b, b) = <<text[b]>>
         /\ b + 1 <= Len(text) => SubSeq(text, b, b + 1) = <<text[b], text[b + 1]>>
         /\ b + 2 <= Len(text) =>
              SubSeq(text, b, b + 2) = <<text[b], text[b + 1], text[b + 2]>>
<1>1. SubSeq(text, b, b) = <<text[b]>>
  <2> DEFINE s == SubSeq(text, b, b)
  <2>1. b \in b - 1 .. Len(text) /\ b - b + 1 = 1 /\ b + 1 - 1 = b
    OBVIOUS
  <2>2. s \in Seq(Bytes) /\ Len(s) = 1 /\ s[1] = text[b]
    BY <2>1, PartOfText
  <2> HIDE DEF s
  <2>3. s = <<s[1]>>
    BY <2>2
  <2> QED BY <2>2, <2>3 DEF s
<1>2. ASSUME b + 1 <= Len(text)
      PROVE  SubSeq(text, b, b + 1) = <<text[b], text[b + 1]>>
  <2> DEFINE s == SubSeq(text, b, b + 1)
  <2>1. b + 1 \in b - 1 .. Len(text)
    BY <1>2
  <2>2. s \in Seq(Bytes) /\ Len(s) = 2 /\ s[1] = text[b] /\ s[2] = text[b + 1]
    BY <2>1, PartOfText
  <2> HIDE DEF s
  <2>3. s = <<s[1], s[2]>>
    BY <2>2
  <2> QED BY <2>2, <2>3 DEF s
<1>3. ASSUME b + 2 <= Len(text)
      PROVE  SubSeq(text, b, b + 2) = <<text[b], text[b + 1], text[b + 2]>>
  <2> DEFINE s == SubSeq(text, b, b + 2)
  <2>1. b + 2 \in b - 1 .. Len(text)
    BY <1>3
  <2>2. /\ s \in Seq(Bytes) /\ Len(s) = 3
        /\ s[1] = text[b] /\ s[2] = text[b + 1] /\ s[3] = text[b + 2]
    BY <2>1, PartOfText
  <2> HIDE DEF s
  <2>3. s = <<s[1], s[2], s[3]>>
    BY <2>2
  <2> QED BY <2>2, <2>3 DEF s
<1> QED BY <1>1, <1>2, <1>3

LEMMA LongestSpace ==
  ASSUME NEW text \in Seq(Bytes), NEW b \in 1 .. Len(text), text[b] \in Spaces
  PROVE  Longest(text, b, b)
<1>1. SubSeq(text, b, b) = <<text[b]>>
  BY ShortParts
<1>2. IsLexeme(SubSeq(text, b, b))
  BY <1>1 DEF IsLexeme, Spaces
<1>3. ASSUME NEW r \in b + 1 .. Len(text), IsLexeme(SubSeq(text, b, r)) PROVE FALSE
  <2> DEFINE u == SubSeq(text, b, r)
  <2>1. u \in Seq(Bytes) /\ Len(u) = r - b + 1 /\ u[1] = text[b]
    <3>1. r \in b - 1 .. Len(text) /\ 1 \in 1 .. r - b + 1 /\ b + 1 - 1 = b
      OBVIOUS
    <3> QED BY <3>1, PartOfText
  <2>2. IsLexeme(u)
    BY <1>3
  <2> HIDE DEF u
  <2>3. Len(u) > 0 /\ Len(u) # 1
    BY <2>1
  <2> QED BY <2>1, <2>2, <2>3, KindByFirst DEF Spaces
<1>4. b \in b .. Len(text)
  OBVIOUS
<1> QED BY <1>2, <1>3, <1>4 DEF Longest

LEMMA LongestOfOps ==
  ASSUME NEW text \in Seq(Bytes), NEW b \in 1 .. Len(text), NEW q \in b .. Len(text),
         SubSeq(text, b, q) \in Ops,
         \A r \in q + 1 .. Len(text) : SubSeq(text, b, r) \notin Ops
  PROVE  Longest(text, b, q)
<1>1. IsLexeme(SubSeq(text, b, q))
  BY DEF IsLexeme
<1>2. ASSUME NEW r \in q + 1 .. Len(text), IsLexeme(SubSeq(text, b, r)) PROVE FALSE
  <2> DEFINE s == SubSeq(text, b, q)
             u == SubSeq(text, b, r)
  <2>1. u \in Seq(Bytes) /\ Len(u) = r - b + 1 /\ u[1] = text[b]
    BY PartOfText
  <2>2. s \in Seq(Bytes) /\ Len(s) = q - b + 1 /\ s[1] = text[b]
    BY PartOfText
  <2>3. IsLexeme(u) /\ s \in Ops /\ u \notin Ops
    BY <1>2
  <2> HIDE DEF s, u
  <2>4. Len(u) > 0 /\ Len(s) > 0
    BY <2>1, <2>2
  <2>5. s[1] \in {"."} \cup SingleOps \cup EqualOps
    BY <2>2, <2>3, <2>4, FirstByte
  <2>6. u \in Ops
    BY <2>1, <2>2, <2>3, <2>4, <2>5, KindByFirst
  <2> QED BY <2>3, <2>6
<1> QED BY <1>1, <1>2 DEF Longest

LEMMA LongestOp1 ==
  ASSUME NEW text \in Seq(Bytes), NEW b \in 1 .. Len(text),
         text[b] \in {"."} \cup SingleOps \cup EqualOps,
         b < Len(text) => /\ ~(text[b] = "." /\ text[b + 1] = ".")
                          /\ ~(text[b] \in EqualOps /\ text[b + 1] = "=")
  PROVE  Longest(text, b, b) /\ SubSeq(text, b, b) = <<text[b]>>
<1>1. SubSeq(text, b, b) = <<text[b]>>
  BY ShortParts
<1>2. SubSeq(text, b, b) \in Ops
  BY <1>1 DEF Ops
<1>3. ASSUME NEW r \in b + 1 .. Len(text) PROVE SubSeq(text, b, r) \notin Ops
  <2> DEFINE u == SubSeq(text, b, r)
  <2>1. /\ u \in Seq(Bytes) /\ Len(u) = r - b + 1
        /\ \A i \in 1 .. r - b + 1 : u[i] = text[b + i - 1]
    BY PartOfText
  <2> HIDE DEF u
  <2>2. Len(u) > 1 /\ u[1] = text[b] /\ u[2] = text[b + 1] /\ b < Len(text)
    BY <2>1
  <2>3. u \notin Ops
    BY <2>1, <2>2, OpsBySecond
  <2> QED BY <2>3 DEF u
<1>4. b \in b .. Len(text)
  OBVIOUS
<1> QED BY <1>1, <1>2, <1>3, <1>4, LongestOfOps

LEMMA LongestEqual ==
  ASSUME NEW text \in Seq(Bytes), NEW b \in 1 .. Len(text) - 1,
         text[b] \in EqualOps, text[b + 1] = "="
  PROVE  Longest(text, b, b + 1) /\ SubSeq(text, b, b + 1) = <<text[b], "=">>
<1>1. SubSeq(text, b, b + 1) = <<text[b], "=">>
  BY ShortParts
<1>2. SubSeq(text, b, b + 1) \in Ops
  BY <1>1 DEF Ops
<1>3. ASSUME NEW r \in b + 1 + 1 .. Len(text) PROVE SubSeq(text, b, r) \notin Ops
  <2> DEFINE u == SubSeq(text, b, r)
  <2>1. /\ u \in Seq(Bytes) /\ Len(u) = r - b + 1
        /\ \A i \in 1 .. r - b + 1 : u[i] = text[b + i - 1]
    BY PartOfText
  <2> HIDE DEF u
  <2>2. Len(u) > 1 /\ Len(u) # 2 /\ u[1] # "."
    BY <2>1 DEF EqualOps
  <2>3. u \notin Ops
    <3>1. u \in Seq(Bytes)
      BY <2>1
    <3> QED BY <2>2, <3>1, OpsBySecond
  <2> QED BY <2>3 DEF u
<1>4. b \in 1 .. Len(text) /\ b + 1 \in b .. Len(text)
  OBVIOUS
<1> QED BY <1>1, <1>2, <1>3, <1>4, LongestOfOps

LEMMA LongestPoints2 ==
  ASSUME NEW text \in Seq(Bytes), NEW b \in 1 .. Len(text) - 1,
         text[b] = ".", text[b + 1] = ".", b + 1 < Len(text) => text[b + 2] # "."
  PROVE  Longest(text, b, b + 1) /\ SubSeq(text, b, b + 1) = <<".", ".">>
<1>1. SubSeq(text, b, b + 1) = <<".", ".">>
  BY ShortParts
<1>2. SubSeq(text, b, b + 1) \in Ops
  BY <1>1 DEF Ops
<1>3. ASSUME NEW r \in b + 1 + 1 .. Len(text) PROVE SubSeq(text, b, r) \notin Ops
  <2> DEFINE u == SubSeq(text, b, r)
  <2>1. /\ u \in Seq(Bytes) /\ Len(u) = r - b + 1
        /\ \A i \in 1 .. r - b + 1 : u[i] = text[b + i - 1]
    BY PartOfText
  <2> HIDE DEF u
  <2>2. Len(u) > 1 /\ Len(u) > 2 /\ u[3] # "."
    BY <2>1
  <2>3. u \notin Ops
    BY <2>1, <2>2, OpsBySecond
  <2> QED BY <2>3 DEF u
<1>4. b \in 1 .. Len(text) /\ b + 1 \in b .. Len(text)
  OBVIOUS
<1> QED BY <1>1, <1>2, <1>3, <1>4, LongestOfOps

LEMMA LongestPoints3 ==
  ASSUME NEW text \in Seq(Bytes), NEW b \in 1 .. Len(text) - 2,
         text[b] = ".", text[b + 1] = ".", text[b + 2] = "."
  PROVE  Longest(text, b, b + 2) /\ SubSeq(text, b, b + 2) = <<".", ".", ".">>
<1>1. SubSeq(text, b, b + 2) = <<".", ".", ".">>
  BY ShortParts
<1>2. SubSeq(text, b, b + 2) \in Ops
  BY <1>1 DEF Ops
<1>3. ASSUME NEW r \in b + 2 + 1 .. Len(text) PROVE SubSeq(text, b, r) \notin Ops
  <2> DEFINE u == SubSeq(text, b, r)
  <2>1. u \in Seq(Bytes) /\ Len(u) = r - b + 1
    BY PartOfText
  <2> HIDE DEF u
  <2>2. Len(u) > 1 /\ Len(u) # 2 /\ Len(u) \notin 2 .. 3
    BY <2>1
  <2>3. u \notin Ops
    <3>1. u \in Seq(Bytes)
      BY <2>1
    <3> QED BY <2>2, <3>1, OpsBySecond
  <2> QED BY <2>3 DEF u
<1>4. b \in 1 .. Len(text) /\ b + 2 \in b .. Len(text)
  OBVIOUS
<1> QED BY <1>1, <1>2, <1>3, <1>4, LongestOfOps

LEMMA LongestComment ==
  ASSUME NEW text \in Seq(Bytes), NEW b \in 1 .. Len(text), NEW q \in b .. Len(text),
         text[b] = "#", \A i \in b .. q - 1 : text[i] # "nl",
         q = Len(text) \/ text[q] = "nl"
  PROVE  Longest(text, b, q)
<1> DEFINE s == SubSeq(text, b, q)
<1>1. s \in Seq(Bytes) /\ Len(s) = q - b + 1 /\ \A i \in 1 .. q - b + 1 : s[i] = text[b + i - 1]
  BY PartOfText
<1> HIDE DEF s
<1>2. IsComment(s)
  <2>1. ASSUME NEW i \in 1 .. Len(s) - 1 PROVE s[i] # "nl"
    <3>1. i \in 1 .. q - b + 1 /\ b + i - 1 \in b .. q - 1
      BY <1>1
    <3> QED BY <1>1, <3>1
  <2>2. s[1] = "#"
    BY <1>1
  <2> QED BY <2>1, <2>2 DEF IsComment
<1>3. ASSUME NEW r \in q + 1 .. Len(text), IsLexeme(SubSeq(text, b, r)) PROVE FALSE
  <2> DEFINE u == SubSeq(text, b, r)
             k == q - b + 1
  <2>1. u \in Seq(Bytes) /\ Len(u) = r - b + 1 /\ \A i \in 1 .. r - b + 1 : u[i] = text[b + i - 1]
    BY PartOfText
  <2>2. IsLexeme(u)
    BY <1>3
  <2> HIDE DEF u
  <2>3. u[1] = "#" /\ Len(u) > 0 /\ k \in 1 .. r - b + 1 /\ k \in 1 .. Len(u) - 1 /\ b + k - 1 = q
    BY <2>1
  <2> HIDE DEF k
  <2>4. u[k] = text[q] /\ text[q] = "nl"
    BY <2>1, <2>3
  <2>5. IsComment(u)
    BY <2>1, <2>2, <2>3, KindByFirst
  <2> QED BY <2>3, <2>4, <2>5 DEF IsComment
<1> QED BY <1>2, <1>3 DEF s, Longest, IsLexeme

LEMMA NoLexeme ==
  ASSUME NEW text \in Seq(Bytes), NEW b \in 1 .. Len(text), text[b] \in {"?", "\\"}
  PROVE  \A r \in b .. Len(text) : ~IsLexeme(SubSeq(text, b, r))
<1> SUFFICES ASSUME NEW r \in b .. Len(text), IsLexeme(SubSeq(text, b, r)) PROVE FALSE
  OBVIOUS
<1> DEFINE u == SubSeq(text, b, r)
<1>1. u \in Seq(Bytes) /\ Len(u) = r - b + 1 /\ u[1] = text[b] /\ IsLexeme(u)
  BY PartOfText
<1> HIDE DEF u
<1>2. Len(u) > 0
  BY <1>1
<1> QED BY <1>1, <1>2, KindByFirst

(* A text from place b on.                                                 *)
Rest(text, b) == SubSeq(text, b, Len(text))

LEMMA RestIs ==
  ASSUME NEW text \in Seq(Bytes), NEW b \in 1 .. Len(text)
  PROVE  /\ Rest(text, b) \in Seq(Bytes) /\ Len(Rest(text, b)) = Len(text) - b + 1
         /\ Len(Rest(text, b)) > 0
         /\ \A i \in b .. Len(text) : Rest(text, b)[i - b + 1] = text[i]
<1>1. Len(text) \in b - 1 .. Len(text)
  OBVIOUS
<1>2. /\ Rest(text, b) \in Seq(Bytes) /\ Len(Rest(text, b)) = Len(text) - b + 1
      /\ \A i \in 1 .. Len(text) - b + 1 : Rest(text, b)[i] = text[b + i - 1]
  BY <1>1, PartOfText DEF Rest
<1>3. ASSUME NEW i \in b .. Len(text) PROVE Rest(text, b)[i - b + 1] = text[i]
  <2>1. i - b + 1 \in 1 .. Len(text) - b + 1 /\ b + (i - b + 1) - 1 = i
    OBVIOUS
  <2>2. Rest(text, b)[i - b + 1] = text[b + (i - b + 1) - 1]
    BY <1>2, <2>1
  <2> QED BY <2>1, <2>2
<1> QED BY <1>2, <1>3

LEMMA KeptOfText ==
  ASSUME NEW text \in Seq(Bytes), NEW b \in 1 .. Len(text), NEW r \in b .. Len(text)
  PROVE  \A i \in 1 .. r - b + 1 : Kept(SubSeq(text, b, r))[i] = Kept(Rest(text, b))[i]
<1> DEFINE s == SubSeq(text, b, r)
           t == Rest(text, b)
           n == r - b + 1
<1>1. r \in b - 1 .. Len(text) /\ n \in Nat \ {0} /\ n <= Len(text) - b + 1
  OBVIOUS
<1>2. s \in Seq(Bytes) /\ Len(s) = n /\ \A i \in 1 .. n : s[i] = text[b + i - 1]
  BY <1>1, PartOfText
<1>3. t \in Seq(Bytes) /\ Len(t) = Len(text) - b + 1
  BY RestIs
<1>4. ASSUME NEW i \in 1 .. n PROVE s[i] = t[i]
  <2>1. b + i - 1 \in b .. Len(text) /\ b + i - 1 - b + 1 = i
    BY <1>1
  <2>2. t[b + i - 1 - b + 1] = text[b + i - 1]
    BY <2>1, RestIs
  <2> QED BY <1>2, <2>1, <2>2
<1> HIDE DEF s, t, n
<1>5. n <= Len(s) /\ n <= Len(t)
  BY <1>1, <1>2, <1>3
<1>6. \A i \in 1 .. n : Kept(s)[i] = Kept(t)[i]
  BY <1>1, <1>2, <1>3, <1>4, <1>5, KeptOfPart
<1> QED BY <1>6 DEF s, t, n

(* The byte at place i ends a string that begins at place b.               *)
ClosesAt(text, b, i) == text[i] = text[b] /\ ~Kept(Rest(text, b))[i - b].open

LEMMA ClosesInText ==
  ASSUME NEW text \in Seq(Bytes), NEW b \in 1 .. Len(text), NEW r \in b .. Len(text),
         NEW i \in b + 1 .. r
  PROVE  Closes(SubSeq(text, b, r), i - b + 1) <=> ClosesAt(text, b, i)
<1> DEFINE s == SubSeq(text, b, r)
           j == i - b + 1
<1>1. /\ r \in b - 1 .. Len(text) /\ j \in 1 .. r - b + 1 /\ b + j - 1 = i /\ j >= 2
      /\ j - 1 = i - b /\ j - 1 \in 1 .. r - b + 1 /\ 1 \in 1 .. r - b + 1 /\ b + 1 - 1 = b
  OBVIOUS
<1>2. /\ s \in Seq(Bytes) /\ Len(s) = r - b + 1
      /\ \A m \in 1 .. r - b + 1 : s[m] = text[b + m - 1]
  BY <1>1, PartOfText
<1>3. Kept(s)[j - 1] = Kept(Rest(text, b))[j - 1]
  BY <1>1, KeptOfText
<1> HIDE DEF s, j
<1>4. s[j] = text[i] /\ s[1] = text[b]
  BY <1>1, <1>2
<1>5. j \in 2 .. Len(s)
  BY <1>1, <1>2
<1>6. Closes(s, j) <=> (s[j] = s[1] /\ ~Kept(s)[j - 1].open)
  BY <1>2, <1>5, ClosesUnlessOpen
<1>7. Closes(s, j) <=> ClosesAt(text, b, i)
  BY <1>1, <1>3, <1>4, <1>6 DEF ClosesAt
<1> QED BY <1>7 DEF s, j

LEMMA LongestString ==
  ASSUME NEW text \in Seq(Bytes), NEW b \in 1 .. Len(text), NEW q \in b + 1 .. Len(text),
         text[b] \in Quotes, ClosesAt(text, b, q),
         \A i \in b + 1 .. q - 1 : ~ClosesAt(text, b, i)
  PROVE  /\ Longest(text, b, q) /\ IsString(SubSeq(text, b, q))
         /\ Content(SubSeq(text, b, q)) = Kept(Rest(text, b))[q - b].out
<1> DEFINE s == SubSeq(text, b, q)
<1>1. q \in b .. Len(text) /\ q \in b - 1 .. Len(text) /\ q \in b + 1 .. q
  OBVIOUS
<1>2. s \in Seq(Bytes) /\ Len(s) = q - b + 1 /\ s[1] = text[b]
  <2>1. 1 \in 1 .. q - b + 1 /\ b + 1 - 1 = b
    OBVIOUS
  <2> QED BY <1>1, <2>1, PartOfText
<1>3. Closes(s, q - b + 1)
  BY <1>1, ClosesInText
<1>4. ASSUME NEW i \in 1 .. q - b PROVE ~Closes(s, i)
  <2>1. CASE i = 1
    BY <2>1 DEF Closes
  <2>2. CASE i # 1
    <3>1. b + i - 1 \in b + 1 .. q /\ b + i - 1 \in b + 1 .. q - 1 /\ b + i - 1 - b + 1 = i
      BY <2>2
    <3>2. Closes(s, b + i - 1 - b + 1) <=> ClosesAt(text, b, b + i - 1)
      BY <1>1, <3>1, ClosesInText
    <3> QED BY <3>1, <3>2
  <2> QED BY <2>1, <2>2
<1>5. IsString(s)
  <2>1. 1 .. Len(s) - 1 = 1 .. q - b
    BY <1>2
  <2> HIDE DEF s
  <2> QED BY <1>2, <1>3, <1>4, <2>1 DEF IsString
<1>6. Content(s) = Kept(Rest(text, b))[q - b].out
  <2>1. Len(s) - 1 = q - b /\ q - b \in 1 .. q - b + 1
    BY <1>2
  <2>2. Kept(s)[q - b] = Kept(Rest(text, b))[q - b]
    BY <1>1, <2>1, KeptOfText
  <2> QED BY <2>1, <2>2 DEF Content
<1>7. ASSUME NEW r \in q + 1 .. Len(text), IsLexeme(SubSeq(text, b, r)) PROVE FALSE
  <2> DEFINE u == SubSeq(text, b, r)
  <2>1. /\ r \in b .. Len(text) /\ r \in b - 1 .. Len(text) /\ q \in b + 1 .. r
        /\ 1 \in 1 .. r - b + 1 /\ b + 1 - 1 = b
    OBVIOUS
  <2>2. u \in Seq(Bytes) /\ Len(u) = r - b + 1 /\ u[1] = text[b]
    BY <2>1, PartOfText
  <2>3. Closes(u, q - b + 1)
    BY <2>1, ClosesInText
  <2>4. IsLexeme(u)
    BY <1>7
  <2> HIDE DEF u
  <2>5. Len(u) > 0 /\ q - b + 1 \in 1 .. Len(u) - 1
    BY <2>2
  <2>6. IsString(u)
    BY <2>2, <2>4, <2>5, KindByFirst
  <2> QED BY <2>3, <2>5, <2>6 DEF IsString
<1>8. IsLexeme(s)
  BY <1>5 DEF IsLexeme
<1> QED BY <1>1, <1>5, <1>6, <1>7, <1>8 DEF Longest

LEMMA OpenString ==
  ASSUME NEW text \in Seq(Bytes), NEW b \in 1 .. Len(text), text[b] \in Quotes,
         \A i \in b + 1 .. Len(text) : ~ClosesAt(text, b, i)
  PROVE  \A r \in b .. Len(text) : ~IsLexeme(SubSeq(text, b, r))
<1> SUFFICES ASSUME NEW r \in b .. Len(text), IsLexeme(SubSeq(text, b, r)) PROVE FALSE
  OBVIOUS
<1> DEFINE u == SubSeq(text, b, r)
<1>1. /\ r \in b - 1 .. Len(text) /\ 1 \in 1 .. r - b + 1 /\ b + 1 - 1 = b
  OBVIOUS
<1>2. u \in Seq(Bytes) /\ Len(u) = r - b + 1 /\ u[1] = text[b] /\ IsLexeme(u)
  BY <1>1, PartOfText
<1>3. IsString(u)
  <2> HIDE DEF u
  <2>1. Len(u) > 0
    BY <1>2
  <2> QED BY <1>2, <2>1, KindByFirst
<1>4. Closes(u, r - b + 1)
  <2> HIDE DEF u
  <2> QED BY <1>2, <1>3 DEF IsString
<1>5. r \in b + 1 .. r /\ r \in b + 1 .. Len(text)
  <2>1. r - b + 1 > 1
    BY <1>4 DEF Closes
  <2> QED BY <2>1
<1>6. ClosesAt(text, b, r)
  BY <1>4, <1>5, ClosesInText
<1> QED BY <1>5, <1>6

-----------------------------------------------------------------------------
(* What a lexeme adds to the tokens.                                       *)

LEMMA LineCount ==
  ASSUME NEW text \in Seq(Bytes)
  PROVE  /\ LineAt(text, 1) = 1
         /\ \A p \in 1 .. Len(text) :
              /\ text[p] = "nl" => LineAt(text, p + 1) = LineAt(text, p) + 1
              /\ text[p] # "nl" => LineAt(text, p + 1) = LineAt(text, p)
<1> DEFINE Before(p) == {i \in 1 .. p - 1 : text[i] = "nl"}
<1>1. \A p : LineAt(text, p) = 1 + Cardinality(Before(p))
  BY DEF LineAt
<1>2. Before(1) = {}
  OBVIOUS
<1>3. LineAt(text, 1) = 1
  BY <1>1, <1>2, FS_EmptySet
<1>4. ASSUME NEW p \in 1 .. Len(text)
      PROVE  /\ text[p] = "nl" => LineAt(text, p + 1) = LineAt(text, p) + 1
             /\ text[p] # "nl" => LineAt(text, p + 1) = LineAt(text, p)
  <2>1. IsFiniteSet(Before(p)) /\ Cardinality(Before(p)) \in Nat
    <3>1. 1 \in Int /\ p - 1 \in Int /\ Before(p) \in SUBSET (1 .. p - 1)
      OBVIOUS
    <3>2. IsFiniteSet(1 .. p - 1)
      BY <3>1, FS_Interval
    <3>3. IsFiniteSet(Before(p))
      BY <3>1, <3>2, FS_Subset
    <3> QED BY <3>3, FS_CardinalityType
  <2>2. CASE text[p] = "nl"
    <3>1. Before(p + 1) = Before(p) \cup {p} /\ p \notin Before(p)
      BY <2>2
    <3>2. Cardinality(Before(p) \cup {p}) = Cardinality(Before(p)) + 1
      BY <2>1, <3>1, FS_AddElement
    <3> HIDE DEF Before
    <3>3. LineAt(text, p + 1) = 1 + (Cardinality(Before(p)) + 1)
      BY <1>1, <3>1, <3>2
    <3>4. LineAt(text, p) = 1 + Cardinality(Before(p))
      BY <1>1
    <3> QED BY <2>1, <2>2, <3>3, <3>4
  <2>3. CASE text[p] # "nl"
    <3>1. Before(p + 1) = Before(p)
      BY <2>3
    <3> HIDE DEF Before
    <3> QED BY <1>1, <2>3, <3>1
  <2> QED BY <2>2, <2>3
<1> QED BY <1>3, <1>4

LEMMA TokenOfKinds ==
  ASSUME NEW s \in Seq(Bytes), Len(s) > 0, NEW l
  PROVE  /\ IsHex(s) /\ ~IsDecimal(s) => TokenOf(s, l) = Token("hex", Tail(Tail(s)), l)
         /\ IsDecimal(s) /\ ~IsHex(s) => TokenOf(s, l) = Token("num", s, l)
         /\ s \in Ops => TokenOf(s, l) = Token("op", s, l)
         /\ IsString(s) => TokenOf(s, l) = Token("str", Content(s), l)
<1>1. IsHex(s) => ~IsWord(s) /\ s \notin Ops
  BY FirstByte DEF Letters, SingleOps, EqualOps
<1>2. IsDecimal(s) => ~IsWord(s) /\ s \notin Ops
  BY FirstByte DEF Letters, SingleOps, EqualOps, Digits
<1>3. s \in Ops => ~IsWord(s) /\ ~IsHex(s) /\ ~IsDecimal(s)
  BY <1>1, <1>2, FirstByte DEF Letters, SingleOps, EqualOps, Digits
<1>4. IsString(s) => ~IsWord(s) /\ ~IsHex(s) /\ ~IsDecimal(s) /\ s \notin Ops
  BY FirstByte DEF Letters, SingleOps, EqualOps, Digits, Quotes
<1> QED BY <1>1, <1>2, <1>3, <1>4 DEF TokenOf

LEMMA HexIsNotDecimal ==
  ASSUME NEW s \in Seq(Bytes), IsHex(s)
  PROVE  ~IsDecimal(s)
<1>1. Len(s) >= 2 /\ s[2] = "x"
  BY DEF IsHex
<1>2. 2 \in DOMAIN s
  BY <1>1
<1> QED BY <1>1, <1>2 DEF IsDecimal, OnlyOf, Digits

(* What is between tokens.                                                 *)
Blanks == {" ", "#", "nl", ";"}

LEMMA WithToken ==
  ASSUME NEW ts, NEW s, NEW l, s[1] \notin Blanks
  PROVE  With(ts, s, l) = Append(ts, TokenOf(s, l))
  BY DEF With, Blanks

LEMMA WithBlank ==
  ASSUME NEW ts, NEW s, NEW l
  PROVE  /\ s[1] = " " \/ s[1] = "#" => With(ts, s, l) = ts
         /\ s[1] = "nl" \/ s[1] = ";" =>
              With(ts, s, l) = IF ts # << >> /\ EndsStatement(Last(ts))
                               THEN Append(ts, Token("end", << >>, 0)) ELSE ts
  BY DEF With

-----------------------------------------------------------------------------
(* Where the lexer reads.                                                  *)

(* The whole text is in the block of s.                                    *)
InBlock(s) ==
  /\ s \in [text : Seq(Bytes), size : Nat, rsize : {0}, seek : Nat, from : Nat,
            buf : {s.buf}]
  /\ s.seek <= Len(s.text) /\ Len(s.text) <= s.size
  /\ \A i \in 0 .. Len(s.text) - 1 : i \in DOMAIN s.buf /\ s.buf[i] = s.text[i + 1]

LEMMA OpenInBlock ==
  ASSUME NEW t \in Seq(Bytes), NEW s,
         s = OpenS(t) \/ (s = Open(t) /\ Len(t) <= Size)
  PROVE  InBlock(s)
<1>1. Len(t) \in Nat /\ Size \in Nat
  BY SizeAssumption
<1>2. CASE s = OpenS(t)
  <2>1. /\ s = [text |-> t, size |-> Len(t), rsize |-> 0, seek |-> 0, from |-> Len(t),
                buf |-> s.buf]
        /\ s.buf = [i \in 0 .. Len(t) |-> IF i < Len(t) THEN t[i + 1] ELSE Nul]
    BY <1>2 DEF OpenS
  <2>2. \A i \in 0 .. Len(t) - 1 : i \in 0 .. Len(t) /\ i < Len(t)
    BY <1>1
  <2> QED BY <1>1, <2>1, <2>2 DEF InBlock
<1>3. CASE s = Open(t) /\ Len(t) <= Size
  <2>1. /\ s = [text |-> t, size |-> Size, rsize |-> 0, seek |-> 0,
                from |-> Least(Size, Len(t)), buf |-> s.buf]
        /\ s.buf = [i \in 0 .. Size - 1 |-> IF i < Len(t) THEN t[i + 1] ELSE Unknown]
    BY <1>3 DEF Open
  <2>2. /\ Least(Size, Len(t)) \in Nat
        /\ \A i \in 0 .. Len(t) - 1 : i \in 0 .. Size - 1 /\ i < Len(t)
    BY <1>1, <1>3 DEF Least
  <2>3. s \in [text : Seq(Bytes), size : Nat, rsize : {0}, seek : Nat, from : Nat,
               buf : {s.buf}]
    BY <1>1, <2>1, <2>2
  <2>4. s.text = t /\ s.size = Size /\ s.seek = 0
    BY <2>1
  <2>5. \A i \in 0 .. Len(t) - 1 : i \in DOMAIN s.buf /\ s.buf[i] = t[i + 1]
    BY <2>1, <2>2
  <2> QED BY <1>1, <1>3, <2>3, <2>4, <2>5 DEF InBlock
<1> QED BY <1>2, <1>3

(* No block is loaded any more, and reading stops at the end of the text.  *)
LEMMA ReadInBlock ==
  ASSUME NEW s, InBlock(s)
  PROVE  InBlock(Advanced(s)) /\ Looked(s, 1) = s
<1>1. /\ s \in [text : Seq(Bytes), size : Nat, rsize : {0}, seek : Nat, from : Nat,
                buf : {s.buf}]
      /\ Len(s.text) \in Nat
  BY DEF InBlock
<1>2. ASSUME NEW n \in Nat PROVE Ready(s, n) = s
  <2>1. ~IsLoad(s, n)
    BY <1>1 DEF InBlock, IsLoad, IsEnd, Position
  <2> QED BY <2>1 DEF Ready
<1>3. CASE IsEnd(s, 0)
  BY <1>2, <1>3 DEF Advanced, Looked
<1>4. CASE ~IsEnd(s, 0)
  <2>1. Advanced(s) = [s EXCEPT !.seek = s.seek + 1]
    BY <1>2, <1>4 DEF Advanced
  <2>2. s.seek + 1 <= Len(s.text)
    BY <1>1, <1>4 DEF IsEnd, Position
  <2> QED BY <1>1, <1>2, <2>1, <2>2 DEF InBlock, Looked
<1> QED BY <1>3, <1>4

-----------------------------------------------------------------------------
(* A byte behind these is looked at, without a look at whether the text    *)
(* ends.                                                                   *)
Longer == {"."} \cup EqualOps

(* The end of the text can be seen, or nobody looks at what is behind it.  *)
Sound(s) ==
  /\ InBlock(s) /\ Len(s.text) > 0
  /\ \/ s.text[Len(s.text)] \notin Longer
     \/ Len(s.text) \in DOMAIN s.buf /\ s.buf[Len(s.text)] = Nul

LEMMA SoundReads ==
  ASSUME NEW s, Sound(s)
  PROVE  /\ s.text \in Seq(Bytes) /\ Len(s.text) \in Nat \ {0}
         /\ s.seek \in 0 .. Len(s.text) /\ Position(s) = s.seek
         /\ IsEnd(s, 0) <=> s.seek = Len(s.text)
         /\ Looked(s, 1) = s
         /\ s.seek < Len(s.text) =>
              /\ AtChar(s) = s.text[s.seek + 1]
              /\ ReadChar(s) = s.text[s.seek + 1]
              /\ Current(s) = {s.text[s.seek + 1]}
              /\ s.text[s.seek + 1] \in Bytes
              /\ Sound(Advanced(s)) /\ Advanced(s).text = s.text
              /\ Advanced(s).seek = s.seek + 1
         /\ s.seek = Len(s.text) =>
              /\ ReadChar(s) = Nul /\ Advanced(s) = s
              /\ s.text[Len(s.text)] \notin Longer \/ Current(s) = {Nul}
         /\ s.seek + 1 < Len(s.text) => MatchChar(s, 1) = s.text[s.seek + 2]
         /\ s.seek + 1 >= Len(s.text) => MatchChar(s, 1) = Nul
<1> DEFINE text == s.text
           p == s.seek
<1>1. /\ s \in [text : Seq(Bytes), size : Nat, rsize : {0}, seek : Nat, from : Nat,
                buf : {s.buf}]
      /\ Len(text) \in Nat \ {0} /\ text \in Seq(Bytes)
      /\ p \in 0 .. Len(text) /\ Len(text) <= s.size /\ s.size \in Nat
      /\ \A i \in 0 .. Len(text) - 1 : i \in DOMAIN s.buf /\ s.buf[i] = text[i + 1]
  BY DEF Sound, InBlock
<1>2. Position(s) = p
  BY <1>1 DEF Position
<1>3. IsEnd(s, 0) <=> p = Len(text)
  BY <1>1, <1>2 DEF IsEnd
<1>4. ASSUME NEW n \in Nat PROVE Ready(s, n) = s
  <2>1. ~IsLoad(s, n)
    BY <1>1, <1>2 DEF IsLoad, IsEnd
  <2> QED BY <2>1 DEF Ready
<1>5. Looked(s, 1) = s
  BY <1>4 DEF Looked
<1>6. ASSUME p < Len(text)
      PROVE  /\ AtChar(s) = text[p + 1] /\ ReadChar(s) = text[p + 1]
             /\ Current(s) = {text[p + 1]} /\ text[p + 1] \in Bytes
             /\ Sound(Advanced(s)) /\ Advanced(s).text = text /\ Advanced(s).seek = p + 1
  <2>1. p \in 0 .. Len(text) - 1 /\ ~IsEnd(s, 0)
    BY <1>1, <1>3, <1>6
  <2>2. BufAt(s, p) = text[p + 1] /\ text[p + 1] \in Bytes
    BY <1>1, <2>1 DEF BufAt
  <2>3. AtChar(s) = text[p + 1] /\ ReadChar(s) = text[p + 1]
    BY <1>4, <2>1, <2>2 DEF AtChar, ReadChar
  <2>4. Current(s) = {text[p + 1]}
    BY <2>2, <2>3, TextsAssumption DEF Current
  <2>5. Advanced(s) = [s EXCEPT !.seek = p + 1]
    BY <1>4, <2>1 DEF Advanced
  <2>6. Advanced(s).text = text /\ Advanced(s).seek = p + 1 /\ Advanced(s).buf = s.buf
    BY <1>1, <2>5
  <2>7. Sound(Advanced(s))
    BY <2>6, ReadInBlock DEF Sound
  <2> QED BY <2>2, <2>3, <2>4, <2>6, <2>7
<1>7. ASSUME p = Len(text)
      PROVE  /\ ReadChar(s) = Nul /\ Advanced(s) = s
             /\ text[Len(text)] \notin Longer \/ Current(s) = {Nul}
  <2>1. IsEnd(s, 0)
    BY <1>3, <1>7
  <2>2. Len(text) \in DOMAIN s.buf /\ s.buf[Len(text)] = Nul => Current(s) = {Nul} \/ Nul = Unknown
    BY <1>7 DEF Current, AtChar, BufAt
  <2> QED BY <2>1, <2>2, TextsAssumption DEF ReadChar, Advanced, Sound
<1>8. p + 1 < Len(text) => MatchChar(s, 1) = text[p + 2]
  <2> SUFFICES ASSUME p + 1 < Len(text) PROVE MatchChar(s, 1) = text[p + 2]
    OBVIOUS
  <2>1. ~IsEnd(s, 1) /\ ~(1 >= s.size) /\ p + 1 \in 0 .. Len(text) - 1
    BY <1>1, <1>2 DEF IsEnd
  <2>2. MatchChar(s, 1) = BufAt(s, p + 1)
    BY <1>4, <2>1 DEF MatchChar
  <2> QED BY <1>1, <2>1, <2>2 DEF BufAt
<1>9. p + 1 >= Len(text) => MatchChar(s, 1) = Nul
  BY <1>1, <1>2 DEF MatchChar, IsEnd
<1> QED BY <1>1, <1>2, <1>3, <1>5, <1>6, <1>7, <1>8, <1>9

LEMMA SoundAtFirst ==
  ASSUME NEW t \in Seq(Bytes) \ {<< >>}, NEW s,
         s = OpenS(t) \/ (s = Open(t) /\ Len(t) <= Size /\ t[Len(t)] \notin Longer)
  PROVE  Sound(s) /\ s.text = t /\ s.seek = 0
<1>1. InBlock(s)
  BY OpenInBlock
<1>2. Len(t) \in Nat \ {0}
  BY EmptySeq
<1>3. CASE s = OpenS(t)
  <2>1. /\ s.text = t /\ s.seek = 0
        /\ s.buf = [i \in 0 .. Len(t) |-> IF i < Len(t) THEN t[i + 1] ELSE Nul]
    BY <1>3 DEF OpenS
  <2>2. Len(t) \in 0 .. Len(t) /\ ~(Len(t) < Len(t))
    BY <1>2
  <2> QED BY <1>1, <1>2, <2>1, <2>2 DEF Sound
<1>4. CASE s = Open(t) /\ Len(t) <= Size /\ t[Len(t)] \notin Longer
  <2>1. s.text = t /\ s.seek = 0
    BY <1>4 DEF Open
  <2> QED BY <1>1, <1>2, <1>4, <2>1 DEF Sound
<1> QED BY <1>3, <1>4

-----------------------------------------------------------------------------
(* What is known of a text while it is read: what is in bufs, s, belongs   *)
(* to the lexeme that begins at place b, of which the bytes up to place p  *)
(* are read.                                                               *)

InComment(text, b, p) == text[b] = "#" /\ \A i \in b .. p : text[i] # "nl"

InWord(text, b, p, s) ==
  /\ text[b] \in Letters /\ \A i \in b .. p : text[i] \in Letters \cup Digits
  /\ s = SubSeq(text, b, p)

InHex(text, b, p, s) ==
  /\ HexAt(text, b) /\ b + 1 <= p /\ \A i \in b + 2 .. p : text[i] \in HexDigits
  /\ s = SubSeq(text, b + 2, p)

InDecimal(text, b, p, s) ==
  /\ text[b] \in Digits /\ ~HexAt(text, b) /\ \A i \in b .. p : GoesOn(text, i)
  /\ s = SubSeq(text, b, p)

(* A backslash that escapes nothing is kept before its successor is read.  *)
(* (Behind the end of a file anything may seem to be escaped.)             *)
KeptAs(st, s, text, p) ==
  \/ ~st.open /\ s = st.out
  \/ /\ st.open /\ s = Append(st.out, "\\")
     /\ text[p + 1] \notin Quotes \cup {"\\", "n"}

InString(text, b, p, s, q) ==
  /\ b <= p /\ text[b] \in Quotes /\ q = text[b]
  /\ \A i \in b + 1 .. p : ~ClosesAt(text, b, i)
  /\ p < Len(text) => KeptAs(Kept(Rest(text, b))[p - b + 1], s, text, p)

InLexeme(m, text, b, p, s, q) ==
  \/ m = "comment" /\ InComment(text, b, p)
  \/ m = "word" /\ InWord(text, b, p, s)
  \/ m = "hex" /\ InHex(text, b, p, s)
  \/ m = "decimal" /\ InDecimal(text, b, p, s)
  \/ m = "string" /\ InString(text, b, p, s, q)

(* The tokens ts and the mode m are right for the text up to place p.      *)
Right(m, text, p, ts, s, q, l) ==
  \/ m = "main" /\ At(text, p, ts)
  \/ m = "done" /\ At(text, Len(text), ts)
  \/ m = "error" /\ Tokens(text) = Wrong
  \/ \E b \in 1 .. Len(text) :
       /\ b <= p + 1 /\ At(text, b - 1, ts) /\ l = LineAt(text, b)
       /\ InLexeme(m, text, b, p, s, q)

Modes == {"comment", "string", "word", "hex", "decimal"}

LEMMA RightIn ==
  ASSUME NEW m, NEW text, NEW p, NEW ts, NEW s, NEW q, NEW l,
         Right(m, text, p, ts, s, q, l)
  PROVE  /\ m = "main" => At(text, p, ts)
         /\ m = "done" => At(text, Len(text), ts)
         /\ m = "error" => Tokens(text) = Wrong
         /\ m \in Modes => \E b \in 1 .. Len(text) :
              /\ b <= p + 1 /\ At(text, b - 1, ts) /\ l = LineAt(text, b)
              /\ InLexeme(m, text, b, p, s, q)
  BY DEF Right, InLexeme, Modes

LEMMA InModes ==
  ASSUME NEW m, NEW text, NEW b, NEW p, NEW s, NEW q, InLexeme(m, text, b, p, s, q)
  PROVE  /\ m = "comment" => InComment(text, b, p)
         /\ m = "word" => InWord(text, b, p, s)
         /\ m = "hex" => InHex(text, b, p, s)
         /\ m = "decimal" => InDecimal(text, b, p, s)
         /\ m = "string" => InString(text, b, p, s, q)
  BY DEF InLexeme

(* A part of a text, and one more byte of it.                              *)
LEMMA OneMore ==
  ASSUME NEW text \in Seq(Bytes), NEW p \in 0 .. Len(text) - 1, NEW b \in 1 .. p + 1
  PROVE  Append(SubSeq(text, b, p), text[p + 1]) = SubSeq(text, b, p + 1)
  OBVIOUS

(* A word or a number goes on.                                             *)
LEMMA WordOn ==
  ASSUME NEW text \in Seq(Bytes), NEW p \in 0 .. Len(text) - 1, NEW b \in 1 .. p + 1, NEW s,
         InWord(text, b, p, s), text[p + 1] \in Letters \cup Digits
  PROVE  InWord(text, b, p + 1, Append(s, text[p + 1]))
<1>1. Append(s, text[p + 1]) = SubSeq(text, b, p + 1)
  BY OneMore DEF InWord
<1>2. ASSUME NEW i \in b .. p + 1 PROVE text[i] \in Letters \cup Digits
  <2>1. i \in b .. p \/ i = p + 1
    OBVIOUS
  <2> QED BY <2>1 DEF InWord
<1> QED BY <1>1, <1>2 DEF InWord

LEMMA HexOn ==
  ASSUME NEW text \in Seq(Bytes), NEW p \in 0 .. Len(text) - 1, NEW b \in 1 .. p + 1, NEW s,
         InHex(text, b, p, s), text[p + 1] \in HexDigits
  PROVE  InHex(text, b, p + 1, Append(s, text[p + 1]))
<1>1. b + 2 \in 1 .. p + 1
  BY DEF InHex
<1>2. Append(s, text[p + 1]) = SubSeq(text, b + 2, p + 1)
  BY <1>1, OneMore DEF InHex
<1>3. ASSUME NEW i \in b + 2 .. p + 1 PROVE text[i] \in HexDigits
  <2>1. i \in b + 2 .. p \/ i = p + 1
    OBVIOUS
  <2> QED BY <2>1 DEF InHex
<1>4. b + 1 <= p + 1 /\ HexAt(text, b)
  BY DEF InHex
<1> QED BY <1>2, <1>3, <1>4 DEF InHex

LEMMA DecimalOn ==
  ASSUME NEW text \in Seq(Bytes), NEW p \in 0 .. Len(text) - 1, NEW b \in 1 .. p + 1, NEW s,
         InDecimal(text, b, p, s), GoesOn(text, p + 1)
  PROVE  InDecimal(text, b, p + 1, Append(s, text[p + 1]))
<1>1. Append(s, text[p + 1]) = SubSeq(text, b, p + 1)
  BY OneMore DEF InDecimal
<1>2. ASSUME NEW i \in b .. p + 1 PROVE GoesOn(text, i)
  <2>1. i \in b .. p \/ i = p + 1
    OBVIOUS
  <2> QED BY <2>1 DEF InDecimal
<1> QED BY <1>1, <1>2 DEF InDecimal

(* The token of a word does not end a statement of itself.                 *)
LEMMA WordToken ==
  ASSUME NEW s \in Seq(Bytes), Len(s) > 0, NEW l, IsWord(s)
  PROVE  \E k : k # "end" /\ TokenOf(s, l) = Token(k, s, l)
<1>1. ~IsHex(s) /\ ~IsDecimal(s) /\ s \notin Ops
  BY FirstByte DEF Letters, SingleOps, EqualOps, Digits
<1>2. ~IsString(s)
  BY FirstByte DEF Letters, Quotes
<1>3. TokenOf(s, l) = Token(IF s \in Keys THEN "key" ELSE IF s \in Values THEN "val" ELSE "ide",
                            s, l)
  BY <1>1 DEF TokenOf
<1> QED BY <1>3

(* Where a word or a number ends, its token is that of the longest lexeme. *)
LEMMA WordEnds ==
  ASSUME NEW text \in Seq(Bytes), NEW p \in 0 .. Len(text), NEW b \in 1 .. Len(text),
         b <= p + 1, NEW s, NEW ts, At(text, b - 1, ts), InWord(text, b, p, s),
         p < Len(text) => text[p + 1] \notin Letters \cup Digits
  PROVE  /\ At(text, p, Append(ts, TokenOf(s, LineAt(text, b))))
         /\ \E k : k # "end" /\ TokenOf(s, LineAt(text, b)) = Token(k, s, LineAt(text, b))
<1>1. p \in b .. Len(text)
  <2>1. b # p + 1
    BY DEF InWord
  <2> QED BY <2>1
<1>2. Longest(text, b, p) /\ IsWord(s)
  BY <1>1, LongestWord DEF InWord
<1>3. s \in Seq(Bytes) /\ Len(s) > 0 /\ s[1] \in Letters /\ s = SubSeq(text, b, p)
  <2>1. p \in b - 1 .. Len(text) /\ p - b + 1 > 0
    BY <1>1
  <2> QED BY <1>2, <2>1, PartOfText DEF InWord, IsWord
<1>4. ~IsDecimal(s)
  BY <1>3, FirstByte DEF Letters, Digits
<1>5. At(text, p, With(ts, s, LineAt(text, b)))
  BY <1>2, <1>3, <1>4, TakeLexeme
<1>6. With(ts, s, LineAt(text, b)) = Append(ts, TokenOf(s, LineAt(text, b)))
  <2>1. s[1] \notin Blanks
    BY <1>3 DEF Letters, Blanks
  <2> QED BY <2>1, WithToken
<1>7. \E k : k # "end" /\ TokenOf(s, LineAt(text, b)) = Token(k, s, LineAt(text, b))
  BY <1>2, <1>3, WordToken
<1> QED BY <1>5, <1>6, <1>7

LEMMA HexEnds ==
  ASSUME NEW text \in Seq(Bytes), NEW p \in 0 .. Len(text), NEW b \in 1 .. Len(text),
         b <= p + 1, NEW s, NEW ts, At(text, b - 1, ts), InHex(text, b, p, s),
         p < Len(text) => text[p + 1] \notin HexDigits
  PROVE  At(text, p, Append(ts, Token("hex", s, LineAt(text, b))))
<1> DEFINE w == SubSeq(text, b, p)
<1>1. p \in b + 1 .. Len(text) /\ p \in b - 1 .. Len(text)
  BY DEF InHex
<1>2. Longest(text, b, p) /\ IsHex(w) /\ ~IsDecimal(w)
  BY <1>1, LongestHex DEF InHex
<1>3. w \in Seq(Bytes) /\ Len(w) = p - b + 1 /\ \A i \in 1 .. p - b + 1 : w[i] = text[b + i - 1]
  BY <1>1, PartOfText
<1>4. At(text, p, With(ts, w, LineAt(text, b)))
  BY <1>2, TakeLexeme
<1>5. Tail(Tail(w)) = s
  <2> DEFINE t == Tail(Tail(w))
  <2> SUFFICES t = s
    OBVIOUS
  <2> HIDE DEF w
  <2>1. Len(w) >= 2
    BY <1>1, <1>3
  <2>2. Len(t) = Len(w) - 2 /\ \A i \in 1 .. Len(w) - 2 : t[i] = w[i + 2]
    BY <1>3, <2>1, HexPlaces
  <2>3. t \in Seq(Bytes)
    BY <1>3, <2>1, HexPlaces
  <2> HIDE DEF t
  <2>4. s = SubSeq(text, b + 2, p)
    BY DEF InHex
  <2>5. CASE b + 2 <= Len(text)
    <3>1. b + 2 \in 1 .. Len(text) /\ p \in b + 2 - 1 .. Len(text)
      BY <1>1, <2>5
    <3>2. /\ s \in Seq(Bytes) /\ Len(s) = p - (b + 2) + 1
          /\ \A i \in 1 .. p - (b + 2) + 1 : s[i] = text[b + 2 + i - 1]
      BY <2>4, <3>1, PartOfText
    <3>3. Len(t) = Len(s)
      BY <1>1, <1>3, <2>2, <3>2
    <3>4. ASSUME NEW i \in 1 .. Len(s) PROVE s[i] = t[i]
      <4>1. /\ i \in 1 .. p - (b + 2) + 1 /\ i \in 1 .. Len(w) - 2 /\ i + 2 \in 1 .. p - b + 1
            /\ b + (i + 2) - 1 = b + 2 + i - 1
        BY <1>1, <1>3, <3>2
      <4>2. s[i] = text[b + 2 + i - 1] /\ t[i] = w[i + 2] /\ w[i + 2] = text[b + (i + 2) - 1]
        BY <1>3, <2>2, <3>2, <4>1
      <4> QED BY <4>1, <4>2
    <3> QED BY <2>3, <3>2, <3>3, <3>4, SeqEqual
  <2>6. CASE ~(b + 2 <= Len(text))
    <3>1. p = b + 1 /\ Len(text) = b + 1
      BY <1>1, <2>6
    <3>2. s = << >>
      BY <2>4, <3>1
    <3>3. Len(t) = 0
      BY <1>3, <2>2, <3>1
    <3> QED BY <2>3, <3>2, <3>3, EmptySeq
  <2> QED BY <2>5, <2>6
<1>6. Len(w) > 0 /\ w[1] = "0"
  BY <1>1, <1>2, <1>3 DEF IsHex
<1>7. TokenOf(w, LineAt(text, b)) = Token("hex", s, LineAt(text, b))
  BY <1>2, <1>3, <1>5, <1>6, TokenOfKinds
<1>8. With(ts, w, LineAt(text, b)) = Append(ts, TokenOf(w, LineAt(text, b)))
  <2>1. w[1] \notin Blanks
    BY <1>6 DEF Blanks
  <2> QED BY <2>1, WithToken
<1> QED BY <1>4, <1>7, <1>8

LEMMA DecimalEnds ==
  ASSUME NEW text \in Seq(Bytes), NEW p \in 0 .. Len(text), NEW b \in 1 .. Len(text),
         b <= p + 1, NEW s, NEW ts, At(text, b - 1, ts), InDecimal(text, b, p, s),
         p < Len(text) => ~GoesOn(text, p + 1)
  PROVE  /\ ~IsLonePoint(text, p + 1) =>
              At(text, p, Append(ts, Token("num", s, LineAt(text, b))))
         /\ IsLonePoint(text, p + 1) => Tokens(text) = Wrong
<1>1. p \in b .. Len(text)
  <2>1. b # p + 1
    BY DEF InDecimal, GoesOn
  <2> QED BY <2>1
<1>2. Longest(text, b, p) /\ IsDecimal(s) /\ s = SubSeq(text, b, p)
  BY <1>1, LongestDecimal DEF InDecimal
<1>3. s \in Seq(Bytes) /\ Len(s) > 0 /\ s[1] \in Digits
  <2>1. p \in b - 1 .. Len(text) /\ p - b + 1 > 0
    BY <1>1
  <2> QED BY <1>2, <2>1, PartOfText DEF IsDecimal
<1>4. ASSUME ~IsLonePoint(text, p + 1)
      PROVE  At(text, p, Append(ts, Token("num", s, LineAt(text, b))))
  <2>1. At(text, p, With(ts, s, LineAt(text, b)))
    BY <1>2, <1>4, TakeLexeme
  <2>2. ~IsHex(s)
    BY <1>2, <1>3, HexIsNotDecimal
  <2>3. TokenOf(s, LineAt(text, b)) = Token("num", s, LineAt(text, b))
    BY <1>2, <1>3, <2>2, TokenOfKinds
  <2>4. With(ts, s, LineAt(text, b)) = Append(ts, TokenOf(s, LineAt(text, b)))
    <3>1. s[1] \notin Blanks
      BY <1>3 DEF Digits, Blanks
    <3> QED BY <3>1, WithToken
  <2> QED BY <2>1, <2>3, <2>4
<1>5. ASSUME IsLonePoint(text, p + 1) PROVE Tokens(text) = Wrong
  BY <1>2, <1>5, RefusePoint
<1> QED BY <1>4, <1>5

-----------------------------------------------------------------------------
(* Strings go on and end.                                                  *)

Escapable == Quotes \cup {"\\", "n"}

LEMMA KeptWithOut ==
  ASSUME NEW st \in StringState, NEW c
  PROVE  /\ st.open /\ c \in Escapable =>
              KeptWith(st, c).out = Append(st.out, IF c = "n" THEN "newline" ELSE c)
         /\ ~st.open /\ c \in {"\\", "nl"} => KeptWith(st, c).out = st.out
         /\ ~st.open /\ c \notin {"\\", "nl"} => KeptWith(st, c).out = Append(st.out, c)
         /\ st.open /\ c \notin Escapable /\ c = "nl" =>
              KeptWith(st, c).out = Append(st.out, "\\")
         /\ st.open /\ c \notin Escapable /\ c # "nl" =>
              KeptWith(st, c).out = Append(Append(st.out, "\\"), c)
<1>1. st.open \in BOOLEAN
  BY DEF StringState
<1>2. CASE st.open /\ c \in Escapable
  <2>1. KeptWith(st, c) = [open |-> FALSE,
                           out |-> Append(st.out, IF c = "n" THEN "newline" ELSE c)]
    BY <1>2 DEF KeptWith, Escapable
  <2> QED BY <1>2, <2>1
<1>3. CASE ~st.open
  <2>1. KeptWith(st, c) = [open |-> c = "\\",
                           out |-> IF c \in {"\\", "nl"} THEN st.out ELSE Append(st.out, c)]
    BY <1>3 DEF KeptWith
  <2> QED BY <1>3, <2>1
<1>4. CASE st.open /\ c \notin Escapable
  <2>1. KeptWith(st, c) =
          [open |-> c = "\\",
           out |-> IF c \in {"\\", "nl"} THEN Append(st.out, "\\")
                   ELSE Append(Append(st.out, "\\"), c)]
    BY <1>4 DEF KeptWith, Escapable
  <2>2. c # "\\"
    BY <1>4 DEF Escapable
  <2> QED BY <1>4, <2>1, <2>2
<1> QED BY <1>1, <1>2, <1>3, <1>4

(* The state of a string behind the next byte.                             *)
LEMMA KeptNext ==
  ASSUME NEW text \in Seq(Bytes), NEW p \in 0 .. Len(text) - 1, NEW b \in 1 .. Len(text), b <= p
  PROVE  /\ Kept(Rest(text, b))[p - b + 1] \in StringState
         /\ Kept(Rest(text, b))[p + 1 - b + 1] =
              KeptWith(Kept(Rest(text, b))[p - b + 1], text[p + 1])
         /\ ClosesAt(text, b, p + 1) <=>
              (text[p + 1] = text[b] /\ ~Kept(Rest(text, b))[p - b + 1].open)
<1> DEFINE t == Rest(text, b)
           i == p - b + 1
<1>1. t \in Seq(Bytes) /\ Len(t) > 0 /\ Len(t) = Len(text) - b + 1
  BY RestIs
<1>2. i \in 1 .. Len(t) - 1 /\ i \in 1 .. Len(t) /\ i + 1 = p + 1 - b + 1 /\ i = p + 1 - b
  BY <1>1
<1>3. t[i + 1] = text[p + 1]
  <2>1. \A j \in b .. Len(text) : t[j - b + 1] = text[j]
    BY RestIs
  <2>2. ASSUME NEW j \in Nat, j = p + 1 PROVE t[j - b + 1] = text[j]
    <3>1. j \in b .. Len(text)
      BY <2>2
    <3> HIDE DEF t
    <3> QED BY <2>1, <3>1
  <2>3. p + 1 \in Nat
    OBVIOUS
  <2>4. t[p + 1 - b + 1] = text[p + 1]
    BY <2>2, <2>3
  <2> QED BY <1>2, <2>4
<1> HIDE DEF t, i
<1>4. Kept(t)[i] \in StringState
  BY <1>1, <1>2, KeptType
<1>5. Kept(t)[i + 1] = KeptWith(Kept(t)[i], t[i + 1])
  BY <1>1, <1>2, KeptSteps
<1>6. ClosesAt(text, b, p + 1) <=> (text[p + 1] = text[b] /\ ~Kept(t)[i].open)
  BY <1>2 DEF ClosesAt, t
<1> QED BY <1>2, <1>3, <1>4, <1>5, <1>6 DEF t, i

LEMMA ClosesUpTo ==
  ASSUME NEW text, NEW b \in Nat, NEW p \in Nat, b <= p,
         \A i \in b + 1 .. p : ~ClosesAt(text, b, i), ~ClosesAt(text, b, p + 1)
  PROVE  \A i \in b + 1 .. p + 1 : ~ClosesAt(text, b, i)
<1> SUFFICES ASSUME NEW i \in b + 1 .. p + 1 PROVE ~ClosesAt(text, b, i)
  OBVIOUS
<1>1. i \in b + 1 .. p \/ i = p + 1
  OBVIOUS
<1> QED BY <1>1

LEMMA StringOn ==
  ASSUME NEW text \in Seq(Bytes), NEW p \in 0 .. Len(text) - 1, NEW b \in 1 .. Len(text),
         NEW s, NEW q, InString(text, b, p, s, q), text[p + 1] \notin {"\\", q}
  PROVE  InString(text, b, p + 1,
                  IF text[p + 1] = "nl" THEN s ELSE Append(s, text[p + 1]), q)
<1> DEFINE k == Kept(Rest(text, b))[p - b + 1]
           n == Kept(Rest(text, b))[p + 1 - b + 1]
           c == text[p + 1]
           u == IF c = "nl" THEN s ELSE Append(s, c)
<1>1. b <= p /\ q = text[b] /\ KeptAs(k, s, text, p) /\ text[b] \in Quotes
  BY DEF InString
<1>2. k \in StringState /\ n = KeptWith(k, c) /\ ~ClosesAt(text, b, p + 1)
  BY <1>1, KeptNext
<1>3. \A i \in b + 1 .. p + 1 : ~ClosesAt(text, b, i)
  BY <1>1, <1>2, ClosesUpTo DEF InString
<1>4. c # "\\"
  OBVIOUS
<1> HIDE DEF k, n, c
<1>5. ~n.open
  BY <1>2, <1>4, KeptWithOpen
<1>6. k.open => c \notin Escapable /\ s = Append(k.out, "\\")
  <2>1. p < Len(text)
    OBVIOUS
  <2> QED BY <1>1, <2>1 DEF KeptAs, Escapable, c
<1>7. ~k.open => s = k.out
  BY <1>1 DEF KeptAs
<1>8. u = n.out
  <2>1. k.open \in BOOLEAN
    BY <1>2 DEF StringState
  <2> HIDE DEF c
  <2>2. CASE k.open /\ c = "nl"
    BY <1>2, <1>6, <2>2, KeptWithOut
  <2>3. CASE k.open /\ c # "nl"
    BY <1>2, <1>6, <2>3, KeptWithOut
  <2>4. CASE ~k.open
    <3>1. CASE c = "nl"
      <4>1. u = s /\ c \in {"\\", "nl"}
        BY <3>1
      <4>2. n.out = k.out
        BY <1>2, <2>4, <4>1, KeptWithOut
      <4> QED BY <1>7, <2>4, <4>1, <4>2
    <3>2. CASE c # "nl"
      <4>1. u = Append(s, c) /\ c \notin {"\\", "nl"}
        BY <1>4, <3>2
      <4>2. n.out = Append(k.out, c)
        BY <1>2, <2>4, <4>1, KeptWithOut
      <4> QED BY <1>7, <2>4, <4>1, <4>2
    <3> QED BY <3>1, <3>2
  <2> QED BY <2>1, <2>2, <2>3, <2>4
<1>9. KeptAs(n, u, text, p + 1)
  BY <1>5, <1>8 DEF KeptAs
<1>10. b <= p + 1
  BY <1>1
<1> QED BY <1>1, <1>3, <1>9, <1>10 DEF InString, n, c

(* A backslash is met when nothing waits to be escaped.                    *)
LEMMA NotOpenAt ==
  ASSUME NEW text \in Seq(Bytes), NEW p \in 0 .. Len(text) - 1, NEW b \in 1 .. Len(text),
         NEW s, NEW q, InString(text, b, p, s, q), text[p + 1] \in Quotes \cup {"\\"}
  PROVE  /\ ~Kept(Rest(text, b))[p - b + 1].open /\ s = Kept(Rest(text, b))[p - b + 1].out
         /\ b <= p
<1>1. p < Len(text)
  OBVIOUS
<1> QED BY <1>1 DEF InString, KeptAs

LEMMA Unclosed ==
  ASSUME NEW text \in Seq(Bytes), NEW p \in 0 .. Len(text) - 1, NEW b \in 1 .. Len(text),
         NEW s, NEW q, InString(text, b, p, s, q), text[p + 1] = "\\"
  PROVE  \A i \in b + 1 .. p + 1 : ~ClosesAt(text, b, i)
<1>1. text[b] \in Quotes /\ text[p + 1] # text[b] /\ b <= p
  BY DEF InString, Quotes
<1>2. ~ClosesAt(text, b, p + 1)
  BY <1>1, KeptNext
<1> QED BY <1>1, <1>2, ClosesUpTo DEF InString

(* At the end of the text.                                                 *)
LEMMA StringBreaks ==
  ASSUME NEW text \in Seq(Bytes), NEW p \in 0 .. Len(text) - 1, NEW b \in 1 .. Len(text),
         NEW s, NEW u, NEW q, InString(text, b, p, s, q), text[p + 1] = "\\",
         ~(p + 1 < Len(text))
  PROVE  InString(text, b, p + 1, u, q)
<1>1. text[b] \in Quotes /\ q = text[b] /\ b <= p + 1
  BY DEF InString
<1>2. \A i \in b + 1 .. p + 1 : ~ClosesAt(text, b, i)
  BY Unclosed
<1> QED BY <1>1, <1>2 DEF InString

LEMMA StringKeeps ==
  ASSUME NEW text \in Seq(Bytes), NEW p \in 0 .. Len(text) - 1, NEW b \in 1 .. Len(text),
         NEW s, NEW q, InString(text, b, p, s, q), text[p + 1] = "\\",
         text[p + 2] \notin Escapable
  PROVE  InString(text, b, p + 1, Append(s, "\\"), q)
<1> DEFINE k == Kept(Rest(text, b))[p - b + 1]
           n == Kept(Rest(text, b))[p + 1 - b + 1]
<1>1. ~k.open /\ s = k.out /\ b <= p
  BY NotOpenAt
<1>2. text[b] \in Quotes /\ q = text[b] /\ text[p + 1] # text[b]
  BY DEF InString, Quotes
<1>3. k \in StringState /\ n = KeptWith(k, "\\")
  BY <1>1, <1>2, KeptNext
<1>4. \A i \in b + 1 .. p + 1 : ~ClosesAt(text, b, i)
  BY Unclosed
<1> HIDE DEF k, n
<1>5. n.open /\ n.out = s
  BY <1>1, <1>3, KeptWithOpen, KeptWithOut
<1>6. p + 1 + 1 = p + 2
  OBVIOUS
<1>7. KeptAs(n, Append(s, "\\"), text, p + 1)
  BY <1>5, <1>6 DEF KeptAs, Escapable
<1>8. b <= p + 1
  BY <1>1
<1> QED BY <1>2, <1>4, <1>7, <1>8 DEF InString, n

LEMMA StringEscapes ==
  ASSUME NEW text \in Seq(Bytes), NEW p \in 0 .. Len(text) - 2, NEW b \in 1 .. Len(text),
         NEW s, NEW q, InString(text, b, p, s, q), text[p + 1] = "\\",
         text[p + 2] \in Escapable
  PROVE  InString(text, b, p + 2,
                  Append(s, IF text[p + 2] = "n" THEN "newline" ELSE text[p + 2]), q)
<1> DEFINE k == Kept(Rest(text, b))[p - b + 1]
           n == Kept(Rest(text, b))[p + 1 - b + 1]
           m == Kept(Rest(text, b))[p + 2 - b + 1]
           u == Append(s, IF text[p + 2] = "n" THEN "newline" ELSE text[p + 2])
<1> p \in 0 .. Len(text) - 1 /\ p + 1 \in 0 .. Len(text) - 1 /\ p + 1 + 1 = p + 2
  OBVIOUS
<1>1. ~k.open /\ s = k.out /\ b <= p /\ b <= p + 1 /\ b <= p + 2
  BY NotOpenAt
<1>2. text[b] \in Quotes /\ q = text[b] /\ text[p + 1] # text[b]
  BY DEF InString, Quotes
<1>3. k \in StringState /\ n = KeptWith(k, "\\")
  BY <1>1, <1>2, KeptNext
<1>4. \A i \in b + 1 .. p + 1 : ~ClosesAt(text, b, i)
  BY Unclosed
<1>5. n.open /\ n.out = s
  <2> HIDE DEF k, n
  <2> QED BY <1>1, <1>3, KeptWithOpen, KeptWithOut
<1>6. /\ n \in StringState /\ m = KeptWith(n, text[p + 2])
      /\ ClosesAt(text, b, p + 2) <=> (text[p + 2] = text[b] /\ ~n.open)
  <2> DEFINE r == p + 1
  <2>1. r \in 0 .. Len(text) - 1 /\ b <= r
    BY <1>1
  <2> HIDE DEF r
  <2>2. /\ Kept(Rest(text, b))[r - b + 1] \in StringState
        /\ Kept(Rest(text, b))[r + 1 - b + 1] =
             KeptWith(Kept(Rest(text, b))[r - b + 1], text[r + 1])
        /\ ClosesAt(text, b, r + 1) <=>
             (text[r + 1] = text[b] /\ ~Kept(Rest(text, b))[r - b + 1].open)
    BY <2>1, KeptNext
  <2>3. r = p + 1 /\ r + 1 = p + 2
    BY DEF r
  <2> QED BY <2>2, <2>3
<1>7. \A i \in b + 1 .. p + 2 : ~ClosesAt(text, b, i)
  <2>1. p + 1 \in Nat /\ b \in Nat
    OBVIOUS
  <2>2. ~ClosesAt(text, b, p + 1 + 1)
    BY <1>5, <1>6
  <2>3. \A i \in b + 1 .. p + 1 + 1 : ~ClosesAt(text, b, i)
    BY <1>1, <1>4, <2>1, <2>2, ClosesUpTo
  <2> QED BY <2>3
<1> HIDE DEF k, n, m, u
<1>8. ~m.open /\ m.out = u
  <2>1. m.open <=> (text[p + 2] = "\\" /\ ~n.open)
    BY <1>6, KeptWithOpen
  <2>2. m.out = Append(n.out, IF text[p + 2] = "n" THEN "newline" ELSE text[p + 2])
    BY <1>5, <1>6, KeptWithOut
  <2> QED BY <1>5, <2>1, <2>2 DEF u
<1>9. KeptAs(m, u, text, p + 2)
  BY <1>8 DEF KeptAs
<1> QED BY <1>1, <1>2, <1>7, <1>9 DEF InString, m, u

LEMMA StringEnds ==
  ASSUME NEW text \in Seq(Bytes), NEW p \in 0 .. Len(text) - 1, NEW b \in 1 .. Len(text),
         NEW s, NEW q, NEW ts, At(text, b - 1, ts), InString(text, b, p, s, q),
         text[p + 1] = q
  PROVE  At(text, p + 1, Append(ts, Token("str", s, LineAt(text, b))))
<1> DEFINE w == SubSeq(text, b, p + 1)
<1>1. text[b] \in Quotes /\ q = text[b] /\ text[p + 1] \in Quotes \cup {"\\"}
  BY DEF InString
<1>2. /\ ~Kept(Rest(text, b))[p - b + 1].open /\ s = Kept(Rest(text, b))[p - b + 1].out
      /\ b <= p
  BY <1>1, NotOpenAt
<1>3. ClosesAt(text, b, p + 1)
  BY <1>1, <1>2, KeptNext
<1>4. \A i \in b + 1 .. p + 1 - 1 : ~ClosesAt(text, b, i)
  BY DEF InString
<1>5. p + 1 \in b + 1 .. Len(text) /\ p + 1 - b = p - b + 1 /\ p + 1 \in b - 1 .. Len(text)
  BY <1>2
<1>6. Longest(text, b, p + 1) /\ IsString(w) /\ Content(w) = s
  <2>1. Content(w) = Kept(Rest(text, b))[p + 1 - b].out
    BY <1>1, <1>3, <1>4, <1>5, LongestString
  <2>2. Longest(text, b, p + 1) /\ IsString(w)
    BY <1>1, <1>3, <1>4, <1>5, LongestString
  <2> QED BY <1>2, <1>5, <2>1, <2>2
<1>7. w \in Seq(Bytes) /\ Len(w) > 0 /\ w[1] = text[b]
  <2>1. 1 \in 1 .. p + 1 - b + 1 /\ b + 1 - 1 = b /\ p + 1 - b + 1 > 0
    BY <1>5
  <2> QED BY <1>5, <2>1, PartOfText
<1> HIDE DEF w
<1>8. ~IsDecimal(w)
  BY <1>1, <1>7, FirstByte DEF Quotes, Digits
<1>9. At(text, p + 1, With(ts, w, LineAt(text, b)))
  BY <1>6, <1>8, TakeLexeme DEF w
<1>10. TokenOf(w, LineAt(text, b)) = Token("str", s, LineAt(text, b))
  BY <1>6, <1>7, TokenOfKinds
<1>11. With(ts, w, LineAt(text, b)) = Append(ts, TokenOf(w, LineAt(text, b)))
  <2>1. w[1] \notin Blanks
    BY <1>1, <1>7 DEF Quotes, Blanks
  <2> QED BY <2>1, WithToken
<1> QED BY <1>9, <1>10, <1>11

LEMMA StringWrong ==
  ASSUME NEW text \in Seq(Bytes), NEW b \in 1 .. Len(text), NEW s, NEW q, NEW ts,
         At(text, b - 1, ts), InString(text, b, Len(text), s, q)
  PROVE  Tokens(text) = Wrong
<1>1. \A r \in b .. Len(text) : ~IsLexeme(SubSeq(text, b, r))
  BY OpenString DEF InString
<1> QED BY <1>1, RefuseNone

-----------------------------------------------------------------------------
(* Between tokens.                                                         *)

LEMMA TakenFrom ==
  ASSUME NEW text \in Seq(Bytes), NEW b \in 1 .. Len(text), NEW q, NEW ts,
         At(text, b - 1, ts), Longest(text, b, q), text[b] \notin Digits
  PROVE  /\ At(text, q, With(ts, SubSeq(text, b, q), LineAt(text, b)))
         /\ SubSeq(text, b, q) \in Seq(Bytes) /\ Len(SubSeq(text, b, q)) > 0
         /\ SubSeq(text, b, q)[1] = text[b]
<1>1. q \in b - 1 .. Len(text) /\ 1 \in 1 .. q - b + 1 /\ b + 1 - 1 = b /\ q - b + 1 > 0
  BY DEF Longest
<1>2. /\ SubSeq(text, b, q) \in Seq(Bytes) /\ Len(SubSeq(text, b, q)) > 0
      /\ SubSeq(text, b, q)[1] = text[b]
  BY <1>1, PartOfText
<1>3. ~IsDecimal(SubSeq(text, b, q))
  BY <1>2, FirstByte
<1> QED BY <1>2, <1>3, TakeLexeme

LEMMA TakenOp ==
  ASSUME NEW text \in Seq(Bytes), NEW b \in 1 .. Len(text), NEW q, NEW ts, NEW op,
         At(text, b - 1, ts), Longest(text, b, q), SubSeq(text, b, q) = op, op \in Ops
  PROVE  At(text, q, Append(ts, Token("op", op, LineAt(text, b))))
<1>1. q \in b - 1 .. Len(text) /\ 1 \in 1 .. q - b + 1 /\ b + 1 - 1 = b /\ q - b + 1 > 0
  BY DEF Longest
<1>2. op \in Seq(Bytes) /\ Len(op) > 0 /\ op[1] = text[b]
  BY <1>1, PartOfText
<1>3. op[1] \in {"."} \cup SingleOps \cup EqualOps
  BY <1>2, FirstByte
<1>4. text[b] \notin Digits /\ op[1] \notin Blanks
  BY <1>2, <1>3 DEF SingleOps, EqualOps, Digits, Blanks
<1>5. At(text, q, With(ts, op, LineAt(text, b)))
  BY <1>4, TakenFrom
<1>6. With(ts, op, LineAt(text, b)) = Append(ts, TokenOf(op, LineAt(text, b)))
  BY <1>4, WithToken
<1>7. TokenOf(op, LineAt(text, b)) = Token("op", op, LineAt(text, b))
  BY <1>2, TokenOfKinds
<1> QED BY <1>5, <1>6, <1>7

LEMMA SpaceTaken ==
  ASSUME NEW text \in Seq(Bytes), NEW b \in 1 .. Len(text), NEW ts, At(text, b - 1, ts)
  PROVE  /\ text[b] = " " => At(text, b, ts)
         /\ text[b] \in {"nl", ";"} =>
              At(text, b, IF ts # << >> /\ EndsStatement(Last(ts))
                          THEN Append(ts, Token("end", << >>, 0)) ELSE ts)
<1> SUFFICES ASSUME text[b] \in Spaces
             PROVE  /\ text[b] = " " => At(text, b, ts)
                    /\ text[b] \in {"nl", ";"} =>
                         At(text, b, IF ts # << >> /\ EndsStatement(Last(ts))
                                     THEN Append(ts, Token("end", << >>, 0)) ELSE ts)
  BY DEF Spaces
<1> DEFINE s == SubSeq(text, b, b)
           w == With(ts, s, LineAt(text, b))
<1>1. text[b] \notin Digits
  BY DEF Spaces, Digits
<1>2. At(text, b, w) /\ s[1] = text[b]
  BY <1>1, LongestSpace, TakenFrom
<1> HIDE DEF s
<1>3. text[b] = " " => w = ts
  BY <1>2, WithBlank
<1>4. text[b] = "nl" \/ text[b] = ";" =>
        w = IF ts # << >> /\ EndsStatement(Last(ts))
            THEN Append(ts, Token("end", << >>, 0)) ELSE ts
  BY <1>2, WithBlank
<1> HIDE DEF w
<1> QED BY <1>2, <1>3, <1>4

LEMMA CommentTaken ==
  ASSUME NEW text \in Seq(Bytes), NEW b \in 1 .. Len(text), NEW q \in b .. Len(text),
         NEW ts, At(text, b - 1, ts), InComment(text, b, q - 1),
         q = Len(text) \/ text[q] = "nl"
  PROVE  At(text, q, ts)
<1>1. Longest(text, b, q) /\ text[b] = "#"
  BY LongestComment DEF InComment
<1>2. text[b] \notin Digits
  BY <1>1 DEF Digits
<1>3. /\ At(text, q, With(ts, SubSeq(text, b, q), LineAt(text, b)))
      /\ SubSeq(text, b, q)[1] = "#"
  BY <1>1, <1>2, TakenFrom
<1> QED BY <1>3, WithBlank

LEMMA CommentOn ==
  ASSUME NEW text \in Seq(Bytes), NEW p \in 0 .. Len(text) - 1, NEW b \in 1 .. p + 1,
         InComment(text, b, p), text[p + 1] # "nl"
  PROVE  InComment(text, b, p + 1)
<1>1. ASSUME NEW i \in b .. p + 1 PROVE text[i] # "nl"
  <2>1. i \in b .. p \/ i = p + 1
    OBVIOUS
  <2> QED BY <2>1 DEF InComment
<1> QED BY <1>1 DEF InComment

(* A lexeme begins behind place p.                                         *)
LEMMA LexemeBegins ==
  ASSUME NEW text \in Seq(Bytes), NEW p \in 0 .. Len(text) - 1
  PROVE  /\ text[p + 1] = "#" => InComment(text, p + 1, p)
         /\ text[p + 1] \in Letters => InWord(text, p + 1, p, << >>)
         /\ HexAt(text, p + 1) => InHex(text, p + 1, p + 2, << >>)
         /\ text[p + 1] \in Digits /\ ~HexAt(text, p + 1) => InDecimal(text, p + 1, p, << >>)
         /\ text[p + 1] \in Quotes => InString(text, p + 1, p + 1, << >>, text[p + 1])
<1>1. SubSeq(text, p + 1, p) = << >> /\ p + 1 .. p = {}
  OBVIOUS
<1>2. HexAt(text, p + 1) => InHex(text, p + 1, p + 2, << >>)
  <2> SUFFICES ASSUME HexAt(text, p + 1) PROVE InHex(text, p + 1, p + 2, << >>)
    OBVIOUS
  <2>1. p + 1 < Len(text)
    BY DEF HexAt
  <2>2. SubSeq(text, p + 1 + 2, p + 2) = << >> /\ p + 1 + 2 .. p + 2 = {}
    BY <2>1
  <2>3. p + 1 + 1 <= p + 2
    OBVIOUS
  <2> QED BY <2>2, <2>3 DEF InHex
<1>3. text[p + 1] \in Quotes => InString(text, p + 1, p + 1, << >>, text[p + 1])
  <2>1. p + 1 \in 1 .. Len(text) /\ p + 1 - (p + 1) + 1 = 1 /\ p + 1 <= p + 1
        /\ p + 1 + 1 .. p + 1 = {}
    OBVIOUS
  <2>2. Kept(Rest(text, p + 1))[1] = NothingKept
    BY <2>1, RestIs, KeptSteps
  <2>3. KeptAs(Kept(Rest(text, p + 1))[p + 1 - (p + 1) + 1], << >>, text, p + 1)
    BY <2>1, <2>2 DEF KeptAs, NothingKept
  <2> QED BY <2>1, <2>3 DEF InString
<1> QED BY <1>1, <1>2, <1>3 DEF InComment, InWord, InDecimal

-----------------------------------------------------------------------------
(* The tokens.                                                             *)

IsTokens(ts) == \E K, V, L : ts \in Seq([k : K, v : V, line : L])

(* A token without the line, if it ends a statement.                       *)
Placeless(token) == IF token.k = "end" THEN [token EXCEPT !.line = 0] ELSE token

LEMMA UnplacedAppend ==
  ASSUME NEW R, \A u \in R : Placeless(u) \in R, NEW ts \in Seq(R), NEW t \in R
  PROVE  Unplaced(Append(ts, t)) = Append(Unplaced(ts), Placeless(t))
<1> DEFINE n == Len(ts)
           a == Append(ts, t)
           l == Unplaced(a)
           r == Append(Unplaced(ts), Placeless(t))
<1>1. \A s \in Seq(R) : /\ Unplaced(s) \in Seq(R) /\ Len(Unplaced(s)) = Len(s)
                        /\ \A i \in 1 .. Len(s) : Unplaced(s)[i] = Placeless(s[i])
  <2> TAKE s \in Seq(R)
  <2>1. Unplaced(s) = [i \in 1 .. Len(s) |-> Placeless(s[i])]
    BY DEF Unplaced, Placeless
  <2>2. \A i \in 1 .. Len(s) : Placeless(s[i]) \in R
    OBVIOUS
  <2>3. Len(s) \in Nat
    OBVIOUS
  <2>4. Unplaced(s) \in [1 .. Len(s) -> R]
    BY <2>1, <2>2
  <2>5. Unplaced(s) \in Seq(R)
    BY <2>3, <2>4, SeqDef
  <2> QED BY <2>1, <2>3, <2>5
<1>2. /\ a \in Seq(R) /\ Len(a) = n + 1 /\ n \in Nat
      /\ \A i \in 1 .. n : a[i] = ts[i]
      /\ a[n + 1] = t
  BY AppendProperties
<1>3. /\ r \in Seq(R) /\ Len(r) = n + 1
      /\ \A i \in 1 .. n : r[i] = Unplaced(ts)[i]
      /\ r[n + 1] = Placeless(t)
  <2>1. Unplaced(ts) \in Seq(R) /\ Len(Unplaced(ts)) = n /\ Placeless(t) \in R
    BY <1>1
  <2> QED BY <2>1, AppendProperties
<1>4. l \in Seq(R) /\ Len(l) = n + 1 /\ \A i \in 1 .. n + 1 : l[i] = Placeless(a[i])
  BY <1>1, <1>2
<1>5. \A i \in 1 .. n : Unplaced(ts)[i] = Placeless(ts[i])
  BY <1>1
<1> HIDE DEF n, a, l, r
<1>6. ASSUME NEW i \in 1 .. n + 1 PROVE l[i] = r[i]
  <2>1. i \in 1 .. n \/ i = n + 1
    BY <1>2
  <2>2. CASE i \in 1 .. n
    BY <1>2, <1>3, <1>4, <1>5, <2>2
  <2>3. CASE i = n + 1
    BY <1>2, <1>3, <1>4, <2>3
  <2> QED BY <2>1, <2>2, <2>3
<1>7. l = r
  BY <1>3, <1>4, <1>6, SeqEqual
<1> QED BY <1>7 DEF l, r, a

LEMMA TokensGrow ==
  ASSUME NEW ts, IsTokens(ts), NEW t, NEW k, NEW v, NEW l, t = Token(k, v, l)
  PROVE  IsTokens(Append(ts, t)) /\ Unplaced(Append(ts, t)) = Append(Unplaced(ts), Placeless(t))
<1>1. PICK K, V, L : ts \in Seq([k : K, v : V, line : L])
  BY DEF IsTokens
<1> DEFINE Q == [k : K, v : V, line : L]
           R == [k : K \cup {k}, v : V \cup {v}, line : L \cup {l, 0}]
<1>2. t \in R
  BY DEF Token
<1>3. \A u \in R : Placeless(u) \in R
  BY DEF Placeless
<1>4. Q \subseteq R /\ ts \in Seq(Q)
  BY <1>1
<1>5. ts \in Seq(R)
  <2> HIDE DEF Q, R
  <2> QED BY <1>4, SeqMonotonic
<1>6. IsTokens(Append(ts, t))
  <2>1. Append(ts, t) \in Seq(R)
    <3> HIDE DEF R
    <3> QED BY <1>2, <1>5, AppendProperties
  <2> QED BY <2>1 DEF IsTokens
<1> HIDE DEF R
<1> QED BY <1>2, <1>3, <1>5, <1>6, UnplacedAppend

LEMMA Grows ==
  ASSUME NEW ts, IsTokens(ts), NEW t, NEW k, NEW v, NEW l, t = Token(k, v, l), k # "end"
  PROVE  IsTokens(Append(ts, t)) /\ Unplaced(Append(ts, t)) = Append(Unplaced(ts), t)
<1>1. Placeless(t) = t
  BY DEF Placeless, Token
<1> QED BY <1>1, TokensGrow

LEMMA EndGrows ==
  ASSUME NEW ts, IsTokens(ts), NEW t, NEW v, NEW l, t = Token("end", v, l)
  PROVE  /\ IsTokens(Append(ts, t))
         /\ Unplaced(Append(ts, t)) = Append(Unplaced(ts), Token("end", v, 0))
<1>1. Placeless(t) = Token("end", v, 0)
  BY DEF Placeless, Token
<1> QED BY <1>1, TokensGrow

LEMMA LastUnplaced ==
  ASSUME NEW ts, IsTokens(ts)
  PROVE  /\ ts = << >> <=> Unplaced(ts) = << >>
         /\ ts # << >> => (EndsStatement(Last(Unplaced(ts))) <=> EndsStatement(Last(ts)))
<1>1. PICK K, V, L : ts \in Seq([k : K, v : V, line : L])
  BY DEF IsTokens
<1> DEFINE Q == [k : K, v : V, line : L]
<1>2. /\ DOMAIN Unplaced(ts) = 1 .. Len(ts) /\ Len(ts) \in Nat
      /\ \A i \in 1 .. Len(ts) : Unplaced(ts)[i] = Placeless(ts[i])
  BY <1>1 DEF Unplaced, Placeless
<1>3. Len(Unplaced(ts)) = Len(ts)
  BY <1>2
<1>4. ts = << >> <=> Unplaced(ts) = << >>
  <2>1. ts = << >> <=> Len(ts) = 0
    BY <1>1
  <2>2. Unplaced(ts) = << >> <=> Len(ts) = 0
    BY <1>2 DEF Unplaced
  <2> QED BY <2>1, <2>2
<1>5. ASSUME ts # << >>
      PROVE  EndsStatement(Last(Unplaced(ts))) <=> EndsStatement(Last(ts))
  <2>1. Len(ts) \in 1 .. Len(ts) /\ ts[Len(ts)] \in Q
    <3>1. ts \in Seq(Q)
      BY <1>1
    <3> HIDE DEF Q
    <3>2. Len(ts) \in Nat \ {0}
      BY <1>5, <3>1, EmptySeq
    <3> QED BY <3>1, <3>2, ElementOfSeq
  <2>2. Last(Unplaced(ts)) = Placeless(Last(ts)) /\ Last(ts) \in Q
    BY <1>2, <1>3, <2>1 DEF Last
  <2>3. Placeless(Last(ts)).k = Last(ts).k /\ Placeless(Last(ts)).v = Last(ts).v
    BY <2>2 DEF Placeless
  <2> QED BY <2>2, <2>3 DEF EndsStatement
<1> QED BY <1>4, <1>5

-----------------------------------------------------------------------------
(* The state of the lexer.                                                 *)

(* The state of a lexer that read its text rightly up to the position.     *)
Fits(m, s, bf, q, a, l, ts) ==
  /\ Sound(s) /\ IsTokens(ts)
  /\ l = LineAt(s.text, s.seek + 1)
  /\ Right(m, s.text, s.seek, Unplaced(ts), bf, q, a)

Inv == Fits(mode, io, buf, quote, at, line, tokens)

(* What is known of the next byte, and of the state behind it.             *)
LEMMA Here ==
  ASSUME NEW s, Sound(s), ~IsEnd(s, 0)
  PROVE  /\ s.text \in Seq(Bytes) /\ s.seek \in 0 .. Len(s.text) - 1
         /\ Len(s.text) \in Nat \ {0}
         /\ s.text[s.seek + 1] \in Bytes
         /\ Current(s) = {s.text[s.seek + 1]} /\ ReadChar(s) = s.text[s.seek + 1]
         /\ Looked(s, 1) = s
         /\ Sound(Advanced(s)) /\ Advanced(s).text = s.text
         /\ Advanced(s).seek = s.seek + 1
         /\ s.text[s.seek + 1] = "nl" =>
              LineAt(s.text, s.seek + 2) = LineAt(s.text, s.seek + 1) + 1
         /\ s.text[s.seek + 1] # "nl" =>
              LineAt(s.text, s.seek + 2) = LineAt(s.text, s.seek + 1)
         /\ s.seek + 1 < Len(s.text) => MatchChar(s, 1) = s.text[s.seek + 2]
         /\ s.seek + 1 >= Len(s.text) => MatchChar(s, 1) = Nul
<1>1. /\ s.text \in Seq(Bytes) /\ Len(s.text) \in Nat \ {0}
      /\ s.seek \in 0 .. Len(s.text) /\ s.seek # Len(s.text)
  BY SoundReads
<1>2. s.seek \in 0 .. Len(s.text) - 1 /\ s.seek < Len(s.text)
  BY <1>1
<1>3. PICK r : r = s.seek + 1
  OBVIOUS
<1>4. r \in 1 .. Len(s.text) /\ r + 1 = s.seek + 2
  BY <1>2, <1>3
<1>5. /\ s.text[r] = "nl" => LineAt(s.text, r + 1) = LineAt(s.text, r) + 1
      /\ s.text[r] # "nl" => LineAt(s.text, r + 1) = LineAt(s.text, r)
  BY <1>1, <1>4, LineCount
<1>6. /\ s.text[s.seek + 1] = "nl" =>
           LineAt(s.text, s.seek + 2) = LineAt(s.text, s.seek + 1) + 1
      /\ s.text[s.seek + 1] # "nl" =>
           LineAt(s.text, s.seek + 2) = LineAt(s.text, s.seek + 1)
  BY <1>3, <1>4, <1>5
<1> QED BY <1>1, <1>2, <1>6, SoundReads

LEMMA FitsMain ==
  ASSUME NEW s, Sound(s), NEW ts, IsTokens(ts), NEW bf, NEW q, NEW a,
         At(s.text, s.seek, Unplaced(ts))
  PROVE  Fits("main", s, bf, q, a, LineAt(s.text, s.seek + 1), ts)
  BY DEF Fits, Right

LEMMA FitsIn ==
  ASSUME NEW m, NEW s, Sound(s), NEW ts, IsTokens(ts), NEW bf, NEW q,
         NEW b \in 1 .. Len(s.text), b <= s.seek + 1, At(s.text, b - 1, Unplaced(ts)),
         InLexeme(m, s.text, b, s.seek, bf, q)
  PROVE  Fits(m, s, bf, q, LineAt(s.text, b), LineAt(s.text, s.seek + 1), ts)
  BY DEF Fits, Right

LEMMA FitsError ==
  ASSUME NEW s, Sound(s), NEW ts, IsTokens(ts), NEW bf, NEW q, NEW a,
         Tokens(s.text) = Wrong
  PROVE  Fits("error", s, bf, q, a, LineAt(s.text, s.seek + 1), ts)
  BY DEF Fits, Right

(* What a lexer that fits knows in its mode.                               *)
LEMMA FitsHas ==
  ASSUME NEW m, NEW s, NEW bf, NEW q, NEW a, NEW l, NEW ts, Fits(m, s, bf, q, a, l, ts)
  PROVE  /\ Sound(s) /\ IsTokens(ts) /\ l = LineAt(s.text, s.seek + 1)
         /\ m = "main" => At(s.text, s.seek, Unplaced(ts))
         /\ m = "done" => At(s.text, Len(s.text), Unplaced(ts))
         /\ m = "error" => Tokens(s.text) = Wrong
         /\ m \in Modes => \E b \in 1 .. Len(s.text) :
              /\ b <= s.seek + 1 /\ At(s.text, b - 1, Unplaced(ts)) /\ a = LineAt(s.text, b)
              /\ InLexeme(m, s.text, b, s.seek, bf, q)
  BY RightIn DEF Fits

-----------------------------------------------------------------------------
(* Steps of the lexer.                                                     *)

LEMMA CommentFits ==
  ASSUME Inv, Comment \/ WordBegin
  PROVE  Inv'
<1> DEFINE text == io.text
           p == io.seek
           m == IF text[p + 1] = "#" THEN "comment" ELSE "word"
<1>1. Sees({"#"}) \/ Sees(Letters)
  BY DEF Comment, WordBegin
<1>2. mode = "main" /\ ~IsEnd(io, 0) /\ Sound(io) /\ line = LineAt(text, p + 1)
  BY <1>1, FitsHas DEF Sees, Inv
<1>3. /\ text \in Seq(Bytes) /\ p \in 0 .. Len(text) - 1 /\ Current(io) = {text[p + 1]}
      /\ At(text, p, Unplaced(tokens)) /\ IsTokens(tokens)
  BY <1>2, Here, FitsHas DEF Inv
<1>4. /\ io' = io /\ buf' = << >> /\ at' = line /\ line' = line /\ tokens' = tokens
      /\ quote' = quote
  BY DEF Comment, WordBegin, Begin
<1>5. \/ text[p + 1] = "#" /\ mode' = "comment"
      \/ text[p + 1] \in Letters /\ mode' = "word"
  BY <1>3 DEF Comment, WordBegin, Begin, Sees
<1> HIDE DEF text, p
<1>6. InLexeme(mode', text, p + 1, p, << >>, quote)
  BY <1>3, <1>5, LexemeBegins DEF InLexeme
<1>7. PICK b : b = p + 1
  OBVIOUS
<1>8. b \in 1 .. Len(text) /\ b <= p + 1 /\ b - 1 = p
  BY <1>3, <1>7
<1>9. Fits(mode', io, << >>, quote, LineAt(text, b), LineAt(text, p + 1), tokens)
  BY <1>2, <1>3, <1>6, <1>7, <1>8, FitsIn DEF text, p
<1> QED BY <1>2, <1>4, <1>7, <1>9 DEF Inv

LEMMA CommentByteFits ==
  ASSUME Inv, CommentByte
  PROVE  Inv'
<1> DEFINE text == io.text
           p == io.seek
<1>1. mode = "comment" /\ mode \in Modes
  BY DEF CommentByte, Modes
<1>2. PICK b \in 1 .. Len(text) :
        /\ b <= p + 1 /\ At(text, b - 1, Unplaced(tokens)) /\ at = LineAt(text, b)
        /\ InLexeme(mode, text, b, p, buf, quote)
  BY <1>1, FitsHas DEF Inv
<1>3. InComment(text, b, p)
  BY <1>1, <1>2, InModes
<1>4. Sound(io) /\ IsTokens(tokens) /\ line = LineAt(text, p + 1)
  BY FitsHas DEF Inv
<1>5. /\ io' = Advanced(io) /\ buf' = buf /\ at' = at /\ tokens' = tokens /\ quote' = quote
      /\ mode' = IF ReadChar(io) \in {"nl", Nul} THEN "main" ELSE mode
      /\ line' = IF ReadChar(io) = "nl" THEN line + 1 ELSE line
  BY DEF CommentByte
<1>6. CASE IsEnd(io, 0)
  <2>1. /\ text \in Seq(Bytes) /\ Len(text) \in Nat /\ p = Len(text) /\ ReadChar(io) = Nul
        /\ Advanced(io) = io
    BY <1>4, <1>6, SoundReads
  <2>2. mode' = "main" /\ io' = io /\ line' = line
    <3>1. ReadChar(io) # "nl"
      BY <2>1, TextsAssumption DEF Bytes
    <3> QED BY <1>5, <2>1, <3>1
  <2> HIDE DEF text, p
  <2>3. p \in b .. Len(text) /\ p = Len(text)
    <3>1. b # p + 1
      BY <2>1
    <3> QED BY <1>2, <2>1, <3>1
  <2>4. InComment(text, b, p - 1)
    BY <1>3, <2>3 DEF InComment
  <2>5. At(text, p, Unplaced(tokens))
    BY <1>2, <2>1, <2>3, <2>4, CommentTaken
  <2>6. Fits("main", io, buf, quote, at, LineAt(text, p + 1), tokens)
    BY <1>4, <2>5, FitsMain DEF text, p
  <2> QED BY <1>4, <1>5, <2>2, <2>6 DEF Inv
<1>7. CASE ~IsEnd(io, 0)
  <2>1. /\ text \in Seq(Bytes) /\ p \in 0 .. Len(text) - 1 /\ ReadChar(io) = text[p + 1]
        /\ text[p + 1] \in Bytes /\ Sound(Advanced(io)) /\ Advanced(io).text = text
        /\ Advanced(io).seek = p + 1
        /\ text[p + 1] = "nl" => LineAt(text, p + 2) = LineAt(text, p + 1) + 1
        /\ text[p + 1] # "nl" => LineAt(text, p + 2) = LineAt(text, p + 1)
    BY <1>4, <1>7, Here
  <2>2. text[p + 1] # Nul
    BY <2>1, TextsAssumption
  <2> HIDE DEF text, p
  <2>3. PICK r : r = p + 1
    OBVIOUS
  <2>4. r \in b .. Len(text) /\ r - 1 = p /\ r + 1 = p + 2
    BY <1>2, <2>1, <2>3
  <2>5. line' = LineAt(text, r + 1)
    BY <1>4, <1>5, <2>1, <2>3, <2>4
  <2>6. CASE text[r] = "nl"
    <3>1. At(text, r, Unplaced(tokens))
      BY <1>2, <1>3, <2>1, <2>4, <2>6, CommentTaken
    <3>2. Fits("main", Advanced(io), buf, quote, at, LineAt(text, r + 1), tokens)
      BY <1>4, <2>1, <2>3, <3>1, FitsMain
    <3>3. mode' = "main"
      BY <1>5, <2>1, <2>3, <2>6
    <3> QED BY <1>5, <2>5, <3>2, <3>3 DEF Inv
  <2>7. CASE text[r] # "nl"
    <3>1. InComment(text, b, r)
      BY <1>2, <1>3, <2>1, <2>3, <2>7, CommentOn
    <3>2. mode' = "comment"
      BY <1>1, <1>5, <2>1, <2>2, <2>3, <2>7
    <3>3. b <= r + 1
      BY <2>4
    <3>4. Fits("comment", Advanced(io), buf, quote, LineAt(text, b), LineAt(text, r + 1), tokens)
      BY <1>2, <1>4, <2>1, <2>3, <3>1, <3>3, FitsIn DEF InLexeme
    <3> QED BY <1>2, <1>5, <2>5, <3>2, <3>4 DEF Inv
  <2> QED BY <2>6, <2>7
<1> QED BY <1>6, <1>7


LEMMA StringBeginFits ==
  ASSUME Inv, StringBegin
  PROVE  Inv'
<1> DEFINE text == io.text
           p == io.seek
<1>1. mode = "main" /\ ~IsEnd(io, 0) /\ Current(io) \cap Quotes # {}
  BY DEF StringBegin, Sees
<1>2. /\ Sound(io) /\ IsTokens(tokens) /\ line = LineAt(text, p + 1)
      /\ At(text, p, Unplaced(tokens))
  BY <1>1, FitsHas DEF Inv
<1>3. /\ text \in Seq(Bytes) /\ p \in 0 .. Len(text) - 1 /\ Current(io) = {text[p + 1]}
      /\ ReadChar(io) = text[p + 1]
      /\ Sound(Advanced(io)) /\ Advanced(io).text = text /\ Advanced(io).seek = p + 1
      /\ text[p + 1] # "nl" => LineAt(text, p + 2) = LineAt(text, p + 1)
  BY <1>1, <1>2, Here
<1>4. /\ io' = Advanced(io) /\ buf' = << >> /\ at' = line /\ line' = line /\ tokens' = tokens
      /\ quote' = ReadChar(io) /\ mode' = "string"
  BY DEF StringBegin, Begin
<1>5. text[p + 1] \in Quotes /\ text[p + 1] # "nl"
  BY <1>1, <1>3 DEF Quotes
<1> HIDE DEF text, p
<1>6. InString(text, p + 1, p + 1, << >>, text[p + 1])
  BY <1>3, <1>5, LexemeBegins
<1>7. PICK b : b = p + 1
  OBVIOUS
<1>8. b \in 1 .. Len(text) /\ b <= b + 1 /\ b - 1 = p /\ b + 1 = p + 2
  BY <1>3, <1>7
<1>9. Fits("string", Advanced(io), << >>, text[b], LineAt(text, b), LineAt(text, b + 1), tokens)
  BY <1>2, <1>3, <1>6, <1>7, <1>8, FitsIn DEF InLexeme
<1> QED BY <1>2, <1>3, <1>4, <1>5, <1>7, <1>8, <1>9 DEF Inv

(* Inside of a string.                                                     *)
LEMMA InsideString ==
  ASSUME Inv, mode = "string"
  PROVE  /\ Sound(io) /\ IsTokens(tokens) /\ line = LineAt(io.text, io.seek + 1)
         /\ \E b \in 1 .. Len(io.text) :
              /\ b <= io.seek + 1 /\ At(io.text, b - 1, Unplaced(tokens))
              /\ at = LineAt(io.text, b)
              /\ InString(io.text, b, io.seek, buf, quote)
<1>1. mode \in Modes
  BY DEF Modes
<1>2. PICK b \in 1 .. Len(io.text) :
        /\ b <= io.seek + 1 /\ At(io.text, b - 1, Unplaced(tokens)) /\ at = LineAt(io.text, b)
        /\ InLexeme(mode, io.text, b, io.seek, buf, quote)
  BY <1>1, FitsHas DEF Inv
<1>3. InString(io.text, b, io.seek, buf, quote)
  BY <1>2, InModes
<1>4. Sound(io) /\ IsTokens(tokens) /\ line = LineAt(io.text, io.seek + 1)
  BY FitsHas DEF Inv
<1> QED BY <1>2, <1>3, <1>4

LEMMA EscapeFits ==
  ASSUME Inv, Escape
  PROVE  Inv'
<1> DEFINE text == io.text
           p == io.seek
           s == Advanced(io)
<1>1. mode = "string" /\ ~IsEnd(io, 0) /\ ReadChar(io) = "\\"
  BY DEF Escape
<1>2. PICK b \in 1 .. Len(text) :
        /\ b <= p + 1 /\ At(text, b - 1, Unplaced(tokens)) /\ at = LineAt(text, b)
        /\ InString(text, b, p, buf, quote)
  BY <1>1, InsideString
<1>3. Sound(io) /\ IsTokens(tokens) /\ line = LineAt(text, p + 1)
  BY <1>1, InsideString
<1>4. /\ text \in Seq(Bytes) /\ p \in 0 .. Len(text) - 1 /\ text[p + 1] = "\\"
      /\ Sound(s) /\ s.text = text /\ s.seek = p + 1
      /\ text[p + 1] # "nl" => LineAt(text, p + 2) = LineAt(text, p + 1)
  BY <1>1, <1>3, Here
<1>5. LineAt(text, p + 2) = line
  BY <1>3, <1>4
<1>6. PICK c \in Current(s) :
        /\ mode' = mode /\ quote' = quote /\ at' = at /\ line' = line /\ tokens' = tokens
        /\ c \in Escapable => /\ io' = Advanced(s)
                              /\ buf' = Append(buf, IF c = "n" THEN "newline" ELSE c)
        /\ c \notin Escapable => io' = s /\ buf' = Append(buf, "\\")
  <2>1. PICK c \in Current(s) :
          CASE c = "n" -> Keep("newline", Advanced(s))
            [] c \in Quotes \cup {"\\"} -> Keep(c, Advanced(s))
            [] OTHER -> Keep("\\", s)
    BY DEF Escape
  <2>2. "n" \notin Quotes \cup {"\\"}
    BY DEF Quotes
  <2>3. CASE c = "n"
    BY <2>1, <2>2, <2>3 DEF Keep, Escapable
  <2>4. CASE c \in Quotes \cup {"\\"}
    BY <2>1, <2>2, <2>4 DEF Keep, Escapable
  <2>5. CASE c # "n" /\ c \notin Quotes \cup {"\\"}
    BY <2>1, <2>2, <2>5 DEF Keep, Escapable
  <2> QED BY <2>3, <2>4, <2>5
<1>7. CASE p + 1 = Len(text)
  <2>1. PICK u : u = buf'
    OBVIOUS
  <2>2. io' = s
    BY <1>4, <1>6, <1>7, SoundReads
  <2> HIDE DEF text, p, s
  <2>3. ~(p + 1 < Len(text))
    BY <1>4, <1>7
  <2>4. InString(text, b, p + 1, u, quote)
    BY <1>2, <1>4, <2>3, StringBreaks
  <2>5. b <= p + 1 + 1 /\ p + 1 + 1 = p + 2
    BY <1>2, <1>4
  <2>6. Fits("string", s, u, quote, LineAt(text, b), LineAt(text, p + 1 + 1), tokens)
    BY <1>2, <1>3, <1>4, <2>4, <2>5, FitsIn DEF InLexeme
  <2> QED BY <1>1, <1>2, <1>5, <1>6, <2>1, <2>2, <2>5, <2>6 DEF Inv
<1>8. CASE p + 1 < Len(text)
  <2>1. ~IsEnd(s, 0)
    BY <1>4, <1>8, SoundReads
  <2>2. PICK r : r = p + 1
    OBVIOUS
  <2>3. r \in Nat /\ r < Len(text) /\ p \in 0 .. Len(text) - 2 /\ r + 1 = p + 2 /\ r + 2 = p + 3
    BY <1>4, <1>8, <2>2
  <2>4. /\ Current(s) = {text[r + 1]}
        /\ Sound(Advanced(s)) /\ Advanced(s).text = text /\ Advanced(s).seek = r + 1
        /\ text[r + 1] # "nl" => LineAt(text, r + 2) = LineAt(text, r + 1)
    BY <1>4, <2>1, <2>2, Here
  <2>5. c = text[p + 2]
    BY <1>6, <2>3, <2>4
  <2> HIDE DEF text, p, s
  <2>6. CASE c \in Escapable
    <3>1. InString(text, b, p + 2, Append(buf, IF c = "n" THEN "newline" ELSE c), quote)
      BY <1>2, <1>4, <2>3, <2>5, <2>6, StringEscapes
    <3>2. LineAt(text, p + 3) = line
      <4>1. text[r + 1] # "nl"
        BY <2>3, <2>5, <2>6 DEF Escapable, Quotes
      <4> QED BY <1>5, <2>3, <2>4, <4>1
    <3>3. b <= p + 2 + 1 /\ p + 2 + 1 = p + 3 /\ r + 1 = p + 2
      BY <1>2, <1>4, <2>3
    <3>4. Fits("string", Advanced(s), Append(buf, IF c = "n" THEN "newline" ELSE c), quote,
               LineAt(text, b), LineAt(text, p + 2 + 1), tokens)
      BY <1>2, <1>3, <2>4, <3>1, <3>3, FitsIn DEF InLexeme
    <3> QED BY <1>1, <1>2, <1>6, <2>6, <3>2, <3>3, <3>4 DEF Inv
  <2>7. CASE c \notin Escapable
    <3>1. InString(text, b, p + 1, Append(buf, "\\"), quote)
      BY <1>2, <1>4, <2>5, <2>7, StringKeeps
    <3>2. b <= p + 1 + 1 /\ p + 1 + 1 = p + 2
      BY <1>2, <1>4
    <3>3. Fits("string", s, Append(buf, "\\"), quote, LineAt(text, b), LineAt(text, p + 1 + 1),
               tokens)
      BY <1>2, <1>3, <1>4, <3>1, <3>2, FitsIn DEF InLexeme
    <3> QED BY <1>1, <1>2, <1>5, <1>6, <2>7, <3>2, <3>3 DEF Inv
  <2> QED BY <2>6, <2>7
<1>9. p + 1 = Len(text) \/ p + 1 < Len(text)
  BY <1>4
<1> QED BY <1>7, <1>8, <1>9

LEMMA StringByteFits ==
  ASSUME Inv, StringByte \/ StringLine
  PROVE  Inv'
<1> DEFINE text == io.text
           p == io.seek
           u == IF text[p + 1] = "nl" THEN buf ELSE Append(buf, text[p + 1])
<1>1. ReadChar(io) \notin {"\\", quote} \/ ReadChar(io) = "nl"
  BY DEF StringByte, StringLine
<1>2. mode = "string" /\ ~IsEnd(io, 0)
  BY DEF StringByte, StringLine
<1>3. PICK b \in 1 .. Len(text) :
        /\ b <= p + 1 /\ At(text, b - 1, Unplaced(tokens)) /\ at = LineAt(text, b)
        /\ InString(text, b, p, buf, quote)
  BY <1>2, InsideString
<1>4. Sound(io) /\ IsTokens(tokens) /\ line = LineAt(text, p + 1)
  BY <1>2, InsideString
<1>5. /\ text \in Seq(Bytes) /\ p \in 0 .. Len(text) - 1 /\ ReadChar(io) = text[p + 1]
      /\ Sound(Advanced(io)) /\ Advanced(io).text = text /\ Advanced(io).seek = p + 1
      /\ text[p + 1] = "nl" => LineAt(text, p + 2) = LineAt(text, p + 1) + 1
      /\ text[p + 1] # "nl" => LineAt(text, p + 2) = LineAt(text, p + 1)
  BY <1>2, <1>4, Here
<1>6. /\ io' = Advanced(io) /\ mode' = mode /\ quote' = quote /\ at' = at /\ tokens' = tokens
      /\ buf' = u /\ line' = LineAt(text, p + 2)
  <2>1. CASE StringByte
    BY <1>4, <1>5, <2>1 DEF StringByte, Keep
  <2>2. CASE StringLine
    BY <1>4, <1>5, <2>2 DEF StringLine
  <2> QED BY <2>1, <2>2
<1>7. text[p + 1] \notin {"\\", quote}
  <2>1. quote # "nl"
    BY <1>3 DEF InString, Quotes
  <2> QED BY <1>1, <1>5, <2>1
<1> HIDE DEF text, p
<1>8. InString(text, b, p + 1, u, quote)
  BY <1>3, <1>5, <1>7, StringOn
<1> HIDE DEF u
<1>9. b <= p + 1 + 1 /\ p + 1 + 1 = p + 2
  BY <1>3, <1>5
<1>10. Fits("string", Advanced(io), u, quote, LineAt(text, b), LineAt(text, p + 1 + 1), tokens)
  BY <1>3, <1>4, <1>5, <1>8, <1>9, FitsIn DEF InLexeme
<1> QED BY <1>2, <1>3, <1>6, <1>9, <1>10 DEF Inv

LEMMA StringEndFits ==
  ASSUME Inv, StringEnd
  PROVE  Inv'
<1> DEFINE text == io.text
           p == io.seek
           t == Append(tokens, Token("str", buf, at))
<1>1. mode = "string" /\ ~IsEnd(io, 0) /\ ReadChar(io) = quote
  BY DEF StringEnd
<1>2. PICK b \in 1 .. Len(text) :
        /\ b <= p + 1 /\ At(text, b - 1, Unplaced(tokens)) /\ at = LineAt(text, b)
        /\ InString(text, b, p, buf, quote)
  BY <1>1, InsideString
<1>3. Sound(io) /\ IsTokens(tokens) /\ line = LineAt(text, p + 1)
  BY <1>1, InsideString
<1>4. /\ text \in Seq(Bytes) /\ p \in 0 .. Len(text) - 1 /\ ReadChar(io) = text[p + 1]
      /\ Sound(Advanced(io)) /\ Advanced(io).text = text /\ Advanced(io).seek = p + 1
      /\ text[p + 1] # "nl" => LineAt(text, p + 2) = LineAt(text, p + 1)
  BY <1>1, <1>3, Here
<1>5. text[p + 1] = quote /\ text[p + 1] # "nl"
  BY <1>1, <1>2, <1>4 DEF InString, Quotes
<1>6. IsTokens(t) /\ Unplaced(t) = Append(Unplaced(tokens), Token("str", buf, at))
  <2>1. PICK k : k = "str"
    OBVIOUS
  <2>2. k # "end"
    BY <2>1
  <2>3. /\ IsTokens(Append(tokens, Token(k, buf, at)))
        /\ Unplaced(Append(tokens, Token(k, buf, at))) =
             Append(Unplaced(tokens), Token(k, buf, at))
    BY <1>3, <2>2, Grows
  <2> QED BY <2>1, <2>3
<1>7. /\ io' = Advanced(io) /\ mode' = "main" /\ quote' = quote /\ at' = at /\ tokens' = t
      /\ buf' = buf /\ line' = line
  BY DEF StringEnd, Add
<1> HIDE DEF text, p, t
<1>8. At(text, p + 1, Unplaced(t))
  BY <1>2, <1>4, <1>5, <1>6, StringEnds
<1>9. p + 1 + 1 = p + 2
  BY <1>4
<1>10. Fits("main", Advanced(io), buf, quote, at, LineAt(text, p + 1 + 1), t)
  BY <1>4, <1>6, <1>8, FitsMain
<1> QED BY <1>3, <1>4, <1>5, <1>7, <1>9, <1>10 DEF Inv

LEMMA StringOpenFits ==
  ASSUME Inv, StringOpen
  PROVE  Inv'
<1>1. mode = "string" /\ IsEnd(io, 0)
  BY DEF StringOpen
<1>2. PICK b \in 1 .. Len(io.text) :
        /\ At(io.text, b - 1, Unplaced(tokens)) /\ InString(io.text, b, io.seek, buf, quote)
  BY <1>1, InsideString
<1>3. Sound(io) /\ IsTokens(tokens) /\ line = LineAt(io.text, io.seek + 1)
  BY <1>1, InsideString
<1>4. io.seek = Len(io.text) /\ io.text \in Seq(Bytes)
  BY <1>1, <1>3, SoundReads
<1>5. Tokens(io.text) = Wrong
  BY <1>2, <1>4, StringWrong
<1>6. Fits("error", io, buf, quote, at, LineAt(io.text, io.seek + 1), tokens)
  BY <1>3, <1>5, FitsError
<1> QED BY <1>3, <1>6 DEF Inv, StringOpen


LEMMA NumberBeginFits ==
  ASSUME Inv, NumberBegin
  PROVE  Inv'
<1> DEFINE text == io.text
           p == io.seek
           s == Advanced(io)
<1>1. mode = "main" /\ ~IsEnd(io, 0) /\ Current(io) \cap Digits # {}
  BY DEF NumberBegin, Sees
<1>2. /\ Sound(io) /\ IsTokens(tokens) /\ line = LineAt(text, p + 1)
      /\ At(text, p, Unplaced(tokens))
  BY <1>1, FitsHas DEF Inv
<1>3. /\ text \in Seq(Bytes) /\ p \in 0 .. Len(text) - 1 /\ Current(io) = {text[p + 1]}
      /\ Looked(io, 1) = io
      /\ Sound(s) /\ s.text = text /\ s.seek = p + 1
      /\ text[p + 1] # "nl" => LineAt(text, p + 2) = LineAt(text, p + 1)
      /\ p + 1 < Len(text) => MatchChar(io, 1) = text[p + 2]
      /\ p + 1 >= Len(text) => MatchChar(io, 1) = Nul
  BY <1>1, <1>2, Here
<1>4. text[p + 1] \in Digits
  BY <1>1, <1>3
<1>5. PICK b : b = p + 1
  OBVIOUS
<1>6. /\ b \in 1 .. Len(text) /\ b <= p + 1 /\ b - 1 = p /\ b + 1 = p + 2 /\ b <= b + 1 + 1
      /\ b + 2 = b + 1 + 1
  BY <1>3, <1>5
<1>7. (text[b] = "0" /\ MatchChar(io, 1) = "x") <=> HexAt(text, b)
  <2>1. Nul # "x"
    BY TextsAssumption DEF Bytes, Letters
  <2>2. MatchChar(io, 1) = "x" <=> (b < Len(text) /\ text[b + 1] = "x")
    BY <1>3, <1>5, <1>6, <2>1
  <2> QED BY <2>2 DEF HexAt
<1>8. /\ buf' = << >> /\ at' = line /\ line' = line /\ tokens' = tokens /\ quote' = quote
      /\ HexAt(text, b) => mode' = "hex" /\ io' = Advanced(s)
      /\ ~HexAt(text, b) => mode' = "decimal" /\ io' = io
  BY <1>3, <1>5, <1>7 DEF NumberBegin, Begin
<1>9. CASE HexAt(text, b)
  <2>1. b < Len(text) /\ text[b] # "nl" /\ text[b + 1] # "nl"
    BY <1>9 DEF HexAt
  <2>2. ~IsEnd(s, 0)
    BY <1>3, <1>5, <2>1, SoundReads
  <2>3. /\ Sound(Advanced(s)) /\ Advanced(s).text = text /\ Advanced(s).seek = b + 1
        /\ text[b + 1] # "nl" => LineAt(text, b + 2) = LineAt(text, b + 1)
    BY <1>3, <1>5, <2>2, Here
  <2> HIDE DEF text, p, s
  <2>4. LineAt(text, b + 1 + 1) = line
    BY <1>2, <1>3, <1>5, <1>6, <2>1, <2>3
  <2>5. InHex(text, b, b + 1, << >>)
    BY <1>3, <1>5, <1>6, <1>9, LexemeBegins
  <2>6. Fits("hex", Advanced(s), << >>, quote, LineAt(text, b), LineAt(text, b + 1 + 1), tokens)
    BY <1>2, <1>6, <2>3, <2>5, FitsIn DEF InLexeme
  <2> QED BY <1>2, <1>5, <1>8, <1>9, <2>4, <2>6 DEF Inv
<1>10. CASE ~HexAt(text, b)
  <2> HIDE DEF text, p, s
  <2>1. InDecimal(text, b, p, << >>)
    BY <1>3, <1>4, <1>5, <1>10, LexemeBegins
  <2>2. Fits("decimal", io, << >>, quote, LineAt(text, b), LineAt(text, p + 1), tokens)
    BY <1>2, <1>6, <2>1, FitsIn DEF InLexeme, text, p
  <2> QED BY <1>2, <1>5, <1>8, <1>10, <2>2 DEF Inv
<1> QED BY <1>9, <1>10

(* Inside of a word or a number: what Reading and the end of the text say. *)
LEMMA InsideWord ==
  ASSUME Inv, Reading
  PROVE  /\ Sound(io) /\ IsTokens(tokens) /\ line = LineAt(io.text, io.seek + 1)
         /\ \E b \in 1 .. Len(io.text) :
              /\ b <= io.seek + 1 /\ At(io.text, b - 1, Unplaced(tokens))
              /\ at = LineAt(io.text, b)
              /\ mode = "word" => InWord(io.text, b, io.seek, buf)
              /\ mode = "hex" => InHex(io.text, b, io.seek, buf)
              /\ mode = "decimal" => InDecimal(io.text, b, io.seek, buf)
<1>1. mode \in Modes
  BY DEF Modes, Reading
<1>2. PICK b \in 1 .. Len(io.text) :
        /\ b <= io.seek + 1 /\ At(io.text, b - 1, Unplaced(tokens)) /\ at = LineAt(io.text, b)
        /\ InLexeme(mode, io.text, b, io.seek, buf, quote)
  BY <1>1, FitsHas DEF Inv
<1>3. /\ mode = "word" => InWord(io.text, b, io.seek, buf)
      /\ mode = "hex" => InHex(io.text, b, io.seek, buf)
      /\ mode = "decimal" => InDecimal(io.text, b, io.seek, buf)
  BY <1>2, InModes
<1>4. Sound(io) /\ IsTokens(tokens) /\ line = LineAt(io.text, io.seek + 1)
  BY FitsHas DEF Inv
<1> QED BY <1>2, <1>3, <1>4

(* Whether the next byte goes with a number, as it is seen from the text.  *)
LEMMA GoesSeen ==
  ASSUME Sound(io), ~IsEnd(io, 0), Reading
  PROVE  /\ mode = "word" => (Goes(io.text[io.seek + 1]) <=>
                                io.text[io.seek + 1] \in Letters \cup Digits)
         /\ mode = "hex" => (Goes(io.text[io.seek + 1]) <=> io.text[io.seek + 1] \in HexDigits)
         /\ mode = "decimal" =>
              /\ Goes(io.text[io.seek + 1]) <=> GoesOn(io.text, io.seek + 1)
              /\ LonePoint(io.text[io.seek + 1]) <=> IsLonePoint(io.text, io.seek + 1)
<1> DEFINE text == io.text
           p == io.seek
<1>1. PICK b : b = p + 1
  OBVIOUS
<1>2. /\ p \in 0 .. Len(text) - 1
      /\ p + 1 < Len(text) => MatchChar(io, 1) = text[p + 2]
      /\ p + 1 >= Len(text) => MatchChar(io, 1) = Nul
  BY Here
<1>3. /\ b <= Len(text) /\ (b = Len(text) \/ b < Len(text)) /\ p + 2 = b + 1
      /\ b < Len(text) => MatchChar(io, 1) = text[b + 1] /\ b # Len(text)
      /\ b = Len(text) => MatchChar(io, 1) = Nul /\ ~(b < Len(text))
  BY <1>1, <1>2
<1>4. Nul # "." /\ Nul \notin Digits
  BY TextsAssumption DEF Bytes
<1>5. mode = "decimal" => (Goes(text[b]) <=> text[b] \in Digits \/ PointOf(text[b]))
  BY DEF Goes
<1>6. PointOf(text[b]) <=> text[b] = "." /\ b < Len(text) /\ text[b + 1] \in Digits
  BY <1>3, <1>4 DEF PointOf
<1>7. mode = "decimal" => (LonePoint(text[b]) <=> IsLonePoint(text, b))
  <2> Looked(io, 1) = io
    BY SoundReads
  <2>1. CASE b = Len(text)
    BY <1>3, <1>4, <2>1 DEF LonePoint, IsLonePoint
  <2>2. CASE b < Len(text)
    BY <1>3, <1>4, <2>2 DEF LonePoint, IsLonePoint
  <2> QED BY <1>3, <2>1, <2>2
<1>8. mode = "decimal" => (Goes(text[b]) <=> GoesOn(text, b))
  BY <1>5, <1>6 DEF GoesOn
<1>9. /\ mode = "word" => (Goes(text[b]) <=> text[b] \in Letters \cup Digits)
      /\ mode = "hex" => (Goes(text[b]) <=> text[b] \in HexDigits)
  BY DEF Goes
<1> QED BY <1>1, <1>7, <1>8, <1>9

LEMMA ByteFits ==
  ASSUME Inv, Byte
  PROVE  Inv'
<1> DEFINE text == io.text
           p == io.seek
           u == Append(buf, text[p + 1])
<1>1. Reading /\ ~IsEnd(io, 0)
  BY DEF Byte
<1>2. PICK b \in 1 .. Len(text) :
        /\ b <= p + 1 /\ At(text, b - 1, Unplaced(tokens)) /\ at = LineAt(text, b)
        /\ mode = "word" => InWord(text, b, p, buf)
        /\ mode = "hex" => InHex(text, b, p, buf)
        /\ mode = "decimal" => InDecimal(text, b, p, buf)
  BY <1>1, InsideWord
<1>3. Sound(io) /\ IsTokens(tokens) /\ line = LineAt(text, p + 1)
  BY <1>1, InsideWord
<1>4. /\ text \in Seq(Bytes) /\ p \in 0 .. Len(text) - 1 /\ Current(io) = {text[p + 1]}
      /\ Looked(io, 1) = io
      /\ Sound(Advanced(io)) /\ Advanced(io).text = text /\ Advanced(io).seek = p + 1
      /\ text[p + 1] # "nl" => LineAt(text, p + 2) = LineAt(text, p + 1)
  BY <1>1, <1>3, Here
<1>5. /\ Goes(text[p + 1])
      /\ io' = Advanced(io) /\ buf' = u /\ mode' = mode /\ quote' = quote /\ at' = at
      /\ line' = line /\ tokens' = tokens
  BY <1>4 DEF Byte, Keep, Consulted
<1>6. /\ mode = "word" => text[p + 1] \in Letters \cup Digits
      /\ mode = "hex" => text[p + 1] \in HexDigits
      /\ mode = "decimal" => GoesOn(text, p + 1)
  BY <1>1, <1>3, <1>5, GoesSeen
<1>7. text[p + 1] # "nl"
  BY <1>1, <1>6 DEF Reading, Letters, Digits, HexDigits, GoesOn
<1> HIDE DEF text, p
<1>8. b \in 1 .. p + 1 /\ b <= p + 1 + 1 /\ p + 1 + 1 = p + 2
  BY <1>2, <1>4
<1>9. InLexeme(mode, text, b, p + 1, u, quote)
  <2>1. CASE mode = "word"
    BY <1>2, <1>4, <1>6, <1>8, <2>1, WordOn DEF InLexeme
  <2>2. CASE mode = "hex"
    BY <1>2, <1>4, <1>6, <1>8, <2>2, HexOn DEF InLexeme
  <2>3. CASE mode = "decimal"
    BY <1>2, <1>4, <1>6, <1>8, <2>3, DecimalOn DEF InLexeme
  <2> QED BY <1>1, <2>1, <2>2, <2>3 DEF Reading
<1> HIDE DEF u
<1>10. Fits(mode, Advanced(io), u, quote, LineAt(text, b), LineAt(text, p + 1 + 1), tokens)
  BY <1>2, <1>3, <1>4, <1>8, <1>9, FitsIn
<1> QED BY <1>2, <1>3, <1>4, <1>5, <1>7, <1>8, <1>10 DEF Inv

LEMMA FinishFits ==
  ASSUME Inv, Finish \/ NumberWrong
  PROVE  Inv'
<1> DEFINE text == io.text
           p == io.seek
           us == Unplaced(tokens)
<1>1. Reading
  BY DEF Finish, NumberWrong
<1>2. PICK b \in 1 .. Len(text) :
        /\ b <= p + 1 /\ At(text, b - 1, us) /\ at = LineAt(text, b)
        /\ mode = "word" => InWord(text, b, p, buf)
        /\ mode = "hex" => InHex(text, b, p, buf)
        /\ mode = "decimal" => InDecimal(text, b, p, buf)
  BY <1>1, InsideWord
<1>3. Sound(io) /\ IsTokens(tokens) /\ line = LineAt(text, p + 1)
  BY <1>1, InsideWord
<1>4. /\ text \in Seq(Bytes) /\ Len(text) \in Nat /\ p \in 0 .. Len(text)
      /\ IsEnd(io, 0) <=> p = Len(text)
  BY <1>3, SoundReads
<1>5. p < Len(text) => ~IsEnd(io, 0) /\ Current(io) = {text[p + 1]}
  BY <1>3, <1>4, SoundReads
<1>6. ASSUME p < Len(text)
      PROVE  /\ mode = "word" => (Goes(text[p + 1]) <=> text[p + 1] \in Letters \cup Digits)
             /\ mode = "hex" => (Goes(text[p + 1]) <=> text[p + 1] \in HexDigits)
             /\ mode = "decimal" => /\ Goes(text[p + 1]) <=> GoesOn(text, p + 1)
                                    /\ LonePoint(text[p + 1]) <=> IsLonePoint(text, p + 1)
  BY <1>1, <1>3, <1>5, <1>6, GoesSeen
<1>7. p < Len(text) => ~Goes(text[p + 1])
  BY <1>4, <1>5 DEF Finish, NumberWrong
<1>8. /\ mode = "word" /\ p < Len(text) => text[p + 1] \notin Letters \cup Digits
      /\ mode = "hex" /\ p < Len(text) => text[p + 1] \notin HexDigits
      /\ mode = "decimal" /\ p < Len(text) => ~GoesOn(text, p + 1)
  BY <1>6, <1>7
<1>9. CASE NumberWrong
  <2>1. /\ p < Len(text) /\ mode = "decimal" /\ LonePoint(text[p + 1])
    BY <1>4, <1>5, <1>9 DEF NumberWrong, LonePoint
  <2>2. IsLonePoint(text, p + 1)
    BY <1>6, <2>1
  <2>3. InDecimal(text, b, p, buf)
    BY <1>2, <2>1
  <2> HIDE DEF text, p, us
  <2>4. Tokens(text) = Wrong
    BY <1>2, <1>4, <1>8, <2>1, <2>2, <2>3, DecimalEnds
  <2>5. Fits("error", io, buf, quote, at, LineAt(text, p + 1), tokens)
    BY <1>3, <2>4, FitsError DEF text, p
  <2>6. io' = io
    BY <1>3, <1>9, SoundReads DEF NumberWrong, Consulted
  <2> QED BY <1>3, <1>9, <2>5, <2>6 DEF Inv, NumberWrong
<1>10. CASE Finish
  <2> DEFINE t == Append(tokens, TokenRead)
  <2>1. mode = "decimal" => ~IsLonePoint(text, p + 1)
    <3>1. CASE p = Len(text)
      BY <1>4, <3>1 DEF IsLonePoint
    <3>2. CASE p < Len(text)
      BY <1>4, <1>5, <1>6, <1>10, <3>2 DEF Finish
    <3> QED BY <1>4, <3>1, <3>2
  <2>2. /\ mode = "word" => TokenRead = TokenOf(buf, at)
        /\ mode = "hex" => TokenRead = Token("hex", buf, at)
        /\ mode = "decimal" => TokenRead = Token("num", buf, at)
    BY DEF TokenRead
  <2> HIDE DEF text, p, us
  <2>3. At(text, p, Append(us, TokenRead)) /\ \E k, v, l : k # "end" /\ TokenRead = Token(k, v, l)
    <3>1. CASE mode = "word"
      <4>1. InWord(text, b, p, buf)
        BY <1>2, <3>1
      <4>2. /\ At(text, p, Append(us, TokenOf(buf, LineAt(text, b))))
            /\ \E k : k # "end" /\ TokenOf(buf, LineAt(text, b)) = Token(k, buf, LineAt(text, b))
        BY <1>2, <1>4, <1>8, <3>1, <4>1, WordEnds
      <4> QED BY <1>2, <2>2, <3>1, <4>2
    <3>2. CASE mode = "hex"
      <4>1. InHex(text, b, p, buf)
        BY <1>2, <3>2
      <4>2. At(text, p, Append(us, Token("hex", buf, LineAt(text, b))))
        BY <1>2, <1>4, <1>8, <3>2, <4>1, HexEnds
      <4> QED BY <1>2, <2>2, <3>2, <4>2
    <3>3. CASE mode = "decimal"
      <4>1. InDecimal(text, b, p, buf)
        BY <1>2, <3>3
      <4>2. At(text, p, Append(us, Token("num", buf, LineAt(text, b))))
        BY <1>2, <1>4, <1>8, <2>1, <3>3, <4>1, DecimalEnds
      <4> QED BY <1>2, <2>2, <3>3, <4>2
    <3> QED BY <1>1, <3>1, <3>2, <3>3 DEF Reading
  <2>4. IsTokens(t) /\ Unplaced(t) = Append(us, TokenRead)
    BY <1>3, <2>3, Grows DEF us
  <2>5. /\ io' = io /\ mode' = "main" /\ quote' = quote /\ at' = at /\ tokens' = t
        /\ buf' = buf /\ line' = line
    BY <1>3, <1>10, SoundReads DEF Finish, Add, Consulted
  <2> HIDE DEF t
  <2>6. Fits("main", io, buf, quote, at, LineAt(text, p + 1), t)
    BY <1>3, <2>3, <2>4, FitsMain DEF text, p
  <2> QED BY <1>3, <2>5, <2>6 DEF Inv
<1> QED BY <1>9, <1>10


(* The current byte behind one that is looked behind.                      *)
LEMMA Behind ==
  ASSUME NEW s, Sound(s), NEW r, r = s.seek, r > 0, s.text[r] \in Longer
  PROVE  /\ r \in 1 .. Len(s.text)
         /\ r < Len(s.text) => Current(s) = {s.text[r + 1]} /\ ~IsEnd(s, 0)
         /\ r = Len(s.text) => Current(s) = {Nul}
<1>1. /\ Len(s.text) \in Nat /\ r \in 0 .. Len(s.text)
      /\ r < Len(s.text) => Current(s) = {s.text[r + 1]}
      /\ r = Len(s.text) => s.text[Len(s.text)] \notin Longer \/ Current(s) = {Nul}
      /\ IsEnd(s, 0) <=> r = Len(s.text)
  BY SoundReads
<1> QED BY <1>1

(* The next byte at the loop of a2_lex_read.                               *)
LEMMA AtLoop ==
  ASSUME Inv, NEW set, Sees(set)
  PROVE  /\ Sound(io) /\ IsTokens(tokens) /\ ~IsEnd(io, 0) /\ mode = "main"
         /\ io.text \in Seq(Bytes) /\ Len(io.text) \in Nat /\ io.seek \in 0 .. Len(io.text) - 1
         /\ Sound(Advanced(io)) /\ Advanced(io).text = io.text
         /\ Current(io) = {io.text[io.seek + 1]} /\ io.text[io.seek + 1] \in set
         /\ \A b : b = io.seek + 1 =>
              /\ b \in 1 .. Len(io.text) /\ At(io.text, b - 1, Unplaced(tokens))
              /\ line = LineAt(io.text, b) /\ Advanced(io).seek = b
              /\ io.text[b] = "nl" => LineAt(io.text, b + 1) = line + 1
              /\ io.text[b] # "nl" => LineAt(io.text, b + 1) = line
<1> DEFINE text == io.text
           p == io.seek
<1>1. mode = "main" /\ ~IsEnd(io, 0) /\ Current(io) \cap set # {}
  BY DEF Sees
<1>2. /\ Sound(io) /\ IsTokens(tokens) /\ line = LineAt(text, p + 1)
      /\ At(text, p, Unplaced(tokens))
  BY <1>1, FitsHas DEF Inv
<1>3. /\ text \in Seq(Bytes) /\ Len(text) \in Nat /\ p \in 0 .. Len(text) - 1
      /\ Current(io) = {text[p + 1]}
      /\ Sound(Advanced(io)) /\ Advanced(io).text = text /\ Advanced(io).seek = p + 1
      /\ text[p + 1] = "nl" => LineAt(text, p + 2) = LineAt(text, p + 1) + 1
      /\ text[p + 1] # "nl" => LineAt(text, p + 2) = LineAt(text, p + 1)
  BY <1>1, <1>2, Here
<1>4. text[p + 1] \in set
  BY <1>1, <1>3
<1> HIDE DEF text, p
<1>5. ASSUME NEW b, b = p + 1
      PROVE  /\ b \in 1 .. Len(text) /\ At(text, b - 1, Unplaced(tokens))
             /\ line = LineAt(text, b) /\ Advanced(io).seek = b
             /\ text[b] = "nl" => LineAt(text, b + 1) = line + 1
             /\ text[b] # "nl" => LineAt(text, b + 1) = line
  <2>1. b \in 1 .. Len(text) /\ b - 1 = p /\ b + 1 = p + 2
    BY <1>3, <1>5
  <2> QED BY <1>2, <1>3, <1>5, <2>1
<1> QED BY <1>1, <1>2, <1>3, <1>4, <1>5 DEF text, p

LEMMA OperatorFits ==
  ASSUME Inv, mode = "main", NEW b \in 1 .. Len(io.text), b = io.seek + 1,
         NEW s, Sound(s), s.text = io.text,
         LineAt(io.text, s.seek + 1) = line, line = LineAt(io.text, b),
         NEW op, op \in Ops, Longest(io.text, b, s.seek), SubSeq(io.text, b, s.seek) = op,
         Operator(s, op)
  PROVE  Inv'
<1> DEFINE text == io.text
           t == Append(tokens, Token("op", op, line))
<1>1. Sound(io) /\ IsTokens(tokens) /\ At(text, io.seek, Unplaced(tokens))
  BY FitsHas DEF Inv
<1>2. text \in Seq(Bytes) /\ io.seek \in 0 .. Len(text)
  BY <1>1, SoundReads
<1>3. b - 1 = io.seek
  BY <1>2
<1>4. At(text, s.seek, Append(Unplaced(tokens), Token("op", op, line)))
  BY <1>1, <1>2, <1>3, TakenOp
<1>5. IsTokens(t) /\ Unplaced(t) = Append(Unplaced(tokens), Token("op", op, line))
  <2>1. PICK k : k = "op"
    OBVIOUS
  <2>2. k # "end"
    BY <2>1
  <2> QED BY <1>1, <2>1, <2>2, Grows
<1>6. /\ io' = s /\ tokens' = t /\ mode' = "main" /\ buf' = buf /\ quote' = quote /\ at' = at
      /\ line' = line
  BY DEF Operator, Add
<1> HIDE DEF t
<1>7. Fits("main", s, buf, quote, at, LineAt(s.text, s.seek + 1), t)
  BY <1>4, <1>5, FitsMain
<1> QED BY <1>6, <1>7 DEF Inv

LEMMA SingleFits ==
  ASSUME Inv, Single
  PROVE  Inv'
<1> DEFINE text == io.text
<1>1. Sees(SingleOps)
  BY DEF Single
<1>2. PICK b : b = io.seek + 1
  OBVIOUS
<1>3. PICK s : s = Advanced(io)
  OBVIOUS
<1>4. /\ mode = "main" /\ text \in Seq(Bytes) /\ Current(io) = {text[b]} /\ text[b] \in SingleOps
      /\ b \in 1 .. Len(text) /\ line = LineAt(text, b)
      /\ Sound(s) /\ s.text = text /\ s.seek = b
      /\ text[b] # "nl" => LineAt(text, b + 1) = line
  BY <1>1, <1>2, <1>3, AtLoop
<1>5. text[b] # "nl" /\ text[b] # "." /\ text[b] \notin EqualOps
  BY <1>4 DEF SingleOps, EqualOps
<1>6. Longest(text, b, b) /\ SubSeq(text, b, b) = <<text[b]>>
  BY <1>4, <1>5, LongestOp1
<1>7. <<text[b]>> \in Ops
  BY <1>4 DEF Ops
<1>8. Operator(s, <<text[b]>>)
  BY <1>3, <1>4 DEF Single
<1> QED BY <1>2, <1>4, <1>5, <1>6, <1>7, <1>8, OperatorFits

LEMMA WithEqualFits ==
  ASSUME Inv, WithEqual
  PROVE  Inv'
<1> DEFINE text == io.text
<1>1. Sees(EqualOps)
  BY DEF WithEqual
<1>2. PICK b : b = io.seek + 1
  OBVIOUS
<1>3. PICK s : s = Advanced(io)
  OBVIOUS
<1>4. /\ mode = "main" /\ text \in Seq(Bytes) /\ Current(io) = {text[b]} /\ text[b] \in EqualOps
      /\ b \in 1 .. Len(text) /\ line = LineAt(text, b)
      /\ Sound(s) /\ s.text = text /\ s.seek = b
      /\ text[b] # "nl" => LineAt(text, b + 1) = line
  BY <1>1, <1>2, <1>3, AtLoop
<1>5. text[b] # "nl" /\ text[b] # "." /\ text[b] \in Longer
  BY <1>4 DEF EqualOps, Longer
<1>6. /\ b < Len(text) => Current(s) = {text[b + 1]} /\ ~IsEnd(s, 0)
      /\ b = Len(text) => Current(s) = {Nul}
  BY <1>4, <1>5, Behind
<1>7. \/ "=" \in Current(s) /\ Operator(Advanced(s), <<text[b], "=">>)
      \/ Current(s) # {"="} /\ Operator(s, <<text[b]>>)
  BY <1>3, <1>4 DEF WithEqual
<1>8. CASE "=" \in Current(s) /\ Operator(Advanced(s), <<text[b], "=">>)
  <2>1. Nul # "="
    BY TextsAssumption DEF Bytes, EqualOps
  <2>2. b < Len(text) /\ text[b + 1] = "=" /\ ~IsEnd(s, 0)
    BY <1>4, <1>6, <1>8, <2>1
  <2>3. PICK t : t = Advanced(s)
    OBVIOUS
  <2>4. /\ Sound(t) /\ t.text = text /\ t.seek = b + 1
        /\ text[b + 1] # "nl" => LineAt(text, b + 2) = LineAt(text, b + 1)
    BY <1>4, <2>2, <2>3, Here
  <2>5. LineAt(text, t.seek + 1) = line
    <3>1. b + 1 + 1 = b + 2
      BY <1>4
    <3> QED BY <1>4, <1>5, <2>2, <2>4, <3>1
  <2>6. b \in 1 .. Len(text) - 1
    BY <1>4, <2>2
  <2>7. Longest(text, b, b + 1) /\ SubSeq(text, b, b + 1) = <<text[b], "=">>
    BY <1>4, <2>2, <2>6, LongestEqual
  <2>8. <<text[b], "=">> \in Ops
    BY <1>4 DEF Ops
  <2> QED BY <1>2, <1>4, <1>8, <2>3, <2>4, <2>5, <2>7, <2>8, OperatorFits
<1>9. CASE Current(s) # {"="} /\ Operator(s, <<text[b]>>)
  <2>1. b < Len(text) => text[b + 1] # "="
    BY <1>6, <1>9
  <2>2. Longest(text, b, b) /\ SubSeq(text, b, b) = <<text[b]>>
    BY <1>4, <1>5, <2>1, LongestOp1
  <2>3. <<text[b]>> \in Ops
    BY <1>4 DEF Ops
  <2> QED BY <1>2, <1>4, <1>5, <1>9, <2>2, <2>3, OperatorFits
<1> QED BY <1>7, <1>8, <1>9

LEMMA PointsFits ==
  ASSUME Inv, Points
  PROVE  Inv'
<1> DEFINE text == io.text
<1>1. Sees({"."})
  BY DEF Points
<1>2. PICK b : b = io.seek + 1
  OBVIOUS
<1>3. PICK one, two : one = Advanced(io) /\ two = Advanced(one)
  OBVIOUS
<1>4. /\ mode = "main" /\ text \in Seq(Bytes) /\ text[b] = "."
      /\ b \in 1 .. Len(text) /\ line = LineAt(text, b)
      /\ Sound(one) /\ one.text = text /\ one.seek = b
      /\ LineAt(text, b + 1) = line
  <2>1. /\ mode = "main" /\ text \in Seq(Bytes) /\ text[b] \in {"."}
        /\ b \in 1 .. Len(text) /\ line = LineAt(text, b)
        /\ Sound(one) /\ one.text = text /\ one.seek = b
        /\ text[b] # "nl" => LineAt(text, b + 1) = line
    BY <1>1, <1>2, <1>3, AtLoop
  <2> QED BY <2>1
<1>5. /\ b < Len(text) => Current(one) = {text[b + 1]} /\ ~IsEnd(one, 0)
      /\ b = Len(text) => Current(one) = {Nul}
  <2>1. text[b] \in Longer
    BY <1>4 DEF Longer
  <2> QED BY <1>4, <2>1, Behind
<1>6. \/ Current(one) # {"."} /\ Operator(one, <<".">>)
      \/ "." \in Current(one) /\ Current(two) # {"."} /\ Operator(two, <<".", ".">>)
      \/ "." \in Current(one) /\ "." \in Current(two)
           /\ Operator(Advanced(two), <<".", ".", ".">>)
  BY <1>3 DEF Points
<1>7. Nul # "."
  BY TextsAssumption DEF Bytes
<1>8. CASE Current(one) # {"."} /\ Operator(one, <<".">>)
  <2>1. b < Len(text) => text[b + 1] # "."
    BY <1>5, <1>8
  <2>2. text[b] \notin EqualOps
    BY <1>4 DEF EqualOps
  <2>3. Longest(text, b, b) /\ SubSeq(text, b, b) = <<text[b]>>
    BY <1>4, <2>1, <2>2, LongestOp1
  <2>4. <<".">> \in Ops
    BY DEF Ops
  <2> QED BY <1>2, <1>4, <1>8, <2>3, <2>4, OperatorFits
<1>9. ASSUME "." \in Current(one)
      PROVE  /\ b < Len(text) /\ text[b + 1] = "."
             /\ Sound(two) /\ two.text = text /\ two.seek = b + 1
             /\ LineAt(text, b + 2) = line
             /\ b + 1 < Len(text) => Current(two) = {text[b + 2]} /\ ~IsEnd(two, 0)
             /\ b + 1 = Len(text) => Current(two) = {Nul}
  <2>1. b < Len(text) /\ text[b + 1] = "." /\ ~IsEnd(one, 0)
    BY <1>4, <1>5, <1>7, <1>9
  <2>2. /\ Sound(two) /\ two.text = text /\ two.seek = b + 1
        /\ text[b + 1] # "nl" => LineAt(text, b + 2) = LineAt(text, b + 1)
    BY <1>3, <1>4, <2>1, Here
  <2>3. PICK r : r = b + 1
    OBVIOUS
  <2>4. r > 0 /\ r + 1 = b + 2 /\ text[r] \in Longer
    BY <1>4, <2>1, <2>3 DEF Longer
  <2>5. /\ r < Len(text) => Current(two) = {text[r + 1]} /\ ~IsEnd(two, 0)
        /\ r = Len(text) => Current(two) = {Nul}
    BY <2>1, <2>2, <2>3, <2>4, Behind
  <2> QED BY <1>4, <2>1, <2>2, <2>3, <2>4, <2>5
<1>10. CASE "." \in Current(one) /\ Current(two) # {"."} /\ Operator(two, <<".", ".">>)
  <2>1. b + 1 < Len(text) => text[b + 2] # "."
    BY <1>9, <1>10
  <2>2. b \in 1 .. Len(text) - 1 /\ b + 1 + 1 = b + 2
    BY <1>4, <1>9, <1>10
  <2>3. Longest(text, b, b + 1) /\ SubSeq(text, b, b + 1) = <<".", ".">>
    BY <1>4, <1>9, <1>10, <2>1, <2>2, LongestPoints2
  <2>4. <<".", ".">> \in Ops
    BY DEF Ops
  <2>5. LineAt(text, two.seek + 1) = line
    BY <1>9, <1>10, <2>2
  <2> QED BY <1>2, <1>4, <1>9, <1>10, <2>3, <2>4, <2>5, OperatorFits
<1>11. CASE "." \in Current(one) /\ "." \in Current(two)
              /\ Operator(Advanced(two), <<".", ".", ".">>)
  <2>1. PICK three : three = Advanced(two)
    OBVIOUS
  <2>2. b + 1 < Len(text) /\ text[b + 2] = "." /\ ~IsEnd(two, 0)
    <3>1. b + 1 = Len(text) \/ b + 1 < Len(text)
      BY <1>4, <1>9, <1>11
    <3> QED BY <1>7, <1>9, <1>11, <3>1
  <2>3. PICK r : r = b + 1
    OBVIOUS
  <2>4. r + 1 = b + 2 /\ r + 2 = b + 3 /\ b \in 1 .. Len(text) - 2 /\ b + 2 + 1 = b + 3
    BY <1>4, <2>2, <2>3
  <2>5. /\ Sound(three) /\ three.text = text /\ three.seek = r + 1
        /\ text[r + 1] # "nl" => LineAt(text, r + 2) = LineAt(text, r + 1)
    BY <1>9, <1>11, <2>1, <2>2, <2>3, Here
  <2>6. LineAt(text, three.seek + 1) = line /\ three.seek = b + 2
    BY <1>9, <1>11, <2>2, <2>4, <2>5
  <2>7. Longest(text, b, b + 2) /\ SubSeq(text, b, b + 2) = <<".", ".", ".">>
    BY <1>4, <1>9, <1>11, <2>2, <2>4, LongestPoints3
  <2>8. <<".", ".", ".">> \in Ops
    BY DEF Ops
  <2> QED BY <1>2, <1>4, <1>11, <2>1, <2>5, <2>6, <2>7, <2>8, OperatorFits
<1> QED BY <1>6, <1>8, <1>10, <1>11

LEMMA BlankFits ==
  ASSUME Inv, Blank
  PROVE  Inv'
<1> DEFINE text == io.text
<1>1. Sees({" "})
  BY DEF Blank
<1>2. PICK b : b = io.seek + 1
  OBVIOUS
<1>3. /\ mode = "main" /\ IsTokens(tokens) /\ text \in Seq(Bytes) /\ text[b] \in {" "}
      /\ b \in 1 .. Len(text) /\ At(text, b - 1, Unplaced(tokens))
      /\ Sound(Advanced(io)) /\ Advanced(io).text = text /\ Advanced(io).seek = b
      /\ text[b] # "nl" => LineAt(text, b + 1) = line
  BY <1>1, <1>2, AtLoop
<1>4. text[b] = " " /\ LineAt(text, b + 1) = line
  BY <1>3
<1>5. At(text, b, Unplaced(tokens))
  BY <1>3, <1>4, SpaceTaken
<1>6. Fits("main", Advanced(io), buf, quote, at, LineAt(text, b + 1), tokens)
  BY <1>3, <1>5, FitsMain
<1> QED BY <1>3, <1>4, <1>6 DEF Inv, Blank

LEMMA LineEndFits ==
  ASSUME Inv, LineEnd
  PROVE  Inv'
<1> DEFINE text == io.text
           us == Unplaced(tokens)
           t == Append(tokens, Token("end", << >>, line' - 1))
           ends == tokens # << >> /\ EndsStatement(Last(tokens))
<1>1. Sees({"nl", ";"})
  BY DEF LineEnd
<1>2. PICK b : b = io.seek + 1
  OBVIOUS
<1>3. /\ mode = "main" /\ IsTokens(tokens) /\ text \in Seq(Bytes) /\ text[b] \in {"nl", ";"}
      /\ b \in 1 .. Len(text) /\ At(text, b - 1, us)
      /\ Sound(Advanced(io)) /\ Advanced(io).text = text /\ Advanced(io).seek = b
      /\ text[b] = "nl" => LineAt(text, b + 1) = line + 1
      /\ text[b] # "nl" => LineAt(text, b + 1) = line
      /\ Current(io) = {text[b]}
  BY <1>1, <1>2, AtLoop
<1>4. /\ io' = Advanced(io) /\ mode' = "main" /\ buf' = buf /\ quote' = quote /\ at' = at
      /\ line' = IF text[b] = "nl" THEN line + 1 ELSE line
      /\ ends => tokens' = t
      /\ ~ends => tokens' = tokens
  BY <1>3 DEF LineEnd, Add
<1>5. line' = LineAt(text, b + 1)
  BY <1>3, <1>4
<1>6. At(text, b, IF us # << >> /\ EndsStatement(Last(us))
                  THEN Append(us, Token("end", << >>, 0)) ELSE us)
  BY <1>3, SpaceTaken
<1>7. (us # << >> /\ EndsStatement(Last(us))) <=> ends
  <2>1. IsTokens(tokens)
    BY <1>3
  <2>2. tokens = << >> <=> us = << >>
    BY <2>1, LastUnplaced
  <2>3. tokens # << >> => (EndsStatement(Last(us)) <=> EndsStatement(Last(tokens)))
    BY <2>1, LastUnplaced
  <2> HIDE DEF us
  <2> QED BY <2>2, <2>3
<1>8. IsTokens(t) /\ Unplaced(t) = Append(us, Token("end", << >>, 0))
  <2>1. PICK l : l = line' - 1
    OBVIOUS
  <2>2. PICK e : e = Token("end", << >>, l)
    OBVIOUS
  <2>3. /\ IsTokens(Append(tokens, e))
        /\ Unplaced(Append(tokens, e)) = Append(us, Token("end", << >>, 0))
    BY <1>3, <2>2, EndGrows
  <2> QED BY <2>1, <2>2, <2>3
<1>9. PICK n : n = tokens'
  OBVIOUS
<1>10. IsTokens(n) /\ At(text, b, Unplaced(n))
  <2>1. CASE ends
    <3> HIDE DEF t, us, ends
    <3> QED BY <1>4, <1>6, <1>7, <1>8, <1>9, <2>1
  <2>2. CASE ~ends
    BY <1>3, <1>4, <1>6, <1>7, <1>9, <2>2
  <2> QED BY <2>1, <2>2
<1>11. Fits("main", Advanced(io), buf, quote, at, LineAt(text, b + 1), n)
  BY <1>3, <1>10, FitsMain
<1> HIDE DEF t, ends
<1> QED BY <1>4, <1>5, <1>9, <1>11 DEF Inv

LEMMA NotAllowedFits ==
  ASSUME Inv, NotAllowed
  PROVE  Inv'
<1> DEFINE text == io.text
<1>1. Sees({"?", "\\"})
  BY DEF NotAllowed
<1>2. PICK b : b = io.seek + 1
  OBVIOUS
<1>3. /\ mode = "main" /\ Sound(io) /\ IsTokens(tokens) /\ text \in Seq(Bytes)
      /\ text[b] \in {"?", "\\"} /\ b \in 1 .. Len(text)
      /\ At(text, b - 1, Unplaced(tokens)) /\ line = LineAt(text, b)
  BY <1>1, <1>2, AtLoop
<1>4. Tokens(text) = Wrong
  <2>1. \A r \in b .. Len(text) : ~IsLexeme(SubSeq(text, b, r))
    BY <1>3, NoLexeme
  <2> QED BY <1>3, <2>1, RefuseNone
<1>5. Fits("error", io, buf, quote, at, LineAt(text, io.seek + 1), tokens)
  BY <1>3, <1>4, FitsError
<1> QED BY <1>2, <1>3, <1>5 DEF Inv, NotAllowed

LEMMA EndFits ==
  ASSUME Inv, End
  PROVE  Inv'
<1>1. mode = "main" /\ IsEnd(io, 0)
  BY DEF End
<1>2. Sound(io) /\ At(io.text, io.seek, Unplaced(tokens))
  BY <1>1, FitsHas DEF Inv
<1>3. io.seek = Len(io.text)
  BY <1>1, <1>2, SoundReads
<1>4. Fits("done", io, buf, quote, at, line, tokens)
  BY <1>2, <1>3 DEF Inv, Fits, Right
<1> QED BY <1>4 DEF Inv, End

LEMMA InvLexed ==
  ASSUME Inv
  PROVE  Lexed
<1>1. /\ mode = "done" => At(io.text, Len(io.text), Unplaced(tokens))
      /\ mode = "error" => Tokens(io.text) = Wrong
  BY FitsHas DEF Inv
<1>2. mode = "done" => Tokens(io.text) = Unplaced(tokens)
  BY <1>1 DEF At, Tokens
<1> QED BY <1>1, <1>2 DEF Lexed

(* A text is read as the tokens that it consists of, each with its line,   *)
(* and refused exactly if it does not consist of tokens.                   *)
THEOREM TextsAreRead ==
  ASSUME \A t \in Files : Len(t) <= Size /\ t[Len(t)] \notin Longer
  PROVE  Spec => []Lexed
<1>1. Init => Inv
  <2> SUFFICES ASSUME Init PROVE Inv
    OBVIOUS
  <2>1. PICK t \in Strings \cup Files :
          io = OpenS(t) \/ (io = Open(t) /\ Len(t) <= Size /\ t[Len(t)] \notin Longer)
    BY DEF Init
  <2>2. t \in Seq(Bytes) \ {<< >>}
    BY TextsAssumption
  <2>3. Sound(io) /\ io.text = t /\ io.seek = 0
    BY <2>1, <2>2, SoundAtFirst
  <2>4. tokens = << >> /\ mode = "main" /\ line = 1
    BY DEF Init
  <2>5. IsTokens(<< >>) /\ Unplaced(<< >>) = << >>
    <3>1. << >> \in Seq([k : {}, v : {}, line : {}])
      OBVIOUS
    <3>2. IsTokens(<< >>)
      BY <3>1 DEF IsTokens
    <3> QED BY <3>2, LastUnplaced
  <2>6. At(t, 0, << >>) /\ LineAt(t, 1) = 1
    BY <2>2, TakesSteps, LineCount DEF At, NothingTaken
  <2>7. Fits("main", io, buf, quote, at, LineAt(t, 0 + 1), << >>)
    BY <2>3, <2>5, <2>6, FitsMain
  <2> QED BY <2>4, <2>6, <2>7 DEF Inv
<1>2. Inv /\ [Next]_vars => Inv'
  <2>1. Inv /\ UNCHANGED vars => Inv'
    BY DEF Inv, vars
  <2> QED
    BY <2>1, CommentFits, CommentByteFits, StringBeginFits, EscapeFits, StringByteFits,
       StringEndFits, StringOpenFits, NumberBeginFits, ByteFits, FinishFits, PointsFits,
       SingleFits, WithEqualFits, LineEndFits, BlankFits, NotAllowedFits, EndFits DEF Next
<1>3. Inv => Lexed
  BY InvLexed
<1> QED BY <1>1, <1>2, <1>3, PTL DEF Spec

=============================================================================
