---------------------------- MODULE A2Io_proofs -----------------------------
(***************************************************************************)
(* Proofs about A2Io, for every set of texts and every size of the block.  *)
(***************************************************************************)
EXTENDS A2Io, TLAPS

(* What the cells of a block are, for a stream in order.                   *)
LEMMA BlockIsThere ==
  ASSUME NEW s, InOrder(s)
  PROVE  /\ 0 .. s.size - 1 \subseteq DOMAIN s.buf
         /\ DOMAIN s.buf \in {0 .. s.size - 1, 0 .. s.size}
         /\ \A i \in DOMAIN s.buf : s.buf[i] \in Bytes \cup {Nul, Unknown}
         /\ s.buf \in [DOMAIN s.buf -> Bytes \cup {Nul, Unknown}]
<1>1. s.size \in Nat \ {0} /\ s.buf \in Blocks(s.size)
  BY DEF InOrder
<1> QED BY <1>1 DEF Blocks

(* A new stream is in order, at the beginning of its text.                 *)
LEMMA OpenInOrder ==
  ASSUME NEW t \in Texts, NEW s, s = Open(t) \/ s = OpenS(t)
  PROVE  InOrder(s) /\ s.text = t /\ Position(s) = 0
<1>1. Len(t) \in Nat \ {0} /\ \A i \in 1 .. Len(t) : t[i] \in Bytes
  BY TextsAssumption
<1>2. CASE s = Open(t)
  <2>1. s.buf \in [0 .. Size - 1 -> Bytes \cup {Nul, Unknown}]
    BY <1>1, <1>2, SizeAssumption DEF Open
  <2> QED BY <1>1, <1>2, <2>1, SizeAssumption
          DEF Open, OfItsSize, InOrder, Blocks, Position, Least
<1>3. CASE s = OpenS(t)
  <2>1. s.buf \in [0 .. Len(t) -> Bytes \cup {Nul, Unknown}]
    BY <1>1, <1>3 DEF OpenS
  <2> QED BY <1>1, <1>3, <2>1 DEF OpenS, OfItsSize, InOrder, Blocks, Position, Least
<1> QED BY <1>2, <1>3

(* Where a block is loaded for a look of n bytes ahead, what was not read  *)
(* and the bytes behind it are the next block: it begins where the reader  *)
(* was, and the reader is where the last one ended.                        *)
LEMMA LoadInOrder ==
  ASSUME NEW s, InOrder(s), NEW n \in Nat, IsLoad(s, n)
  PROVE  /\ InOrder(Load(s))
         /\ Load(s).text = s.text
         /\ Load(s).size = s.size
         /\ s.size = Size
         /\ Load(s).rsize = Position(s)
         /\ Load(s).seek = s.size - s.seek
         /\ Position(Load(s)) = s.rsize + s.size
<1> DEFINE kept == s.size - s.seek
           m == Least(s.seek, Len(s.text) - s.from)
           b == [i \in DOMAIN s.buf |->
                  IF i < kept THEN s.buf[s.seek + i]
                  ELSE IF i < kept + m THEN s.text[s.from + i - kept + 1]
                  ELSE s.buf[i]]
<1>1. /\ s.size \in Nat \ {0} /\ s.rsize \in Nat /\ s.seek \in Nat /\ s.from \in Nat
      /\ s.text \in Texts /\ s.seek <= s.size
      /\ s \in [text : Texts, size : Nat \ {0}, rsize : Nat, seek : Nat, from : Nat,
                buf : Blocks(s.size)]
  BY DEF InOrder
<1>2. Len(s.text) \in Nat /\ \A i \in 1 .. Len(s.text) : s.text[i] \in Bytes
  BY <1>1, TextsAssumption
<1>3. s.seek + n >= s.size /\ s.rsize + s.seek + n < Len(s.text)
  BY <1>1, <1>2 DEF IsLoad, IsEnd, Position
<1>4. /\ s.from = s.rsize + s.size /\ s.from < Len(s.text)
      /\ s.size = Size
  <2>1. s.from = s.rsize + s.size /\ s.from < Len(s.text)
    BY <1>1, <1>2, <1>3 DEF InOrder, Least
  <2>2. OfItsSize(s) => s.size = Size
    BY <1>1, <1>2, <1>3 DEF OfItsSize
  <2> QED BY <2>1, <2>2 DEF InOrder
<1>5. /\ m \in Nat /\ m <= s.seek /\ m <= Len(s.text) - s.from
      /\ m = s.seek \/ m = Len(s.text) - s.from
  BY <1>1, <1>2, <1>4 DEF Least
<1>6. kept \in Nat /\ kept + s.seek = s.size
  BY <1>1
<1>7. DOMAIN s.buf \in {0 .. s.size - 1, 0 .. s.size}
  BY BlockIsThere
<1>8. /\ Load(s).text = s.text /\ Load(s).size = s.size
      /\ Load(s).rsize = s.rsize + s.seek /\ Load(s).seek = kept
      /\ Load(s).from = s.from + m /\ Load(s).buf = b
      /\ Load(s) = [text |-> Load(s).text, size |-> Load(s).size,
                    rsize |-> Load(s).rsize, seek |-> Load(s).seek,
                    from |-> Load(s).from, buf |-> Load(s).buf]
  BY DEF Load
<1> HIDE DEF kept, m
<1>9. ASSUME NEW i \in DOMAIN s.buf, i < kept
      PROVE  /\ s.seek + i \in 0 .. s.size - 1
             /\ s.seek + i \in DOMAIN s.buf
             /\ b[i] = s.buf[s.seek + i]
  <2>1. i \in Nat
    BY <1>1, <1>7
  <2>2. s.seek + i \in 0 .. s.size - 1
    BY <1>1, <1>6, <1>9, <2>1
  <2> QED BY <1>9, <2>2, BlockIsThere
<1>10. ASSUME NEW i \in DOMAIN s.buf, ~(i < kept), i < kept + m
       PROVE  /\ s.from + i - kept + 1 \in 1 .. Len(s.text)
              /\ b[i] = s.text[s.from + i - kept + 1]
  <2>1. i \in Nat /\ s.from \in Nat /\ Len(s.text) \in Nat
    BY <1>1, <1>2, <1>7
  <2> DEFINE j == i - kept
  <2>2. j \in Nat /\ j < m
    BY <1>5, <1>6, <1>10, <2>1
  <2>3. s.from + i - kept + 1 = s.from + j + 1
    BY <1>6, <2>1
  <2> HIDE DEF j
  <2>4. s.from + j + 1 \in 1 .. Len(s.text)
    BY <1>5, <2>1, <2>2
  <2> QED BY <1>10, <2>3, <2>4
<1>11. b \in [DOMAIN s.buf -> Bytes \cup {Nul, Unknown}]
  <2>1. ASSUME NEW i \in DOMAIN s.buf PROVE b[i] \in Bytes \cup {Nul, Unknown}
    <3>1. CASE i < kept
      BY <1>9, <3>1, BlockIsThere
    <3>2. CASE ~(i < kept) /\ i < kept + m
      BY <1>2, <1>10, <3>2
    <3>3. CASE ~(i < kept) /\ ~(i < kept + m)
      BY <3>3, BlockIsThere
    <3> QED BY <3>1, <3>2, <3>3
  <2> QED BY <2>1
<1>12. b \in Blocks(s.size)
  BY <1>7, <1>11 DEF Blocks
<1>13. ASSUME NEW i \in 0 .. s.size - 1, s.rsize + s.seek + i < Len(s.text)
       PROVE  b[i] = s.text[s.rsize + s.seek + i + 1]
  <2>1. i \in DOMAIN s.buf
    BY <1>1, <1>7
  <2>2. CASE i < kept
    <3>1. s.buf[s.seek + i] = s.text[s.rsize + (s.seek + i) + 1]
      <4>1. s.rsize + (s.seek + i) < Len(s.text)
        BY <1>1, <1>13
      <4> QED BY <1>9, <2>1, <2>2, <4>1 DEF InOrder
    <3>2. s.rsize + (s.seek + i) + 1 = s.rsize + s.seek + i + 1
      BY <1>1
    <3> QED BY <1>9, <2>1, <2>2, <3>1, <3>2
  <2>3. CASE ~(i < kept)
    <3>1. i < kept + m
      BY <1>1, <1>2, <1>4, <1>5, <1>6, <1>13
    <3>2. s.from + i - kept + 1 = s.rsize + s.seek + i + 1
      BY <1>1, <1>4, <1>6
    <3> QED BY <1>10, <2>1, <2>3, <3>1, <3>2
  <2> QED BY <2>2, <2>3
<1> HIDE DEF b
<1>14. InOrder(Load(s))
  <2>1. Load(s) \in [text : Texts, size : Nat \ {0}, rsize : Nat, seek : Nat, from : Nat,
                     buf : Blocks(Load(s).size)]
    BY <1>1, <1>5, <1>6, <1>8, <1>12
  <2>2. Load(s).seek <= Load(s).size
    BY <1>1, <1>6, <1>8
  <2>3. Position(Load(s)) <= Len(Load(s).text)
    BY <1>1, <1>2, <1>3, <1>6, <1>8 DEF Position
  <2>4. Load(s).from = Least(Load(s).rsize + Load(s).size, Len(Load(s).text))
    BY <1>1, <1>2, <1>4, <1>5, <1>8 DEF Least
  <2>5. \A i \in 0 .. Load(s).size - 1 :
          Load(s).rsize + i < Len(Load(s).text)
            => Load(s).buf[i] = Load(s).text[Load(s).rsize + i + 1]
    BY <1>8, <1>13
  <2>6. OfItsSize(Load(s))
    BY <1>4, <1>8 DEF OfItsSize
  <2> QED BY <2>1, <2>2, <2>3, <2>4, <2>5, <2>6 DEF InOrder
<1>15. Position(Load(s)) = s.rsize + s.size /\ Load(s).rsize = Position(s)
  BY <1>1, <1>6, <1>8 DEF Position
<1> QED BY <1>4, <1>8, <1>14, <1>15 DEF kept

(* The next byte is read: the stream stays in order.                       *)
LEMMA ReadInOrder ==
  ASSUME NEW s, InOrder(s)
  PROVE  /\ InOrder(Advanced(s))
         /\ Advanced(s).text = s.text
         /\ Position(s) < Len(s.text) =>
              /\ Position(Advanced(s)) = Position(s) + 1
              /\ ReadChar(s) = s.text[Position(s) + 1]
         /\ Position(s) >= Len(s.text) =>
              /\ Position(Advanced(s)) = Position(s)
              /\ ReadChar(s) = Nul
<1>1. /\ s.size \in Nat \ {0} /\ s.rsize \in Nat /\ s.seek \in Nat /\ s.seek <= s.size
      /\ s.text \in Texts /\ Len(s.text) \in Nat
  BY TextsAssumption DEF InOrder
<1>2. IsEnd(s, 0) <=> Position(s) >= Len(s.text)
  BY <1>1 DEF IsEnd, Position
<1>3. CASE IsEnd(s, 0)
  BY <1>1, <1>2, <1>3 DEF Advanced, ReadChar, Position
<1>4. CASE ~IsEnd(s, 0)
  <2> DEFINE r == Ready(s, 0)
  <2>1. /\ InOrder(r) /\ r.text = s.text /\ r.size = s.size
        /\ r.seek < r.size /\ Position(r) = Position(s)
    <3>1. CASE s.seek = s.size
      <4>1. r = Load(s) /\ IsLoad(s, 0)
        BY <1>1, <1>4, <3>1 DEF Ready, IsLoad
      <4>2. s.size - s.seek = 0 /\ Position(s) = s.rsize + s.size
        BY <1>1, <3>1 DEF Position
      <4> QED BY <1>1, <4>1, <4>2, LoadInOrder
    <3>2. CASE s.seek < s.size
      <4>1. r = s
        BY <1>1, <3>2 DEF Ready, IsLoad
      <4> QED BY <3>2, <4>1
    <3> QED BY <1>1, <3>1, <3>2
  <2>2. Advanced(s) = [r EXCEPT !.seek = @ + 1] /\ ReadChar(s) = BufAt(r, r.seek)
    BY <1>4 DEF Advanced, ReadChar
  <2> HIDE DEF r
  <2>3. /\ r.size \in Nat \ {0} /\ r.rsize \in Nat /\ r.seek \in Nat
        /\ r.text \in Texts /\ Len(r.text) \in Nat /\ Position(r) < Len(r.text)
    <3>1. r.size \in Nat \ {0} /\ r.rsize \in Nat /\ r.seek \in Nat /\ r.text \in Texts
      BY <2>1 DEF InOrder
    <3>2. Position(s) \in Nat /\ Position(s) < Len(s.text)
      BY <1>1, <1>2, <1>4 DEF Position
    <3> QED BY <1>1, <2>1, <3>1, <3>2
  <2>4. InOrder(Advanced(s)) /\ Advanced(s).text = s.text
    <3> DEFINE a == Advanced(s)
    <3>1. a \in [text : Texts, size : Nat \ {0}, rsize : Nat, seek : Nat, from : Nat,
                 buf : Blocks(r.size)]
      <4>1. r \in [text : Texts, size : Nat \ {0}, rsize : Nat, seek : Nat, from : Nat,
                   buf : Blocks(r.size)]
        BY <2>1 DEF InOrder
      <4> HIDE DEF InOrder
      <4> DEFINE bs == Blocks(r.size)
      <4>2. r \in [text : Texts, size : Nat \ {0}, rsize : Nat, seek : Nat, from : Nat,
                   buf : bs]
        BY <4>1
      <4>3. r.seek + 1 \in Nat
        BY <2>3
      <4> HIDE DEF bs
      <4>4. [r EXCEPT !.seek = @ + 1]
              \in [text : Texts, size : Nat \ {0}, rsize : Nat, seek : Nat, from : Nat,
                   buf : bs]
        BY <4>2, <4>3
      <4> QED BY <2>2, <4>4 DEF bs
    <3>2. /\ a.text = r.text /\ a.size = r.size /\ a.rsize = r.rsize
          /\ a.seek = r.seek + 1 /\ a.from = r.from /\ a.buf = r.buf
      BY <2>1, <2>2, <2>3 DEF InOrder
    <3> HIDE DEF a
    <3>3. InOrder(a) /\ a.text = s.text
      <4>1. OfItsSize(a)
        BY <2>1, <3>2 DEF InOrder, OfItsSize
      <4> QED BY <2>1, <2>3, <3>1, <3>2, <4>1 DEF InOrder, Position
    <3> QED BY <3>3 DEF a
  <2>5. Position(Advanced(s)) = Position(s) + 1
    BY <2>1, <2>2, <2>3 DEF InOrder, Position
  <2>6. ReadChar(s) = s.text[Position(s) + 1]
    <3>1. r.seek \in DOMAIN r.buf
      BY <2>1, <2>3, BlockIsThere
    <3>2. r.buf[r.seek] = r.text[r.rsize + r.seek + 1]
      <4>1. r.seek \in 0 .. r.size - 1 /\ r.rsize + r.seek < Len(r.text)
        BY <2>1, <2>3 DEF Position
      <4> QED BY <2>1, <4>1 DEF InOrder
    <3> QED BY <2>1, <2>2, <3>1, <3>2 DEF BufAt, Position
  <2> QED BY <1>2, <1>4, <2>4, <2>5, <2>6
<1> QED BY <1>3, <1>4

(* The block changes when a byte is read that is behind it.                *)
LEMMA ReadMovesOn ==
  ASSUME NEW s, InOrder(s)
  PROVE  IF Position(s) = s.rsize + s.size /\ Position(s) < Len(s.text)
         THEN /\ Advanced(s).rsize + Advanced(s).size \in Nat
              /\ Advanced(s).rsize + Advanced(s).size > Position(s)
         ELSE Advanced(s).rsize + Advanced(s).size = s.rsize + s.size
<1>1. /\ s.size \in Nat \ {0} /\ s.rsize \in Nat /\ s.seek \in Nat /\ s.seek <= s.size
      /\ Len(s.text) \in Nat
      /\ s \in [text : Texts, size : Nat \ {0}, rsize : Nat, seek : Nat, from : Nat,
                buf : Blocks(s.size)]
  BY TextsAssumption DEF InOrder
<1>2. s.seek = s.size <=> Position(s) = s.rsize + s.size
  BY <1>1 DEF Position
<1>3. IsLoad(s, 0) <=> Position(s) = s.rsize + s.size /\ Position(s) < Len(s.text)
  BY <1>1, <1>2 DEF IsLoad, IsEnd, Position
<1>4. CASE IsLoad(s, 0)
  <2>1. InOrder(Load(s)) /\ Load(s).rsize = Position(s) /\ Load(s).size = s.size
    BY <1>4, LoadInOrder
  <2>2. Advanced(s) = [Load(s) EXCEPT !.seek = @ + 1]
    BY <1>4 DEF Advanced, Ready, IsLoad
  <2>3. Advanced(s).rsize = Load(s).rsize /\ Advanced(s).size = Load(s).size
    BY <2>1, <2>2 DEF InOrder
  <2> QED BY <1>1, <1>3, <1>4, <2>1, <2>3 DEF Position
<1>5. CASE ~IsLoad(s, 0)
  <2>1. Advanced(s) = s \/ Advanced(s) = [s EXCEPT !.seek = @ + 1]
    BY <1>5 DEF Advanced, Ready
  <2>2. Advanced(s).rsize = s.rsize /\ Advanced(s).size = s.size
    BY <1>1, <2>1
  <2> QED BY <1>3, <1>5, <2>2
<1> QED BY <1>4, <1>5

(* A look ahead inside of the block leaves the stream alone.               *)
LEMMA LookInBlock ==
  ASSUME NEW s, InOrder(s), NEW n \in Nat, ~IsLoad(s, n), IsEnd(s, n) \/ n < s.size
  PROVE  /\ Looked(s, n) = s
         /\ MatchChar(s, n) = IF Position(s) + n < Len(s.text)
                              THEN s.text[Position(s) + n + 1] ELSE Nul
<1>1. /\ s.size \in Nat \ {0} /\ s.rsize \in Nat /\ s.seek \in Nat
      /\ s.text \in Texts /\ Len(s.text) \in Nat
  BY TextsAssumption DEF InOrder
<1>2. Ready(s, n) = s
  BY DEF Ready
<1>3. CASE IsEnd(s, n)
  BY <1>1, <1>3 DEF Looked, MatchChar, IsEnd, Position
<1>4. CASE ~IsEnd(s, n)
  <2>1. s.seek + n \in 0 .. s.size - 1 /\ Position(s) + n < Len(s.text)
    BY <1>1, <1>4 DEF IsLoad, IsEnd, Position
  <2>2. s.seek + n \in DOMAIN s.buf
    BY <1>1, <2>1, BlockIsThere
  <2>3. s.buf[s.seek + n] = s.text[s.rsize + (s.seek + n) + 1]
    BY <1>1, <2>1 DEF InOrder, Position
  <2>4. ~(n >= s.size)
    BY <1>1, <1>4
  <2>5. s.rsize + (s.seek + n) + 1 = Position(s) + n + 1
    BY <1>1 DEF Position
  <2>6. Looked(s, n) = s /\ MatchChar(s, n) = s.buf[s.seek + n]
    BY <1>2, <1>4, <2>2, <2>4 DEF Looked, MatchChar, BufAt
  <2> QED BY <2>1, <2>3, <2>5, <2>6
<1> QED BY <1>3, <1>4

(* A look ahead across the end of the block takes the reader there.        *)
LEMMA LookAcross ==
  ASSUME NEW s, InOrder(s), NEW n \in Nat, IsLoad(s, n), 2 * n < Size
  PROVE  /\ InOrder(Looked(s, n))
         /\ Looked(s, n).text = s.text
         /\ Position(Looked(s, n)) = s.rsize + s.size
         /\ Looked(s, n).rsize + Looked(s, n).size > s.rsize + s.size
         /\ Position(s) + n >= s.rsize + s.size
         /\ Position(s) + n < Len(s.text)
         /\ MatchChar(s, n) \in Bytes \cup {Nul, Unknown}
         /\ s.rsize + s.size + n < Len(s.text)
              => MatchChar(s, n) = s.text[s.rsize + s.size + n + 1]
<1> DEFINE r == Load(s)
<1>1. /\ s.size \in Nat \ {0} /\ s.rsize \in Nat /\ s.seek \in Nat /\ s.seek <= s.size
      /\ s.text \in Texts /\ Len(s.text) \in Nat
  BY TextsAssumption DEF InOrder
<1>2. s.seek + n >= s.size /\ ~IsEnd(s, n) /\ Position(s) + n < Len(s.text)
  BY <1>1 DEF IsLoad, IsEnd, Position
<1>3. /\ InOrder(r) /\ r.text = s.text /\ r.size = s.size /\ r.rsize = Position(s)
      /\ r.seek = s.size - s.seek /\ Position(r) = s.rsize + s.size
      /\ s.size = Size
  BY LoadInOrder
<1>4. Looked(s, n) = r /\ MatchChar(s, n) = BufAt(r, r.seek + n)
  BY <1>1, <1>2, <1>3 DEF Looked, MatchChar, Ready
<1> HIDE DEF r
<1>5. r.seek + n \in 0 .. r.size - 1 /\ s.seek > 0
  BY <1>1, <1>2, <1>3
<1>6. r.seek + n \in DOMAIN r.buf /\ r.buf[r.seek + n] \in Bytes \cup {Nul, Unknown}
  BY <1>3, <1>5, BlockIsThere
<1>7. MatchChar(s, n) = r.buf[r.seek + n]
  BY <1>4, <1>6 DEF BufAt
<1>8. r.rsize + (r.seek + n) = s.rsize + s.size + n
  BY <1>1, <1>3 DEF Position
<1>9. s.rsize + s.size + n < Len(s.text)
        => r.buf[r.seek + n] = s.text[s.rsize + s.size + n + 1]
  BY <1>3, <1>5, <1>8 DEF InOrder
<1> QED BY <1>1, <1>2, <1>3, <1>4, <1>5, <1>6, <1>7, <1>9 DEF Position

(* The current byte, while there is one in the block.                      *)
LEMMA CurrentByte ==
  ASSUME NEW s, InOrder(s)
  PROVE  /\ AtChar(s) \in Bytes \cup {Nul, Unknown}
         /\ Position(s) < s.rsize + s.size /\ Position(s) < Len(s.text)
              => AtChar(s) = s.text[Position(s) + 1]
<1>1. /\ s.size \in Nat \ {0} /\ s.rsize \in Nat /\ s.seek \in Nat
      /\ s.text \in Texts /\ Len(s.text) \in Nat
  BY TextsAssumption DEF InOrder
<1>2. AtChar(s) \in Bytes \cup {Nul, Unknown}
  BY BlockIsThere DEF AtChar, BufAt
<1>3. ASSUME Position(s) < s.rsize + s.size, Position(s) < Len(s.text)
      PROVE  AtChar(s) = s.text[Position(s) + 1]
  <2>1. s.seek \in 0 .. s.size - 1
    BY <1>1, <1>3 DEF Position
  <2>2. s.seek \in DOMAIN s.buf
    BY <2>1, BlockIsThere
  <2>3. s.buf[s.seek] = s.text[s.rsize + s.seek + 1]
    BY <1>3, <2>1 DEF InOrder, Position
  <2> QED BY <2>2, <2>3 DEF AtChar, BufAt, Position
<1> QED BY <1>2, <1>3

-----------------------------------------------------------------------------

(* The stream stays in order whatever is called, for texts and blocks of   *)
(* every length.                                                           *)
LEMMA StepsInOrder == Window /\ [Next]_vars => Window'
<1> SUFFICES ASSUME Window, [Next]_vars PROVE Window'
  OBVIOUS
<1>1. CASE Read
  BY <1>1, ReadInOrder DEF Read, Window
<1>2. CASE At
  BY <1>2 DEF At, Window
<1>3. CASE Match
  <2>1. PICK n \in 1 .. MaxLook : io' = Looked(io, n)
    BY <1>3 DEF Match
  <2>2. n \in Nat /\ io.size \in Nat
    BY <2>1, TextsAssumption DEF Window, InOrder
  <2>3. CASE io' = io
    BY <2>3 DEF Window
  <2>4. CASE io' # io
    <3>1. IsLoad(io, n) /\ io' = Load(io)
      BY <2>1, <2>4 DEF Looked, Ready
    <3> QED BY <2>2, <3>1, LoadInOrder DEF Window
  <2> QED BY <2>3, <2>4
<1>4. CASE UNCHANGED vars
  BY <1>4 DEF vars, Window
<1> QED BY <1>1, <1>2, <1>3, <1>4 DEF Next

(* The block in memory is always the part of the text that the counters    *)
(* say, in every order of calls, also where a look ahead moves bytes that  *)
(* were not read to the front of the next block.                           *)
THEOREM WindowHolds == Spec => []Window
<1>1. Init => Window
  BY OpenInOrder DEF Init, Window
<1> QED BY <1>1, StepsInOrder, PTL DEF Spec

(* Who reads gets what A2Chars says, whatever the order of the calls: the  *)
(* bytes one after the other, and of the blocks notices no more than the   *)
(* two things that A2Chars concedes.                                       *)
THEOREM ReadsTextHolds == Spec => ReadsText
<1> USE DEF Chars!vars
<1>1. Init => Chars!Init
  <2> SUFFICES ASSUME Init PROVE Chars!Init
    OBVIOUS
  <2>1. PICK t \in Texts : io = Open(t) \/ io = OpenS(t)
    BY DEF Init
  <2>2. InOrder(io) /\ io.text = t /\ Position(io) = 0
    BY <2>1, OpenInOrder
  <2>3. io.size \in Nat \ {0} /\ io.rsize \in Nat
    BY <2>2 DEF InOrder
  <2>4. io.rsize + io.size \in Nat \ {0}
    BY <2>3
  <2> QED BY <2>2, <2>4 DEF Init, Chars!Init
<1>2. Window /\ [Next]_vars => [Chars!Next]_(Chars!vars)
  <2> SUFFICES ASSUME Window, [Next]_vars PROVE [Chars!Next]_(Chars!vars)
    OBVIOUS
  <2> USE DEF Window
  <2>1. /\ io.size \in Nat \ {0} /\ io.rsize \in Nat /\ io.seek \in Nat
        /\ io.text \in Texts /\ Len(io.text) \in Nat /\ Position(io) \in Nat
    BY TextsAssumption DEF InOrder, Position
  <2>2. CASE Read
    <3>1. CASE Position(io) < Len(io.text)
      BY <2>1, <2>2, <3>1, ReadInOrder, ReadMovesOn DEF Read, Chars!Next, Chars!Read, Chars!Byte
    <3>2. CASE Position(io) >= Len(io.text)
      BY <2>1, <2>2, <3>2, ReadInOrder, ReadMovesOn DEF Read, Chars!Next, Chars!Read, Chars!Byte
    <3> QED BY <2>1, <3>1, <3>2
  <2>3. CASE At
    <3>1. got' = AtChar(io) /\ io' = io
      BY <2>3 DEF At
    <3>2. Position(io) < Len(io.text) =>
            Chars!Byte(Position(io) + 1) = io.text[Position(io) + 1]
      BY <2>1 DEF Chars!Byte
    <3>3. Chars!Current
      BY <3>1, <3>2, CurrentByte DEF Chars!Current, Chars!Anything
    <3> QED BY <3>3 DEF Chars!Next
  <2>4. CASE Match
    <3>1. PICK n \in 1 .. MaxLook : got' = MatchChar(io, n) /\ io' = Looked(io, n)
      BY <2>4 DEF Match
    <3>2. n \in Nat /\ 2 * n < Size
      BY <3>1, TextsAssumption, SizeAssumption
    <3>3. CASE IsLoad(io, n)
      <4>1. Position(io') \in Nat /\ io'.rsize + io'.size \in Nat
        <5>1. InOrder(io')
          BY <3>1, <3>2, <3>3, LookAcross
        <5> QED BY <5>1 DEF InOrder, Position
      <4>2. io.rsize + io.size + n < Len(io.text) =>
              Chars!Byte(io.rsize + io.size + n + 1) = io.text[io.rsize + io.size + n + 1]
        BY <2>1, <3>2 DEF Chars!Byte
      <4>3. Chars!Look(n)
        BY <2>1, <3>1, <3>2, <3>3, <4>1, <4>2, LookAcross DEF Chars!Look, Chars!Anything
      <4> QED BY <3>1, <4>3 DEF Chars!Next
    <3>4. CASE ~IsLoad(io, n)
      <4>1. IsEnd(io, n) \/ n < io.size
        <5>1. CASE io.size = Size
          BY <2>1, <3>2, <5>1, SizeAssumption
        <5>2. CASE io.rsize = 0 /\ io.size = Len(io.text)
          BY <2>1, <3>2, <5>2 DEF IsEnd, Position
        <5> QED BY <5>1, <5>2 DEF InOrder, OfItsSize
      <4>2. io' = io /\ got' = Chars!Byte(Position(io) + n + 1)
        BY <2>1, <3>1, <3>2, <3>4, <4>1, LookInBlock DEF Chars!Byte
      <4>3. \/ Position(io) + n < io.rsize + io.size
            \/ Position(io) + n >= Len(io.text)
        BY <2>1, <3>2, <3>4 DEF IsLoad, IsEnd, Position
      <4>4. Chars!Look(n)
        BY <4>2, <4>3 DEF Chars!Look
      <4> QED BY <3>1, <4>4 DEF Chars!Next
    <3> QED BY <3>3, <3>4
  <2>5. CASE UNCHANGED vars
    BY <2>5 DEF vars
  <2> QED BY <2>2, <2>3, <2>4, <2>5 DEF Next
<1>3. Spec => []Window
  BY WindowHolds
<1> QED BY <1>1, <1>2, <1>3, PTL DEF Spec, ReadsText, Chars!Spec

=============================================================================
