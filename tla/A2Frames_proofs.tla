-------------------------- MODULE A2Frames_proofs ---------------------------
(***************************************************************************)
(* Proofs about the calls, errors and captured variables of A2Frames, for  *)
(* any number of closures, variables and registers and any length of the   *)
(* call chain.                                                             *)
(*                                                                         *)
(* The first part needs nothing but the call chain and the long jumps,     *)
(* and holds whatever faults have struck: the frames are laid out one      *)
(* above the other within the stack in use (FramesFit), and an error is    *)
(* caught where it should be (JumpTargets).                                *)
(*                                                                         *)
(* The second part is about captured variables, until a fault strikes:     *)
(* while a closure refers to a register it is noted with its owner, the    *)
(* newest call of which has the variable (Found); when that call ends, the *)
(* object that takes over the variable is a new one, and so closures share *)
(* an object exactly if they have captured the same variable               *)
(* (ClosedAlike).  A fault that has struck stays noted, so that a step     *)
(* behind which none has is one from a state in which none had.            *)
(*                                                                         *)
(* The third part concludes that every step is one of A2Cells, by what     *)
(* Content says of a variable: its register as long as its call runs, then *)
(* the object of anybody who has captured it (ContentIs).                  *)
(***************************************************************************)
EXTENDS A2Frames, FiniteSetTheorems, TLAPS

LEMMA LocalsBound == /\ Regs \in Nat /\ Locals \in Nat /\ MaxFrames \in Nat
                     /\ 0 < Locals /\ Locals < Regs /\ 0 < MaxFrames
BY RegsAssumption

-----------------------------------------------------------------------------
(* The layout of the call chain.                                           *)

JumpType == [depth : 1 .. MaxFrames, extra : {0, 1}]

FunctionsTo(fr, k) == {i \in 1 .. k : IsFunction(fr[i])}

(* A frame begins within the registers of those below it, and behind the   *)
(* variables of each of them.                                              *)
LaidOut(fr) ==
  /\ \A i \in DOMAIN fr :
       fr[i].base <= Regs * Cardinality(FunctionsTo(fr, i - 1))
  /\ \A i, j \in DOMAIN fr :
       i < j => /\ fr[i].base <= fr[j].base
                /\ IsFunction(fr[i]) => fr[i].base + Locals <= fr[j].base

(* Calls of functions, and they only, have identities, all different.      *)
Identified(fr) ==
  /\ \A i \in DOMAIN fr : fr[i].act = NoActivation <=> ~IsFunction(fr[i])
  /\ \A i, j \in DOMAIN fr : IsFunction(fr[i]) /\ fr[i].act = fr[j].act => i = j

(* C code that no function called, or C code did, is the frame without a   *)
(* closure of a2_vm_pcall: a function is above it.                         *)
Paired(fr) ==
  \A i \in DOMAIN fr :
    ~IsFunction(fr[i]) /\ (i = 1 \/ ~IsFunction(fr[i - 1])) =>
      i + 1 \in DOMAIN fr /\ IsFunction(fr[i + 1])

BegunAt(fr, i) == IsFunction(fr[i]) /\ (i = 1 \/ ~IsFunction(fr[i - 1]))

(* The chain of long jumps js is the one of the calls fr.                  *)
Catches(fr, js) ==
  /\ \A j \in DOMAIN js : js[j].depth \in DOMAIN fr /\ BegunAt(fr, js[j].depth)
  /\ \A i \in DOMAIN fr : BegunAt(fr, i) => \E j \in DOMAIN js : js[j].depth = i
  /\ \A j, k \in DOMAIN js : j < k => js[j].depth < js[k].depth
  /\ \A j \in DOMAIN js :
       LET d == js[j].depth
       IN  js[j].extra = 1 <=> d > 1 /\ (d = 2 \/ ~IsFunction(fr[d - 2]))

WellCalled(fr, js) ==
  /\ fr \in Seq(FrameType) /\ Len(fr) <= MaxFrames
  /\ js \in Seq(JumpType)
  /\ LaidOut(fr)
  /\ Identified(fr)
  /\ Paired(fr)
  /\ Catches(fr, js)

(* The functions among the first k calls, counted.                         *)
LEMMA CountFunctions ==
  ASSUME NEW fr, NEW k \in Nat
  PROVE  /\ IsFiniteSet(FunctionsTo(fr, k))
         /\ Cardinality(FunctionsTo(fr, k)) \in 0 .. k
         /\ k > 0 => Cardinality(FunctionsTo(fr, k)) =
                       Cardinality(FunctionsTo(fr, k - 1))
                         + (IF IsFunction(fr[k]) THEN 1 ELSE 0)
<1>1. ASSUME NEW m \in Nat
      PROVE  /\ IsFiniteSet(FunctionsTo(fr, m))
             /\ Cardinality(FunctionsTo(fr, m)) \in 0 .. m
  <2>1. IsFiniteSet(1 .. m) /\ Cardinality(1 .. m) = m
    BY FS_Interval
  <2>2. FunctionsTo(fr, m) \subseteq 1 .. m
    BY DEF FunctionsTo
  <2>3. /\ IsFiniteSet(FunctionsTo(fr, m))
        /\ Cardinality(FunctionsTo(fr, m)) <= m
    BY <2>1, <2>2, FS_Subset
  <2>4. Cardinality(FunctionsTo(fr, m)) \in Nat
    BY <2>3, FS_CardinalityType
  <2> QED BY <2>3, <2>4
<1>2. ASSUME k > 0
      PROVE  Cardinality(FunctionsTo(fr, k)) =
               Cardinality(FunctionsTo(fr, k - 1))
                 + (IF IsFunction(fr[k]) THEN 1 ELSE 0)
  <2> DEFINE S == FunctionsTo(fr, k - 1)
  <2>1. IsFiniteSet(S) /\ Cardinality(S) \in Nat
    BY <1>1, <1>2
  <2>2. k \notin S /\ k \in 1 .. k
    BY <1>2 DEF FunctionsTo
  <2>3. CASE IsFunction(fr[k])
    <3>1. ASSUME NEW x PROVE x \in FunctionsTo(fr, k) <=> x \in S \cup {k}
      BY <1>2, <2>3 DEF FunctionsTo
    <3>2. FunctionsTo(fr, k) = S \cup {k}
      BY <3>1
    <3>3. Cardinality(S \cup {k}) = Cardinality(S) + 1
      BY <2>1, <2>2, FS_AddElement
    <3> QED BY <2>3, <3>2, <3>3
  <2>4. CASE ~IsFunction(fr[k])
    <3>1. ASSUME NEW x PROVE x \in FunctionsTo(fr, k) <=> x \in S
      BY <1>2, <2>4 DEF FunctionsTo
    <3>2. FunctionsTo(fr, k) = S
      BY <3>1
    <3> QED BY <2>1, <2>4, <3>2
  <2> QED BY <2>3, <2>4
<1> QED BY <1>1, <1>2

(* The registers of one more function.                                     *)
LEMMA TimesRegs ==
  ASSUME NEW m \in Nat, NEW n \in Nat
  PROVE  /\ Regs * m \in Nat
         /\ Regs * (m + 1) = Regs * m + Regs
         /\ m <= n => Regs * m <= Regs * n
BY LocalsBound

(* The fields of a frame.                                                  *)
LEMMA FrameFields ==
  \A f \in FrameType : /\ f.base \in Nat
                       /\ f.cls \in Closures \cup {NoClosure}
                       /\ f.act \in Activations \cup {NoActivation}
<1> SUFFICES ASSUME NEW f \in FrameType
             PROVE  /\ f.base \in Nat
                    /\ f.cls \in Closures \cup {NoClosure}
                    /\ f.act \in Activations \cup {NoActivation}
  OBVIOUS
<1>1. /\ f.base \in 0 .. Regs * (MaxFrames - 1)
      /\ f.cls \in Closures \cup {NoClosure}
      /\ f.act \in Activations \cup {NoActivation}
  BY DEF FrameType
<1>2. Regs * (MaxFrames - 1) \in Nat
  BY LocalsBound, TimesRegs
<1> QED BY <1>1, <1>2

(* Where a frame f may begin on top of fr.                                 *)
OnTop(fr, f) ==
  /\ fr = << >> => f.base = 0
  /\ fr # << >> =>
       LET t == fr[Len(fr)]
       IN  /\ IsFunction(t) => /\ t.base + Locals <= f.base
                               /\ f.base <= t.base + Regs
           /\ ~IsFunction(t) => f.base = t.base

(* The identity it may have.                                               *)
NewIdentity(fr, f) ==
  IF IsFunction(f) THEN f.act \in Activations /\ \A i \in DOMAIN fr : fr[i].act # f.act
  ELSE f.act = NoActivation

(* One frame more is laid out well if it begins as up_stack_frame says.    *)
LEMMA AppendFrame ==
  ASSUME NEW fr \in Seq(FrameType), Len(fr) < MaxFrames,
         LaidOut(fr), Identified(fr),
         NEW f \in [cls : Closures \cup {NoClosure}, base : Nat,
                    act : Activations \cup {NoActivation}],
         OnTop(fr, f), NewIdentity(fr, f)
  PROVE  /\ Append(fr, f) \in Seq(FrameType)
         /\ LaidOut(Append(fr, f))
         /\ Identified(Append(fr, f))
<1> DEFINE n == Len(fr)
           g == Append(fr, f)
           C(k) == Cardinality(FunctionsTo(fr, k))
<1>1. /\ n \in Nat /\ DOMAIN fr = 1 .. n
      /\ \A i \in 1 .. n : fr[i] \in FrameType /\ fr[i].base \in Nat
  <2>1. n \in Nat /\ DOMAIN fr = 1 .. n /\ \A i \in 1 .. n : fr[i] \in FrameType
    OBVIOUS
  <2> QED BY <2>1, FrameFields
<1>2. f.base <= Regs * C(n) /\ C(n) \in 0 .. n
  <2>1. CASE n = 0
    <3>1. fr = << >> /\ C(n) \in 0 .. n
      BY <2>1, CountFunctions
    <3> QED BY <3>1, TimesRegs DEF OnTop
  <2>2. CASE n > 0
    <3>1. n \in 1 .. n /\ n - 1 \in Nat /\ fr # << >>
      BY <1>1, <2>2
    <3>2. /\ C(n) \in 0 .. n /\ C(n - 1) \in 0 .. n - 1
          /\ C(n) = C(n - 1) + (IF IsFunction(fr[n]) THEN 1 ELSE 0)
      BY <1>1, <2>2, <3>1, CountFunctions
    <3>3. fr[n].base <= Regs * C(n - 1) /\ fr[n].base \in Nat
      BY <1>1, <3>1 DEF LaidOut
    <3>4. CASE IsFunction(fr[n])
      <4>1. Regs * (C(n - 1) + 1) = Regs * C(n - 1) + Regs /\ Regs * C(n - 1) \in Nat
        BY <3>2, TimesRegs
      <4>2. f.base <= fr[n].base + Regs
        BY <3>1, <3>4 DEF OnTop
      <4>3. C(n) = C(n - 1) + 1
        BY <3>2, <3>4
      <4> HIDE DEF C, n
      <4> QED BY <3>2, <3>3, <4>1, <4>2, <4>3, LocalsBound
    <3>5. CASE ~IsFunction(fr[n])
      <4>1. f.base = fr[n].base
        BY <3>1, <3>5 DEF OnTop
      <4>2. C(n) = C(n - 1)
        BY <3>2, <3>5
      <4> HIDE DEF C, n
      <4> QED BY <3>2, <3>3, <4>1, <4>2
    <3> QED BY <3>4, <3>5
  <2> QED BY <1>1, <2>1, <2>2
<1>3. f \in FrameType
  <2>1. C(n) \in Nat /\ C(n) <= MaxFrames - 1 /\ MaxFrames - 1 \in Nat
    BY <1>1, <1>2, LocalsBound
  <2>2. Regs * C(n) <= Regs * (MaxFrames - 1) /\ Regs * C(n) \in Nat
        /\ Regs * (MaxFrames - 1) \in Nat
    BY <2>1, TimesRegs
  <2>3. f.base \in 0 .. Regs * (MaxFrames - 1)
    BY <1>2, <2>2
  <2> HIDE DEF C, n
  <2> QED BY <2>3 DEF FrameType
<1>4. /\ g \in Seq(FrameType) /\ DOMAIN g = 1 .. n + 1
      /\ g[n + 1] = f /\ \A i \in 1 .. n : g[i] = fr[i]
  BY <1>1, <1>3
<1>5. ASSUME NEW k \in 0 .. n PROVE FunctionsTo(g, k) = FunctionsTo(fr, k)
  BY <1>1, <1>4 DEF FunctionsTo
<1> HIDE DEF g
<1>6. LaidOut(g)
  <2>1. ASSUME NEW i \in 1 .. n + 1
        PROVE  g[i].base <= Regs * Cardinality(FunctionsTo(g, i - 1))
    <3>1. i - 1 \in 0 .. n
      BY <1>1
    <3>2. FunctionsTo(g, i - 1) = FunctionsTo(fr, i - 1)
      BY <1>5, <3>1
    <3>3. CASE i = n + 1
      <4>1. i - 1 = n /\ g[i] = f
        BY <1>1, <1>4, <3>3
      <4> QED BY <1>2, <3>2, <4>1
    <3>4. CASE i # n + 1
      <4>1. i \in 1 .. n
        BY <1>1, <3>4
      <4> QED BY <1>1, <1>4, <3>2, <4>1 DEF LaidOut
    <3> QED BY <3>3, <3>4
  <2>2. ASSUME NEW i \in 1 .. n
        PROVE  /\ fr[i].base <= f.base
               /\ IsFunction(fr[i]) => fr[i].base + Locals <= f.base
    <3>1. n \in 1 .. n /\ fr # << >> /\ fr[i].base \in Nat /\ fr[n].base \in Nat
          /\ f.base \in Nat
      BY <1>1
    <3>2. /\ fr[n].base <= f.base
          /\ IsFunction(fr[n]) => fr[n].base + Locals <= f.base
      BY <3>1, LocalsBound DEF OnTop
    <3>3. i < n => /\ fr[i].base <= fr[n].base
                   /\ IsFunction(fr[i]) => fr[i].base + Locals <= fr[n].base
      BY <1>1, <3>1 DEF LaidOut
    <3>4. CASE i = n
      BY <3>2, <3>4
    <3>5. CASE i # n
      <4> HIDE DEF n
      <4>1. i < n
        BY <1>1, <3>5
      <4> QED BY <3>1, <3>2, <3>3, <4>1, LocalsBound
    <3> QED BY <3>4, <3>5
  <2>3. ASSUME NEW i \in 1 .. n + 1, NEW j \in 1 .. n + 1, i < j
        PROVE  /\ g[i].base <= g[j].base
               /\ IsFunction(g[i]) => g[i].base + Locals <= g[j].base
    <3>1. i \in 1 .. n /\ g[i] = fr[i]
      BY <1>1, <1>4, <2>3
    <3>2. CASE j = n + 1
      BY <1>4, <2>2, <3>1, <3>2
    <3>3. CASE j # n + 1
      <4>1. j \in 1 .. n /\ g[j] = fr[j]
        BY <1>1, <1>4, <3>3
      <4> QED BY <1>1, <2>3, <3>1, <4>1 DEF LaidOut
    <3> QED BY <3>2, <3>3
  <2> QED BY <1>4, <2>1, <2>3 DEF LaidOut
<1>7. Identified(g)
  <2>1. \A i \in 1 .. n + 1 : i = n + 1 \/ i \in 1 .. n
    BY <1>1
  <2>2. f.act = NoActivation <=> ~IsFunction(f)
    BY NoneAssumption DEF NewIdentity
  <2> QED BY <1>1, <1>4, <2>1, <2>2 DEF Identified, NewIdentity
<1> QED BY <1>4, <1>6, <1>7 DEF g

(* The beginning of a chain is laid out like the chain.                    *)
LEMMA DropFrames ==
  ASSUME NEW fr \in Seq(FrameType), NEW m \in 0 .. Len(fr),
         LaidOut(fr), Identified(fr)
  PROVE  LET g == SubSeq(fr, 1, m)
         IN  /\ g \in Seq(FrameType) /\ Len(g) = m /\ DOMAIN g = 1 .. m
             /\ \A i \in 1 .. m : g[i] = fr[i]
             /\ LaidOut(g)
             /\ Identified(g)
<1> DEFINE g == SubSeq(fr, 1, m)
<1>1. /\ g \in Seq(FrameType) /\ Len(g) = m /\ DOMAIN g = 1 .. m
      /\ \A i \in 1 .. m : g[i] = fr[i]
  OBVIOUS
<1>2. DOMAIN fr = 1 .. Len(fr) /\ 1 .. m \subseteq 1 .. Len(fr)
  OBVIOUS
<1>3. ASSUME NEW i \in 1 .. m PROVE FunctionsTo(g, i - 1) = FunctionsTo(fr, i - 1)
  <2>1. \A x \in 1 .. i - 1 : x \in 1 .. m
    OBVIOUS
  <2> HIDE DEF g
  <2> QED BY <1>1, <2>1 DEF FunctionsTo
<1> HIDE DEF g
<1>4. LaidOut(g)
  BY <1>1, <1>2, <1>3 DEF LaidOut
<1>5. Identified(g)
  BY <1>1, <1>2 DEF Identified
<1> QED BY <1>1, <1>4, <1>5 DEF g

(* The sequence of an added element.                                       *)
LEMMA AppendIs ==
  ASSUME NEW S, NEW q \in Seq(S), NEW x
  PROVE  /\ Len(Append(q, x)) = Len(q) + 1
         /\ DOMAIN Append(q, x) = 1 .. Len(q) + 1
         /\ DOMAIN q = 1 .. Len(q) /\ Len(q) \in Nat
         /\ \A i \in 1 .. Len(q) : Append(q, x)[i] = q[i] /\ q[i] \in S
         /\ Append(q, x)[Len(q) + 1] = x
         /\ x \in S => Append(q, x) \in Seq(S)
OBVIOUS

(* A function calls: what it calls is caught where the function is.        *)
LEMMA CallFrame ==
  ASSUME NEW fr, NEW js, WellCalled(fr, js), Len(fr) < MaxFrames,
         fr # << >>, IsFunction(fr[Len(fr)]),
         NEW f \in [cls : Closures \cup {NoClosure}, base : Nat,
                    act : Activations \cup {NoActivation}],
         OnTop(fr, f), NewIdentity(fr, f)
  PROVE  WellCalled(Append(fr, f), js)
<1> DEFINE n == Len(fr)
           g == Append(fr, f)
<1>1. /\ fr \in Seq(FrameType) /\ js \in Seq(JumpType)
      /\ LaidOut(fr) /\ Identified(fr) /\ Paired(fr) /\ Catches(fr, js)
  BY DEF WellCalled
<1>2. g \in Seq(FrameType) /\ LaidOut(g) /\ Identified(g)
  BY <1>1, AppendFrame
<1>3. /\ n \in Nat \ {0} /\ Len(g) = n + 1 /\ DOMAIN g = 1 .. n + 1
      /\ DOMAIN fr = 1 .. n /\ g[n + 1] = f /\ \A i \in 1 .. n : g[i] = fr[i]
  BY <1>1, AppendIs
<1>4. IsFunction(fr[n]) /\ n < MaxFrames
  OBVIOUS
<1> HIDE DEF g, n
<1>5. ASSUME NEW i \in 1 .. n
      PROVE  /\ BegunAt(g, i) <=> BegunAt(fr, i)
             /\ i > 1 => i - 1 \in 1 .. n /\ g[i - 1] = fr[i - 1]
             /\ i > 2 => i - 2 \in 1 .. n /\ g[i - 2] = fr[i - 2]
  <2>1. i > 1 => i - 1 \in 1 .. n /\ g[i - 1] = fr[i - 1]
    BY <1>3
  <2>2. i > 2 => i - 2 \in 1 .. n /\ g[i - 2] = fr[i - 2]
    BY <1>3
  <2>3. i = 1 \/ i > 1
    OBVIOUS
  <2> QED BY <1>3, <2>1, <2>2, <2>3 DEF BegunAt
<1>6. ~BegunAt(g, n + 1) /\ n + 1 # 1 /\ g[n + 1 - 1] = fr[n]
  BY <1>3, <1>4 DEF BegunAt
<1>7. \A i \in 1 .. n + 1 : i \in 1 .. n \/ i = n + 1
  BY <1>3
<1>8. Paired(g)
  <2> SUFFICES ASSUME NEW i \in 1 .. n + 1,
                      ~IsFunction(g[i]) /\ (i = 1 \/ ~IsFunction(g[i - 1]))
               PROVE  i + 1 \in 1 .. n + 1 /\ IsFunction(g[i + 1])
    BY <1>3 DEF Paired
  <2>1. i \in 1 .. n
    <3> SUFFICES ASSUME i = n + 1 PROVE FALSE
      BY <1>7
    <3>1. ~IsFunction(g[n + 1 - 1])
      BY <1>3, <1>6
    <3> QED BY <1>4, <1>6, <3>1
  <2>2. ~IsFunction(fr[i]) /\ (i = 1 \/ ~IsFunction(fr[i - 1]))
    BY <1>3, <1>5, <2>1
  <2>3. i + 1 \in 1 .. n /\ IsFunction(fr[i + 1])
    BY <1>1, <1>3, <2>1, <2>2 DEF Paired
  <2> QED BY <1>3, <2>3
<1>9. Catches(g, js)
  <2>1. \A j \in DOMAIN js : js[j].depth \in 1 .. n /\ BegunAt(g, js[j].depth)
    BY <1>1, <1>3, <1>5 DEF Catches
  <2>2. \A i \in 1 .. n + 1 : BegunAt(g, i) => \E j \in DOMAIN js : js[j].depth = i
    BY <1>1, <1>3, <1>5, <1>6, <1>7 DEF Catches
  <2>3. \A j, k \in DOMAIN js : j < k => js[j].depth < js[k].depth
    BY <1>1 DEF Catches
  <2>4. ASSUME NEW j \in DOMAIN js
        PROVE  LET d == js[j].depth
               IN  js[j].extra = 1 <=> d > 1 /\ (d = 2 \/ ~IsFunction(g[d - 2]))
    <3> DEFINE d == js[j].depth
    <3>1. d \in 1 .. n
      BY <2>1
    <3>2. js[j].extra = 1 <=> d > 1 /\ (d = 2 \/ ~IsFunction(fr[d - 2]))
      BY <1>1 DEF Catches
    <3>3. d > 1 => d = 2 \/ g[d - 2] = fr[d - 2]
      BY <1>5, <3>1
    <3> QED BY <3>2, <3>3
  <2>5. 1 .. n \subseteq 1 .. n + 1
    BY <1>3
  <2> QED BY <1>3, <2>1, <2>2, <2>3, <2>4, <2>5 DEF Catches
<1> QED BY <1>1, <1>2, <1>3, <1>4, <1>8, <1>9, LocalsBound DEF WellCalled, g, n

(* As Paired, but for the last call.                                       *)
PairedBelow(fr) ==
  \A i \in DOMAIN fr :
    /\ i < Len(fr)
    /\ ~IsFunction(fr[i]) /\ (i = 1 \/ ~IsFunction(fr[i - 1]))
    => IsFunction(fr[i + 1])

(* C code, or the host, runs a function under protection.                  *)
LEMMA RunFrame ==
  ASSUME NEW fr \in Seq(FrameType), NEW js \in Seq(JumpType),
         Len(fr) < MaxFrames, LaidOut(fr), Identified(fr), PairedBelow(fr),
         Catches(fr, js), fr = << >> \/ ~IsFunction(fr[Len(fr)]),
         NEW f \in [cls : Closures, base : Nat, act : Activations],
         OnTop(fr, f), NewIdentity(fr, f), NEW e \in {0, 1},
         e = 1 <=> /\ Len(fr) > 0
                   /\ Len(fr) = 1 \/ ~IsFunction(fr[Len(fr) - 1])
  PROVE  WellCalled(Append(fr, f), Append(js, [depth |-> Len(fr) + 1, extra |-> e]))
<1> DEFINE n == Len(fr)
           g == Append(fr, f)
           jp == [depth |-> n + 1, extra |-> e]
           m == Len(js)
           gs == Append(js, jp)
<1>1. g \in Seq(FrameType) /\ LaidOut(g) /\ Identified(g)
  <2>1. f \in [cls : Closures \cup {NoClosure}, base : Nat,
               act : Activations \cup {NoActivation}]
    OBVIOUS
  <2> QED BY <2>1, AppendFrame
<1>2. /\ n \in Nat /\ Len(g) = n + 1 /\ DOMAIN g = 1 .. n + 1
      /\ DOMAIN fr = 1 .. n /\ g[n + 1] = f /\ \A i \in 1 .. n : g[i] = fr[i]
  BY <1>1, AppendIs
<1>3. /\ n < MaxFrames /\ IsFunction(f) /\ (n > 0 => ~IsFunction(fr[n]))
      /\ e = 1 <=> n > 0 /\ (n = 1 \/ ~IsFunction(fr[n - 1]))
  BY NoneAssumption DEF IsFunction
<1>4. jp \in JumpType /\ jp.depth = n + 1 /\ jp.extra = e
  <2>1. n + 1 \in 1 .. MaxFrames
    BY <1>2, <1>3, LocalsBound
  <2> HIDE DEF n
  <2> QED BY <2>1 DEF JumpType
<1> HIDE DEF jp
<1>5. /\ gs \in Seq(JumpType) /\ m \in Nat /\ DOMAIN gs = 1 .. m + 1
      /\ DOMAIN js = 1 .. m /\ gs[m + 1] = jp /\ \A j \in 1 .. m : gs[j] = js[j]
  BY <1>4, AppendIs
<1>6. PairedBelow(fr) /\ Catches(fr, js)
  OBVIOUS
<1>8. PairedBelow(fr) <=>
        \A i \in 1 .. n :
          /\ i < n
          /\ ~IsFunction(fr[i]) /\ (i = 1 \/ ~IsFunction(fr[i - 1]))
          => IsFunction(fr[i + 1])
  BY <1>2 DEF PairedBelow
<1> HIDE DEF g, n, m, gs
<1>7. \A i \in 1 .. n : i < n <=> i # n
  BY <1>2
<1>9. ASSUME NEW i \in 1 .. n
      PROVE  /\ BegunAt(g, i) <=> BegunAt(fr, i)
             /\ i > 1 => i - 1 \in 1 .. n /\ g[i - 1] = fr[i - 1]
             /\ i > 2 => i - 2 \in 1 .. n /\ g[i - 2] = fr[i - 2]
  <2>1. i > 1 => i - 1 \in 1 .. n /\ g[i - 1] = fr[i - 1]
    BY <1>2
  <2>2. i > 2 => i - 2 \in 1 .. n /\ g[i - 2] = fr[i - 2]
    BY <1>2
  <2>3. i = 1 \/ i > 1
    OBVIOUS
  <2> QED BY <1>2, <2>1, <2>2, <2>3 DEF BegunAt
<1>10. n > 0 => g[n + 1 - 1] = fr[n]
  BY <1>2
<1>11. BegunAt(g, n + 1)
  <2>1. CASE n = 0
    BY <1>2, <1>3, <2>1 DEF BegunAt
  <2>2. CASE n > 0
    BY <1>2, <1>3, <1>10, <2>2 DEF BegunAt
  <2> QED BY <1>2, <2>1, <2>2
<1>12. \A i \in 1 .. n + 1 : i \in 1 .. n \/ i = n + 1
  BY <1>2
<1>13. Paired(g)
  <2> SUFFICES ASSUME NEW i \in 1 .. n + 1,
                      ~IsFunction(g[i]) /\ (i = 1 \/ ~IsFunction(g[i - 1]))
               PROVE  i + 1 \in 1 .. n + 1 /\ IsFunction(g[i + 1])
    BY <1>2 DEF Paired
  <2>1. i \in 1 .. n
    BY <1>2, <1>3, <1>12
  <2>2. ~IsFunction(fr[i]) /\ (i = 1 \/ ~IsFunction(fr[i - 1]))
    BY <1>2, <1>9, <2>1
  <2>3. CASE i = n
    BY <1>2, <1>3, <2>3
  <2>4. CASE i # n
    <3>1. IsFunction(fr[i + 1])
      BY <1>6, <1>7, <1>8, <2>1, <2>2, <2>4
    <3>2. i + 1 \in 1 .. n
      BY <1>2, <2>1, <2>4
    <3> QED BY <1>2, <3>1, <3>2
  <2> QED BY <2>3, <2>4
<1>14. Catches(g, gs)
  <2>0. \A j \in 1 .. m + 1 : j \in 1 .. m \/ j = m + 1
    BY <1>5
  <2>1. ASSUME NEW j \in 1 .. m
        PROVE  /\ gs[j].depth \in 1 .. n /\ BegunAt(g, gs[j].depth)
               /\ gs[j].extra = 1 <=>
                    /\ gs[j].depth > 1
                    /\ gs[j].depth = 2 \/ ~IsFunction(g[gs[j].depth - 2])
    <3> DEFINE d == js[j].depth
    <3>1. d \in 1 .. n /\ BegunAt(fr, d)
      BY <1>2, <1>5, <1>6 DEF Catches
    <3>2. js[j].extra = 1 <=> d > 1 /\ (d = 2 \/ ~IsFunction(fr[d - 2]))
      BY <1>5, <1>6 DEF Catches
    <3>3. d > 1 => d = 2 \/ g[d - 2] = fr[d - 2]
      BY <1>9, <3>1
    <3>4. BegunAt(g, d)
      BY <1>9, <3>1
    <3> QED BY <1>5, <3>1, <3>2, <3>3, <3>4
  <2>2. gs[m + 1].depth = n + 1 /\ gs[m + 1].extra = e
    BY <1>4, <1>5
  <2>3. e = 1 <=> n + 1 > 1 /\ (n + 1 = 2 \/ ~IsFunction(g[n + 1 - 2]))
    <3>1. n > 1 => g[n + 1 - 2] = fr[n - 1]
      BY <1>2
    <3> QED BY <1>2, <1>3, <3>1
  <2>4. \A j \in DOMAIN gs : gs[j].depth \in DOMAIN g /\ BegunAt(g, gs[j].depth)
    BY <1>2, <1>5, <1>11, <2>0, <2>1, <2>2
  <2>5. ASSUME NEW i \in DOMAIN g, BegunAt(g, i)
        PROVE  \E j \in DOMAIN gs : gs[j].depth = i
    <3>1. CASE i = n + 1
      BY <1>5, <2>2, <3>1
    <3>2. CASE i # n + 1
      <4>1. i \in 1 .. n /\ BegunAt(fr, i)
        BY <1>2, <1>9, <1>12, <2>5, <3>2
      <4>2. \E j \in DOMAIN js : js[j].depth = i
        BY <1>2, <1>6, <4>1 DEF Catches
      <4>3. PICK j \in 1 .. m : js[j].depth = i
        BY <1>5, <4>2
      <4>4. j \in DOMAIN gs /\ gs[j] = js[j]
        BY <1>5
      <4> QED BY <4>3, <4>4
    <3> QED BY <3>1, <3>2
  <2>6. ASSUME NEW j \in DOMAIN gs, NEW k \in DOMAIN gs, j < k
        PROVE  gs[j].depth < gs[k].depth
    <3>1. j \in 1 .. m
      BY <1>5, <2>6
    <3>2. CASE k = m + 1
      BY <1>2, <2>1, <2>2, <3>1, <3>2
    <3>3. CASE k # m + 1
      <4>1. k \in 1 .. m
        BY <1>5, <2>0, <3>3
      <4> QED BY <1>5, <1>6, <2>6, <3>1, <4>1 DEF Catches
    <3> QED BY <3>2, <3>3
  <2>7. ASSUME NEW j \in DOMAIN gs
        PROVE  gs[j].extra = 1 <=>
                 /\ gs[j].depth > 1
                 /\ gs[j].depth = 2 \/ ~IsFunction(g[gs[j].depth - 2])
    <3>1. CASE j \in 1 .. m
      BY <2>1, <3>1
    <3>2. CASE j = m + 1
      BY <1>2, <2>2, <2>3, <3>2
    <3> QED BY <1>5, <2>0, <3>1, <3>2
  <2> QED BY <2>4, <2>5, <2>6, <2>7 DEF Catches
<1> QED BY <1>1, <1>2, <1>3, <1>5, <1>13, <1>14, LocalsBound
        DEF WellCalled, g, n, gs, jp

(* C code calls C code for a function it is about to run (a2_vm_pcall).    *)
LEMMA ForeignFrame ==
  ASSUME NEW fr, NEW js, WellCalled(fr, js), Len(fr) < MaxFrames,
         fr = << >> \/ ~IsFunction(fr[Len(fr)]),
         NEW f \in [cls : {NoClosure}, base : Nat, act : {NoActivation}],
         OnTop(fr, f)
  PROVE  LET g == Append(fr, f)
         IN  /\ g \in Seq(FrameType) /\ Len(g) = Len(fr) + 1
             /\ g[Len(g)] = f /\ ~IsFunction(f)
             /\ LaidOut(g) /\ Identified(g) /\ PairedBelow(g) /\ Catches(g, js)
             /\ Len(g) = 1 \/ ~IsFunction(g[Len(g) - 1])
<1> DEFINE n == Len(fr)
           g == Append(fr, f)
<1>1. /\ fr \in Seq(FrameType) /\ js \in Seq(JumpType)
      /\ LaidOut(fr) /\ Identified(fr) /\ Paired(fr) /\ Catches(fr, js)
  BY DEF WellCalled
<1>2. g \in Seq(FrameType) /\ LaidOut(g) /\ Identified(g)
  <2>1. /\ f \in [cls : Closures \cup {NoClosure}, base : Nat,
                  act : Activations \cup {NoActivation}]
        /\ NewIdentity(fr, f)
    BY DEF NewIdentity, IsFunction
  <2> QED BY <1>1, <2>1, AppendFrame
<1>3. /\ n \in Nat /\ Len(g) = n + 1 /\ DOMAIN g = 1 .. n + 1
      /\ DOMAIN fr = 1 .. n /\ g[n + 1] = f /\ \A i \in 1 .. n : g[i] = fr[i]
  BY <1>1, AppendIs
<1>4. ~IsFunction(f) /\ (n > 0 => ~IsFunction(fr[n]))
  BY DEF IsFunction
<1> HIDE DEF g, n
<1>5. ASSUME NEW i \in 1 .. n
      PROVE  /\ BegunAt(g, i) <=> BegunAt(fr, i)
             /\ i > 1 => i - 1 \in 1 .. n /\ g[i - 1] = fr[i - 1]
             /\ i > 2 => i - 2 \in 1 .. n /\ g[i - 2] = fr[i - 2]
  <2>1. i > 1 => i - 1 \in 1 .. n /\ g[i - 1] = fr[i - 1]
    BY <1>3
  <2>2. i > 2 => i - 2 \in 1 .. n /\ g[i - 2] = fr[i - 2]
    BY <1>3
  <2>3. i = 1 \/ i > 1
    OBVIOUS
  <2> QED BY <1>3, <2>1, <2>2, <2>3 DEF BegunAt
<1>6. ~BegunAt(g, n + 1)
  BY <1>3, <1>4 DEF BegunAt
<1>7. \A i \in 1 .. n + 1 : i \in 1 .. n \/ i = n + 1
  BY <1>3
<1>8. PairedBelow(g)
  <2> SUFFICES ASSUME NEW i \in 1 .. n + 1, i < n + 1,
                      ~IsFunction(g[i]) /\ (i = 1 \/ ~IsFunction(g[i - 1]))
               PROVE  IsFunction(g[i + 1])
    BY <1>3 DEF PairedBelow
  <2>1. i \in 1 .. n
    BY <1>3
  <2>2. ~IsFunction(fr[i]) /\ (i = 1 \/ ~IsFunction(fr[i - 1]))
    BY <1>3, <1>5, <2>1
  <2>3. i + 1 \in 1 .. n /\ IsFunction(fr[i + 1])
    BY <1>1, <1>3, <2>1, <2>2 DEF Paired
  <2> QED BY <1>3, <2>3
<1>9. Catches(g, js)
  <2>1. \A j \in DOMAIN js : js[j].depth \in 1 .. n /\ BegunAt(g, js[j].depth)
    BY <1>1, <1>3, <1>5 DEF Catches
  <2>2. \A i \in 1 .. n + 1 : BegunAt(g, i) => \E j \in DOMAIN js : js[j].depth = i
    BY <1>1, <1>3, <1>5, <1>6, <1>7 DEF Catches
  <2>3. \A j, k \in DOMAIN js : j < k => js[j].depth < js[k].depth
    BY <1>1 DEF Catches
  <2>4. ASSUME NEW j \in DOMAIN js
        PROVE  LET d == js[j].depth
               IN  js[j].extra = 1 <=> d > 1 /\ (d = 2 \/ ~IsFunction(g[d - 2]))
    <3> DEFINE d == js[j].depth
    <3>1. d \in 1 .. n
      BY <2>1
    <3>2. js[j].extra = 1 <=> d > 1 /\ (d = 2 \/ ~IsFunction(fr[d - 2]))
      BY <1>1 DEF Catches
    <3>3. d > 1 => d = 2 \/ g[d - 2] = fr[d - 2]
      BY <1>5, <3>1
    <3> QED BY <3>2, <3>3
  <2>5. 1 .. n \subseteq 1 .. n + 1
    BY <1>3
  <2> QED BY <1>3, <2>1, <2>2, <2>3, <2>4, <2>5 DEF Catches
<1>10. Len(g) = 1 \/ ~IsFunction(g[Len(g) - 1])
  <2>1. n > 0 => g[n + 1 - 1] = fr[n]
    BY <1>3
  <2> QED BY <1>3, <1>4, <2>1
<1>11. Len(g) = n + 1 /\ g[Len(g)] = f
  BY <1>3
<1> QED BY <1>2, <1>4, <1>8, <1>9, <1>10, <1>11 DEF g, n

(* The last call ends, and no protected run with it.                       *)
LEMMA PopFrame ==
  ASSUME NEW fr, NEW js, WellCalled(fr, js), fr # << >>,
         ~BegunAt(fr, Len(fr))
  PROVE  WellCalled(SubSeq(fr, 1, Len(fr) - 1), js)
<1> DEFINE n == Len(fr)
           g == SubSeq(fr, 1, n - 1)
<1>1. /\ fr \in Seq(FrameType) /\ js \in Seq(JumpType) /\ n <= MaxFrames
      /\ LaidOut(fr) /\ Identified(fr) /\ Paired(fr) /\ Catches(fr, js)
  BY DEF WellCalled
<1>2. n \in Nat /\ n > 0 /\ n - 1 \in 0 .. n /\ DOMAIN fr = 1 .. n
  BY <1>1
<1>3. /\ g \in Seq(FrameType) /\ LaidOut(g) /\ Identified(g)
      /\ Len(g) = n - 1 /\ DOMAIN g = 1 .. n - 1 /\ \A i \in 1 .. n - 1 : g[i] = fr[i]
  BY <1>1, <1>2, DropFrames
<1>4. ~BegunAt(fr, n)
  OBVIOUS
<1> HIDE DEF g, n
<1>5. ASSUME NEW i \in 1 .. n - 1
      PROVE  /\ BegunAt(g, i) <=> BegunAt(fr, i)
             /\ i > 1 => g[i - 1] = fr[i - 1]
             /\ i > 2 => g[i - 2] = fr[i - 2]
  <2>1. i > 1 => i - 1 \in 1 .. n - 1
    BY <1>2
  <2>2. i > 2 => i - 2 \in 1 .. n - 1
    BY <1>2
  <2>3. i = 1 \/ i > 1
    OBVIOUS
  <2> QED BY <1>3, <2>1, <2>2, <2>3 DEF BegunAt
<1>6. \A i \in 1 .. n : i \in 1 .. n - 1 \/ i = n
  BY <1>2
<1>7. Paired(g)
  <2> SUFFICES ASSUME NEW i \in 1 .. n - 1,
                      ~IsFunction(g[i]) /\ (i = 1 \/ ~IsFunction(g[i - 1]))
               PROVE  i + 1 \in 1 .. n - 1 /\ IsFunction(g[i + 1])
    BY <1>3 DEF Paired
  <2>1. ~IsFunction(fr[i]) /\ (i = 1 \/ ~IsFunction(fr[i - 1])) /\ i \in 1 .. n
    BY <1>2, <1>3, <1>5
  <2>2. i + 1 \in 1 .. n /\ IsFunction(fr[i + 1])
    BY <1>1, <1>2, <2>1 DEF Paired
  <2>3. i + 1 # n
    <3> SUFFICES ASSUME i + 1 = n PROVE FALSE
      OBVIOUS
    <3>1. IsFunction(fr[n]) /\ i = n - 1
      BY <1>2, <2>2
    <3>2. ~IsFunction(fr[n - 1])
      BY <2>1, <3>1
    <3> QED BY <1>4, <3>1, <3>2 DEF BegunAt
  <2> QED BY <1>3, <1>6, <2>2, <2>3
<1>8. Catches(g, js)
  <2>1. \A j \in DOMAIN js : js[j].depth \in 1 .. n - 1 /\ BegunAt(g, js[j].depth)
    BY <1>1, <1>2, <1>4, <1>5, <1>6 DEF Catches
  <2>2. ASSUME NEW i \in 1 .. n - 1, BegunAt(g, i)
        PROVE  \E j \in DOMAIN js : js[j].depth = i
    <3>1. BegunAt(fr, i) /\ i \in DOMAIN fr
      BY <1>2, <1>5, <2>2
    <3> QED BY <1>1, <3>1 DEF Catches
  <2>3. \A j, k \in DOMAIN js : j < k => js[j].depth < js[k].depth
    BY <1>1 DEF Catches
  <2>4. ASSUME NEW j \in DOMAIN js
        PROVE  LET d == js[j].depth
               IN  js[j].extra = 1 <=> d > 1 /\ (d = 2 \/ ~IsFunction(g[d - 2]))
    <3> DEFINE d == js[j].depth
    <3>1. d \in 1 .. n - 1
      BY <2>1
    <3>2. js[j].extra = 1 <=> d > 1 /\ (d = 2 \/ ~IsFunction(fr[d - 2]))
      BY <1>1 DEF Catches
    <3>3. d > 1 => d = 2 \/ g[d - 2] = fr[d - 2]
      BY <1>5, <3>1
    <3> QED BY <3>2, <3>3
  <2> QED BY <1>3, <2>1, <2>2, <2>3, <2>4 DEF Catches
<1>9. Len(g) <= MaxFrames
  BY <1>1, <1>2, <1>3, LocalsBound
<1> QED BY <1>1, <1>3, <1>7, <1>8, <1>9 DEF WellCalled, g, n

(* The newest protected run: it began where its long jump says, no other   *)
(* began above, and what is below was under way before it.                 *)
LEMMA NewestRun ==
  ASSUME NEW fr, NEW js, WellCalled(fr, js), js # << >>
  PROVE  LET jp == js[Len(js)]
             d == jp.depth
             m == d - 1 - jp.extra
         IN  /\ d \in 1 .. Len(fr) /\ BegunAt(fr, d)
             /\ \A i \in 1 .. Len(fr) : BegunAt(fr, i) => i <= d
             /\ jp.extra \in {0, 1}
             /\ jp.extra = 1 => d > 1 /\ ~IsFunction(fr[d - 1])
             /\ jp.extra = 0 => d = 1 \/ (d > 2 /\ IsFunction(fr[d - 2]))
             /\ m \in 0 .. Len(fr) /\ m < Len(fr)
             /\ \A i \in 1 .. m : i < d
<1> DEFINE n == Len(fr)
           l == Len(js)
           jp == js[l]
           d == jp.depth
<1>1. /\ fr \in Seq(FrameType) /\ js \in Seq(JumpType) /\ Catches(fr, js)
      /\ DOMAIN fr = 1 .. n /\ n \in Nat
  BY DEF WellCalled
<1>2. l \in Nat /\ l \in 1 .. l /\ DOMAIN js = 1 .. l /\ js[l] \in JumpType
  BY <1>1
<1> HIDE DEF n, l
<1>3. jp.extra \in {0, 1}
  BY <1>2 DEF JumpType
<1>4. /\ d \in 1 .. n /\ BegunAt(fr, d)
      /\ jp.extra = 1 <=> d > 1 /\ (d = 2 \/ ~IsFunction(fr[d - 2]))
  BY <1>1, <1>2 DEF Catches
<1>5. ASSUME NEW i \in 1 .. n, BegunAt(fr, i) PROVE i <= d
  <2>1. PICK j \in DOMAIN js : js[j].depth = i
    BY <1>1, <1>5 DEF Catches
  <2>2. j = l \/ j < l
    BY <1>2, <2>1
  <2>3. j < l => js[j].depth < js[l].depth
    BY <1>1, <1>2, <2>1 DEF Catches
  <2> QED BY <1>4, <2>1, <2>2, <2>3
<1> HIDE DEF jp
<1>6. jp.extra = 1 => d > 1 /\ ~IsFunction(fr[d - 1])
  BY <1>4 DEF BegunAt
<1>7. jp.extra = 0 => d = 1 \/ (d > 2 /\ IsFunction(fr[d - 2]))
  BY <1>4
<1>8. /\ d - 1 - jp.extra \in 0 .. n /\ d - 1 - jp.extra < n
      /\ \A i \in 1 .. d - 1 - jp.extra : i < d
  BY <1>1, <1>3, <1>4, <1>6
<1> QED BY <1>3, <1>4, <1>5, <1>6, <1>7, <1>8 DEF jp, l, n

(* It ends, be it by a return or an error.                                 *)
LEMMA EndFrames ==
  ASSUME NEW fr, NEW js, WellCalled(fr, js), js # << >>,
         NEW m, m = js[Len(js)].depth - 1 - js[Len(js)].extra
  PROVE  WellCalled(SubSeq(fr, 1, m), SubSeq(js, 1, Len(js) - 1))
<1> DEFINE n == Len(fr)
           l == Len(js)
           d == js[l].depth
           x == js[l].extra
           g == SubSeq(fr, 1, m)
           gs == SubSeq(js, 1, l - 1)
<1>1. /\ fr \in Seq(FrameType) /\ js \in Seq(JumpType) /\ n <= MaxFrames
      /\ LaidOut(fr) /\ Identified(fr) /\ Paired(fr) /\ Catches(fr, js)
  BY DEF WellCalled
<1>2. n \in Nat /\ DOMAIN fr = 1 .. n /\ l \in Nat /\ l > 0 /\ DOMAIN js = 1 .. l
  BY <1>1
<1>3. /\ d \in 1 .. n /\ BegunAt(fr, d) /\ x \in {0, 1}
      /\ m = d - 1 - x /\ m \in 0 .. n /\ m < n
      /\ x = 1 => d > 1 /\ ~IsFunction(fr[d - 1])
      /\ x = 0 => d = 1 \/ (d > 2 /\ IsFunction(fr[d - 2]))
  BY NewestRun
<1>4. /\ g \in Seq(FrameType) /\ LaidOut(g) /\ Identified(g)
      /\ Len(g) = m /\ DOMAIN g = 1 .. m /\ \A i \in 1 .. m : g[i] = fr[i]
  BY <1>1, <1>3, DropFrames
<1>5. /\ gs \in Seq(JumpType) /\ DOMAIN gs = 1 .. l - 1
      /\ \A j \in 1 .. l - 1 : gs[j] = js[j]
  BY <1>1, <1>2
<1> HIDE DEF g, gs, n, l, d, x
<1>6. ASSUME NEW i \in 1 .. m
      PROVE  /\ BegunAt(g, i) <=> BegunAt(fr, i)
             /\ i > 1 => g[i - 1] = fr[i - 1]
             /\ i > 2 => g[i - 2] = fr[i - 2]
             /\ i \in 1 .. n
  <2>1. i > 1 => i - 1 \in 1 .. m
    BY <1>3
  <2>2. i > 2 => i - 2 \in 1 .. m
    BY <1>3
  <2>3. i = 1 \/ i > 1
    OBVIOUS
  <2>4. i \in 1 .. n
    BY <1>2, <1>3
  <2> QED BY <1>4, <2>1, <2>2, <2>3, <2>4 DEF BegunAt
<1>7. Paired(g)
  <2> SUFFICES ASSUME NEW i \in 1 .. m,
                      ~IsFunction(g[i]) /\ (i = 1 \/ ~IsFunction(g[i - 1]))
               PROVE  i + 1 \in 1 .. m /\ IsFunction(g[i + 1])
    BY <1>4 DEF Paired
  <2>1. ~IsFunction(fr[i]) /\ (i = 1 \/ ~IsFunction(fr[i - 1])) /\ i \in 1 .. n
    BY <1>4, <1>6
  <2>2. i + 1 \in 1 .. n /\ IsFunction(fr[i + 1])
    BY <1>1, <1>2, <2>1 DEF Paired
  <2>3. i # m
    <3> SUFFICES ASSUME i = m PROVE FALSE
      OBVIOUS
    <3>1. CASE x = 0
      <4>1. m = d - 1 /\ m - 1 = d - 2 /\ m >= 1
        BY <1>3, <3>1
      <4>2. d > 2 /\ IsFunction(fr[m - 1])
        BY <1>3, <3>1, <4>1
      <4>3. i = m /\ m # 1
        BY <1>3, <4>1, <4>2
      <4> QED BY <2>1, <4>2, <4>3
    <3>2. CASE x = 1
      <4>1. m + 1 = d - 1
        BY <1>3, <3>2
      <4>2. ~IsFunction(fr[m + 1])
        BY <1>3, <3>2, <4>1
      <4> QED BY <2>2, <4>2
    <3> QED BY <1>3, <3>1, <3>2
  <2>4. i + 1 \in 1 .. m
    BY <1>3, <2>3
  <2> QED BY <1>4, <2>2, <2>4
<1>8. ASSUME NEW j \in 1 .. l - 1
      PROVE  js[j].depth \in 1 .. m /\ BegunAt(fr, js[j].depth) /\ j \in 1 .. l
  <2>1. j \in 1 .. l /\ l \in 1 .. l /\ j < l
    BY <1>2
  <2>2. js[j].depth < d /\ js[j].depth \in 1 .. n /\ BegunAt(fr, js[j].depth)
    BY <1>1, <1>2, <2>1 DEF Catches, d
  <2>3. x = 1 => js[j].depth # d - 1
    BY <1>3, <2>2 DEF BegunAt
  <2> QED BY <1>2, <1>3, <2>1, <2>2, <2>3
<1>9. Catches(g, gs)
  <2>1. \A j \in DOMAIN gs : gs[j].depth \in DOMAIN g /\ BegunAt(g, gs[j].depth)
    BY <1>4, <1>5, <1>6, <1>8
  <2>2. ASSUME NEW i \in DOMAIN g, BegunAt(g, i)
        PROVE  \E j \in DOMAIN gs : gs[j].depth = i
    <3>1. BegunAt(fr, i) /\ i \in 1 .. n /\ i < d
      BY <1>3, <1>4, <1>6, <2>2
    <3>2. \E j \in DOMAIN js : js[j].depth = i
      BY <1>1, <1>2, <3>1 DEF Catches
    <3>3. PICK j \in 1 .. l : js[j].depth = i
      BY <1>2, <3>2
    <3>4. j # l
      BY <3>1, <3>3 DEF d
    <3>5. j \in DOMAIN gs /\ gs[j] = js[j]
      BY <1>2, <1>5, <3>4
    <3> QED BY <3>3, <3>5
  <2>3. ASSUME NEW j \in DOMAIN gs, NEW k \in DOMAIN gs, j < k
        PROVE  gs[j].depth < gs[k].depth
    BY <1>1, <1>2, <1>5, <1>8, <2>3 DEF Catches
  <2>4. ASSUME NEW j \in DOMAIN gs
        PROVE  LET e == gs[j].depth
               IN  gs[j].extra = 1 <=> e > 1 /\ (e = 2 \/ ~IsFunction(g[e - 2]))
    <3> DEFINE e == js[j].depth
    <3>1. e \in 1 .. m /\ gs[j] = js[j] /\ j \in 1 .. l
      BY <1>5, <1>8
    <3>2. js[j].extra = 1 <=> e > 1 /\ (e = 2 \/ ~IsFunction(fr[e - 2]))
      BY <1>1, <1>2, <3>1 DEF Catches
    <3>3. e > 1 => e = 2 \/ g[e - 2] = fr[e - 2]
      BY <1>6, <3>1
    <3> QED BY <3>1, <3>2, <3>3
  <2> QED BY <2>1, <2>2, <2>3, <2>4 DEF Catches
<1>10. Len(g) <= MaxFrames
  BY <1>1, <1>2, <1>3, <1>4, LocalsBound
<1> QED BY <1>4, <1>5, <1>7, <1>9, <1>10 DEF WellCalled, g, gs, l

-----------------------------------------------------------------------------
(* The call chain of the program, whatever happens to captured variables.  *)

(* A new call's identity.                                                  *)
LEMMA UnusedIsNew ==
  ASSUME NEW a \in UnusedActivations
  PROVE  /\ a \in Activations
         /\ \A i \in DOMAIN frames : frames[i].act # a
         /\ \A c \in Closures : sees[c] # NoCell => sees[c].act # a
BY DEF UnusedActivations

(* Where the frames of functions and of C code begin.                      *)
LEMMA BasesFit ==
  ASSUME frames \in Seq(FrameType)
  PROVE  /\ ~InFunction =>
              /\ BaseFromC \in Nat
              /\ frames = << >> => BaseFromC = 0
              /\ frames # << >> => /\ ~IsFunction(frames[Len(frames)])
                                   /\ frames[Len(frames)].base = BaseFromC
         /\ InFunction => \A ab \in CallRegs :
              /\ frames # << >> /\ IsFunction(frames[Len(frames)])
              /\ BaseFromFunction(ab[1], ab[2]) \in Nat
              /\ Top.base + Locals <= BaseFromFunction(ab[1], ab[2])
              /\ BaseFromFunction(ab[1], ab[2]) <= Top.base + Regs
<1>1. frames # << >> => frames[Len(frames)] \in FrameType
  <2>1. frames # << >> => Len(frames) \in 1 .. Len(frames)
    OBVIOUS
  <2> QED BY <2>1
<1>2. frames # << >> => Top.base \in Nat
  BY <1>1, FrameFields DEF Top
<1>3. ~InFunction =>
        /\ BaseFromC \in Nat
        /\ frames = << >> => BaseFromC = 0
        /\ frames # << >> => /\ ~IsFunction(frames[Len(frames)])
                             /\ frames[Len(frames)].base = BaseFromC
  BY <1>2 DEF BaseFromC, InFunction, Top
<1>4. ASSUME InFunction, NEW ab \in CallRegs
      PROVE  /\ frames # << >> /\ IsFunction(frames[Len(frames)])
             /\ BaseFromFunction(ab[1], ab[2]) \in Nat
             /\ Top.base + Locals <= BaseFromFunction(ab[1], ab[2])
             /\ BaseFromFunction(ab[1], ab[2]) <= Top.base + Regs
  <2>1. /\ ab[1] \in Locals .. Regs - 1 /\ ab[2] \in 0 .. Regs - 1
        /\ ab[1] + ab[2] < Regs
    BY <1>4 DEF CallRegs
  <2>2. frames # << >> /\ IsFunction(frames[Len(frames)]) /\ Top.base \in Nat
    BY <1>2, <1>4 DEF InFunction, Top
  <2>3. BaseFromFunction(ab[1], ab[2]) = Top.base + ab[1] + ab[2] + 1
    BY DEF BaseFromFunction
  <2> HIDE DEF Top
  <2> QED BY <2>1, <2>2, <2>3, LocalsBound
<1> QED BY <1>3, <1>4

WellNested == WellCalled(frames, jps)

(* Calls.                                                                  *)
LEMMA LoadNests ==
  ASSUME WellNested, NEW c \in Closures, Load(c)
  PROVE  WellNested'
<1>1. /\ frames \in Seq(FrameType) /\ jps \in Seq(JumpType) /\ LaidOut(frames)
      /\ Identified(frames) /\ Paired(frames) /\ Catches(frames, jps)
  BY DEF WellNested, WellCalled
<1>2. PICK a \in UnusedActivations :
        frames' = Append(frames, [cls |-> c, base |-> BaseFromC, act |-> a])
  BY DEF Load, PushFunction
<1> DEFINE f == [cls |-> c, base |-> BaseFromC, act |-> a]
<1>3. ~InFunction /\ Len(frames) < MaxFrames
  BY DEF Load, PushFunction, InC
<1>4. /\ BaseFromC \in Nat
      /\ frames = << >> => BaseFromC = 0
      /\ frames # << >> => /\ ~IsFunction(frames[Len(frames)])
                           /\ frames[Len(frames)].base = BaseFromC
  BY <1>1, <1>3, BasesFit
<1>5. f \in [cls : Closures, base : Nat, act : Activations]
  BY <1>4, UnusedIsNew
<1>6. OnTop(frames, f)
  BY <1>4 DEF OnTop
<1>7. NewIdentity(frames, f)
  BY UnusedIsNew, NoneAssumption DEF NewIdentity, IsFunction
<1>8. PairedBelow(frames)
  BY <1>1 DEF Paired, PairedBelow
<1>9. ~(Len(frames) > 0 /\ (Len(frames) = 1 \/ ~IsFunction(frames[Len(frames) - 1])))
  <2> SUFFICES ASSUME Len(frames) > 0,
                      Len(frames) = 1 \/ ~IsFunction(frames[Len(frames) - 1])
               PROVE  FALSE
    OBVIOUS
  <2>1. frames # << >> /\ Len(frames) \in DOMAIN frames /\ Len(frames) \in Nat
        /\ Len(frames) + 1 \notin DOMAIN frames
    BY <1>1
  <2>2. Len(frames) + 1 \in DOMAIN frames
    BY <1>1, <1>4, <2>1 DEF Paired
  <2> QED BY <2>1, <2>2
<1> HIDE DEF f
<1>10. WellCalled(Append(frames, f), Append(jps, [depth |-> Len(frames) + 1, extra |-> 0]))
  <2>1. frames = << >> \/ ~IsFunction(frames[Len(frames)])
    BY <1>4
  <2>2. 0 \in {0, 1} /\ (0 = 1 <=> FALSE)
    OBVIOUS
  <2> QED BY <1>1, <1>3, <1>5, <1>6, <1>7, <1>8, <1>9, <2>1, <2>2, RunFrame
<1>11. jps' = Append(jps, [depth |-> Len(frames) + 1, extra |-> 0])
  BY DEF Load
<1> QED BY <1>2, <1>10, <1>11 DEF WellNested, f

LEMMA PCallNests ==
  ASSUME WellNested, NEW c \in Closures, PCall(c)
  PROVE  WellNested'
<1> DEFINE e == CFrame(BaseFromC)
           g == Append(frames, e)
<1>1. /\ frames \in Seq(FrameType) /\ jps \in Seq(JumpType) /\ LaidOut(frames)
      /\ Identified(frames) /\ Paired(frames) /\ Catches(frames, jps)
  BY DEF WellNested, WellCalled
<1>2. PICK a \in UnusedActivations :
        frames' = Append(g, [cls |-> c, base |-> BaseFromC, act |-> a])
  BY DEF PCall, PushFunction
<1> DEFINE f == [cls |-> c, base |-> BaseFromC, act |-> a]
<1>3. ~InFunction /\ Len(g) < MaxFrames
  BY DEF PCall, PushFunction, InC
<1>4. /\ BaseFromC \in Nat
      /\ frames = << >> => BaseFromC = 0
      /\ frames # << >> => /\ ~IsFunction(frames[Len(frames)])
                           /\ frames[Len(frames)].base = BaseFromC
  BY <1>1, <1>3, BasesFit
<1>5. /\ e \in [cls : {NoClosure}, base : Nat, act : {NoActivation}]
      /\ OnTop(frames, e) /\ e.base = BaseFromC /\ e.act = NoActivation
  BY <1>4 DEF CFrame, OnTop
<1> HIDE DEF e
<1>6. /\ g \in Seq(FrameType) /\ Len(g) = Len(frames) + 1
      /\ g[Len(g)] = e /\ ~IsFunction(e)
      /\ LaidOut(g) /\ Identified(g) /\ PairedBelow(g) /\ Catches(g, jps)
      /\ Len(g) = 1 \/ ~IsFunction(g[Len(g) - 1])
  <2>1. Len(frames) < MaxFrames
    BY <1>1, <1>3, LocalsBound, AppendIs
  <2> QED BY <1>4, <1>5, <2>1, ForeignFrame DEF WellNested
<1>7. f \in [cls : Closures, base : Nat, act : Activations]
  BY <1>4, UnusedIsNew
<1>8. OnTop(g, f) /\ Len(g) > 0
  <2>1. Len(frames) \in Nat /\ Len(g) = Len(frames) + 1
    BY <1>1, <1>6
  <2> HIDE DEF g
  <2>2. Len(g) > 0
    BY <2>1
  <2>3. g # << >>
    BY <2>2
  <2> QED BY <1>5, <1>6, <2>2, <2>3 DEF OnTop
<1>9. NewIdentity(g, f)
  <2>1. \A i \in DOMAIN frames : frames[i].act # a
    BY UnusedIsNew
  <2>2. a \in Activations /\ a # NoActivation
    BY UnusedIsNew, NoneAssumption
  <2>3. ASSUME NEW i \in DOMAIN g PROVE g[i].act # a
    <3>1. i \in 1 .. Len(frames) \/ i = Len(frames) + 1
      BY <1>1, <2>3, AppendIs
    <3>2. i = Len(frames) + 1 => g[i] = e
      BY <1>6
    <3>3. i \in 1 .. Len(frames) => g[i] = frames[i] /\ i \in DOMAIN frames
      BY <1>1, AppendIs
    <3> QED BY <1>5, <2>1, <2>2, <3>1, <3>2, <3>3
  <2> HIDE DEF g
  <2> QED BY <2>2, <2>3, NoneAssumption DEF NewIdentity, IsFunction
<1> HIDE DEF f
<1>10. WellCalled(Append(g, f), Append(jps, [depth |-> Len(g) + 1, extra |-> 1]))
  <2>1. g = << >> \/ ~IsFunction(g[Len(g)])
    BY <1>6
  <2>2. 1 \in {0, 1}
    OBVIOUS
  <2> HIDE DEF g
  <2> QED BY <1>1, <1>3, <1>6, <1>7, <1>8, <1>9, <2>1, <2>2, RunFrame
<1>11. jps' = Append(jps, [depth |-> Len(g) + 1, extra |-> 1])
  <2>1. Len(frames) + 2 = Len(g) + 1
    BY <1>1, <1>6
  <2> QED BY <2>1 DEF PCall
<1> QED BY <1>2, <1>10, <1>11 DEF WellNested, f

LEMMA CallNests ==
  ASSUME WellNested, NEW c \in Closures, Call(c)
  PROVE  WellNested'
<1>1. frames \in Seq(FrameType)
  BY DEF WellNested, WellCalled
<1>2. PICK ab \in CallRegs :
        PushFunction(frames, c, BaseFromFunction(ab[1], ab[2]))
  BY DEF Call
<1> DEFINE b == BaseFromFunction(ab[1], ab[2])
<1>3. PICK a \in UnusedActivations :
        frames' = Append(frames, [cls |-> c, base |-> b, act |-> a])
  BY <1>2 DEF PushFunction
<1> DEFINE f == [cls |-> c, base |-> b, act |-> a]
<1>4. InFunction /\ Len(frames) < MaxFrames /\ jps' = jps
  BY <1>2 DEF Call, PushFunction
<1>5. /\ frames # << >> /\ IsFunction(frames[Len(frames)])
      /\ b \in Nat /\ Top.base + Locals <= b /\ b <= Top.base + Regs
  BY <1>1, <1>4, BasesFit
<1> HIDE DEF b
<1>6. f \in [cls : Closures \cup {NoClosure}, base : Nat,
             act : Activations \cup {NoActivation}]
  BY <1>5, UnusedIsNew
<1>7. OnTop(frames, f) /\ NewIdentity(frames, f)
  BY <1>5, UnusedIsNew, NoneAssumption DEF OnTop, Top, NewIdentity, IsFunction
<1> HIDE DEF f
<1>8. WellCalled(Append(frames, f), jps)
  BY <1>4, <1>5, <1>6, <1>7, CallFrame DEF WellNested
<1> QED BY <1>3, <1>4, <1>8 DEF WellNested, f, b

LEMMA EnterCNests ==
  ASSUME WellNested, EnterC
  PROVE  WellNested'
<1>1. frames \in Seq(FrameType)
  BY DEF WellNested, WellCalled
<1>2. PICK ab \in CallRegs :
        frames' = Append(frames, CFrame(BaseFromFunction(ab[1], ab[2])))
  BY DEF EnterC
<1> DEFINE b == BaseFromFunction(ab[1], ab[2])
           f == CFrame(b)
<1>3. InFunction /\ Len(frames) < MaxFrames /\ jps' = jps
  BY DEF EnterC
<1>4. /\ frames # << >> /\ IsFunction(frames[Len(frames)])
      /\ b \in Nat /\ Top.base + Locals <= b /\ b <= Top.base + Regs
  BY <1>1, <1>3, BasesFit
<1> HIDE DEF b
<1>5. f \in [cls : Closures \cup {NoClosure}, base : Nat,
             act : Activations \cup {NoActivation}]
  BY <1>4 DEF CFrame
<1>6. OnTop(frames, f) /\ NewIdentity(frames, f)
  BY <1>4 DEF OnTop, Top, NewIdentity, IsFunction, CFrame
<1> HIDE DEF f
<1>7. WellCalled(Append(frames, f), jps)
  BY <1>3, <1>4, <1>5, <1>6, CallFrame DEF WellNested
<1> QED BY <1>2, <1>3, <1>7 DEF WellNested, f, b

(* Returns and errors.                                                     *)
LEMMA LeaveCNests ==
  ASSUME WellNested, LeaveC
  PROVE  WellNested'
<1>1. frames # << >> /\ ~BegunAt(frames, Len(frames))
  BY DEF LeaveC, InC, InFunction, Top, BegunAt
<1> QED BY <1>1, PopFrame DEF LeaveC, WellNested

LEMMA ReturnToFunctionNests ==
  ASSUME WellNested, ReturnToFunction
  PROVE  WellNested'
<1>1. frames # << >> /\ ~BegunAt(frames, Len(frames))
  BY DEF ReturnToFunction, InFunction, BegunAt
<1> QED BY <1>1, PopFrame DEF ReturnToFunction, WellNested

LEMMA EndProtectedNests ==
  ASSUME WellNested, jps # << >>, EndProtected
  PROVE  WellNested'
BY EndFrames DEF EndProtected, WellNested

(* While a function runs, a protected run is under way.                    *)
LEMMA SomethingRuns ==
  ASSUME WellNested, frames # << >>, BegunAt(frames, Len(frames))
  PROVE  jps # << >>
<1>1. /\ Len(frames) \in DOMAIN frames /\ Catches(frames, jps)
      /\ jps \in Seq(JumpType)
  BY DEF WellNested, WellCalled
<1>2. PICK j \in DOMAIN jps : jps[j].depth = Len(frames)
  BY <1>1 DEF Catches
<1> QED BY <1>1, <1>2

LEMMA ReturnsNest ==
  ASSUME WellNested, ReturnToHost \/ ReturnToC
  PROVE  WellNested'
<1>1. frames # << >> /\ BegunAt(frames, Len(frames))
  BY DEF ReturnToHost, ReturnToC, InFunction, Top, BegunAt
<1> QED BY <1>1, SomethingRuns, EndProtectedNests DEF ReturnToHost, ReturnToC

LEMMA NextNests ==
  ASSUME WellNested, [Next]_vars
  PROVE  WellNested'
<1>1. ASSUME UNCHANGED <<frames, jps>> PROVE WellNested'
  BY <1>1 DEF WellNested
<1>2. ASSUME NEW c \in Closures, MakePlain(c) \/ MakeOverLocal(c) \/ MakeOverUpvalue(c)
      PROVE  UNCHANGED <<frames, jps>>
  BY <1>2 DEF MakePlain, MakeOverLocal, MakeOverUpvalue, Make
<1>3. ASSUME NEW c \in Closures, Free(c) PROVE UNCHANGED <<frames, jps>>
  BY <1>3 DEF Free
<1>4. SetLocal \/ SetUpvalue \/ UNCHANGED vars => UNCHANGED <<frames, jps>>
  BY DEF SetLocal, SetUpvalue, vars
<1>5. Raise => WellNested'
  BY EndProtectedNests DEF Raise
<1> QED BY <1>1, <1>2, <1>3, <1>4, <1>5, LoadNests, PCallNests, CallNests,
           EnterCNests, LeaveCNests, ReturnToFunctionNests, ReturnsNest DEF Next

LEMMA InitNests ==
  ASSUME Init
  PROVE  WellNested
<1>1. frames = << >> /\ jps = << >>
  BY DEF Init
<1>2. WellCalled(<< >>, << >>)
  BY LocalsBound DEF WellCalled, LaidOut, Identified, Paired, Catches
<1> QED BY <1>1, <1>2 DEF WellNested

THEOREM NestingInvariance == Spec => []WellNested
<1>1. Init => WellNested
  BY InitNests
<1>2. WellNested /\ [Next]_vars => WellNested'
  BY NextNests
<1> QED BY <1>1, <1>2, PTL DEF Spec

(* Different calls have their variables in different places.               *)
LEMMA SlotsApart ==
  ASSUME NEW fr \in Seq(FrameType), LaidOut(fr),
         NEW i \in DOMAIN fr, NEW j \in DOMAIN fr, j < i
  PROVE  LocalSlots(fr[i]) \cap LocalSlots(fr[j]) = {}
<1>1. fr[i] \in FrameType /\ fr[j] \in FrameType
  OBVIOUS
<1>2. fr[i].base \in Nat /\ fr[j].base \in Nat
  BY <1>1, FrameFields
<1>3. IsFunction(fr[j]) => fr[j].base + Locals <= fr[i].base
  BY DEF LaidOut
<1> SUFFICES ASSUME IsFunction(fr[j]), NEW r \in LocalRegs, NEW q \in LocalRegs,
                    fr[i].base + r = fr[j].base + q
             PROVE  FALSE
  BY DEF LocalSlots
<1>4. r \in Nat /\ q \in Nat /\ q < Locals
  BY LocalsBound DEF LocalRegs
<1>5. fr[j].base + Locals <= fr[i].base
  BY <1>3
<1> QED BY <1>2, <1>4, <1>5, LocalsBound

(* The functions of the first calls are what their registers count for.    *)
LEMMA NestedFits ==
  ASSUME WellNested
  PROVE  FramesFit
<1> SUFFICES ASSUME NEW i \in DOMAIN frames, IsFunction(frames[i])
             PROVE  /\ frames[i].base + Regs <= Cap(SubSeq(frames, 1, i))
                    /\ \A j \in 1 .. i - 1 :
                         LocalSlots(frames[i]) \cap LocalSlots(frames[j]) = {}
  BY DEF FramesFit
<1>1. /\ frames \in Seq(FrameType) /\ LaidOut(frames)
      /\ DOMAIN frames = 1 .. Len(frames) /\ Len(frames) \in Nat
  BY DEF WellNested, WellCalled
<1>2. i \in Nat /\ i > 0 /\ i - 1 \in Nat
  BY <1>1
<1>3. frames[i].base + Regs <= Cap(SubSeq(frames, 1, i))
  <2> DEFINE g == SubSeq(frames, 1, i)
             K(k) == Cardinality(FunctionsTo(frames, k))
  <2>1. DOMAIN g = 1 .. i /\ \A j \in 1 .. i : g[j] = frames[j]
    BY <1>1
  <2> HIDE DEF g
  <2>2. {j \in DOMAIN g : IsFunction(g[j])} = FunctionsTo(frames, i)
    BY <2>1 DEF FunctionsTo
  <2>3. K(i) = K(i - 1) + 1 /\ K(i - 1) \in Nat
    BY <1>2, CountFunctions
  <2>4. frames[i].base <= Regs * K(i - 1) /\ frames[i].base \in Nat
    BY <1>1, FrameFields DEF LaidOut
  <2> HIDE DEF K
  <2>5. Regs * (K(i - 1) + 1) = Regs * K(i - 1) + Regs /\ Regs * K(i - 1) \in Nat
    BY <2>3, TimesRegs
  <2>6. Cap(g) = Regs * K(i)
    BY <2>2 DEF Cap, K
  <2>7. frames[i].base + Regs <= Cap(g)
    BY <2>3, <2>4, <2>5, <2>6, LocalsBound
  <2> QED BY <2>7 DEF g
<1>4. ASSUME NEW j \in 1 .. i - 1
      PROVE  LocalSlots(frames[i]) \cap LocalSlots(frames[j]) = {}
  <2>1. j \in DOMAIN frames /\ j < i
    BY <1>1
  <2> QED BY <1>1, <2>1, SlotsApart
<1> QED BY <1>3, <1>4

(* The registers of every frame lie within the part of the stack in use,   *)
(* and variables of different calls in different places, however calls,    *)
(* protected calls and errors are mixed (a2_vm.c:29, 160, 178-195).        *)
THEOREM FramesAlwaysFit == Spec => []FramesFit
<1>1. WellNested => FramesFit
  BY NestedFits
<1> QED BY <1>1, NestingInvariance, PTL

(* The chain of long jumps as JumpTargets has it.                          *)
LEMMA NestedCatches ==
  ASSUME WellNested
  PROVE  JumpTargets
<1>1. Catches(frames, jps)
  BY DEF WellNested, WellCalled
<1>2. \A i : BegunAt(frames, i) <=> BegunFromC(i)
  BY DEF BegunAt, BegunFromC
<1>3. {jps[j].depth : j \in DOMAIN jps} = {i \in DOMAIN frames : BegunFromC(i)}
  BY <1>1, <1>2 DEF Catches
<1> QED BY <1>1, <1>3 DEF Catches, JumpTargets

(* An error is caught by the newest protected run, and takes off the       *)
(* frames of that run and no others (a2_error.c:43-56, a2_vm.c:238-274).   *)
THEOREM ErrorsCaughtWhereBegun == Spec => []JumpTargets
<1>1. WellNested => JumpTargets
  BY NestedCatches
<1> QED BY <1>1, NestingInvariance, PTL

-----------------------------------------------------------------------------
(* Captured variables.                                                     *)

ClosuresTyped ==
  /\ stack \in [Slots -> Values \cup {NoValue}]
  /\ kind \in [Closures -> {"free", "function", "chunk"}]
  /\ uv \in [Closures -> UvType]
  /\ uped \in [Closures -> SUBSET Closures]
  /\ udGc \in [Closures -> [LocalRegs -> UvObjs \cup {NoUvObj}]]
  /\ value \in [UvObjs -> Values \cup {NoValue}]
  /\ sees \in [Closures -> [act : Activations, reg : LocalRegs] \cup {NoCell}]

(* The variables of every call under way have values.                      *)
Filled ==
  \A i \in DOMAIN frames : \A s \in LocalSlots(frames[i]) : stack[s] \in Values

(* What runs is not free, and a free closure has nothing to do with        *)
(* captured variables.                                                     *)
InUse ==
  /\ \A i \in DOMAIN frames :
       IsFunction(frames[i]) => kind[frames[i].cls] # "free"
  /\ \A c \in Closures : kind[c] = "free" => uv[c] = NoUv /\ uped[c] = {}

(* uped_chain notes exactly those who look a variable up in the stack.     *)
Noted ==
  \A c, d \in Closures : c \in uped[d] <=> uv[c].at = "stack" /\ uv[c].owner = d

Latest(i) == \A j \in DOMAIN frames : j > i => frames[j].cls # frames[i].cls

(* w is where variable r of the i-th call is, x being that variable: the   *)
(* newest call of its closure.                                             *)
InPlace(w, x, i, r) ==
  /\ frames[i].cls = w.owner /\ Latest(i)
  /\ w.idx = frames[i].base + r
  /\ x = [act |-> frames[i].act, reg |-> r]

Ended(x) == \A i \in DOMAIN frames : frames[i].act # x.act

(* What x, once captured, is found at.                                     *)
Placed(w, x) ==
  /\ w = NoUv <=> x = NoCell
  /\ w.at = "stack" => \E i \in DOMAIN frames, r \in LocalRegs : InPlace(w, x, i, r)
  /\ w.at = "gc" => value[w.obj] # NoValue /\ Ended(x)

Found == \A c \in Closures : Placed(uv[c], sees[c])

(* Those who have captured a variable that was moved share one object, and *)
(* with nobody else.                                                       *)
ClosedAlike ==
  \A c, d \in Closures :
    uv[c].at = "gc" /\ uv[d].at = "gc" => (sees[c] = sees[d] <=> uv[c] = uv[d])

CaptureInv ==
  /\ WellNested
  /\ ClosuresTyped
  /\ Filled
  /\ InUse
  /\ Noted
  /\ Found
  /\ ClosedAlike

(* The three kinds of upvalues.                                            *)
LEMMA UvKinds ==
  ASSUME NEW w \in UvType
  PROVE  /\ w.at \in {"none", "stack", "gc"}
         /\ w.at = "none" <=> w = NoUv
         /\ w.at = "stack" => /\ w.owner \in Closures /\ w.idx \in Slots
                              /\ w = OnStack(w.owner, w.idx)
         /\ w.at = "gc" => w.obj \in UvObjs /\ w = InObject(w.obj)
<1>1. CASE w = NoUv
  BY <1>1 DEF NoUv
<1>2. CASE \E o \in Closures, s \in Slots : w = OnStack(o, s)
  BY <1>2 DEF NoUv, OnStack
<1>3. CASE \E u \in UvObjs : w = InObject(u)
  BY <1>3 DEF NoUv, InObject
<1> QED BY <1>1, <1>2, <1>3 DEF UvType

LEMMA MadeUv ==
  /\ \A o \in Closures, s \in Slots :
       /\ OnStack(o, s) \in UvType /\ OnStack(o, s).at = "stack"
       /\ OnStack(o, s).owner = o /\ OnStack(o, s).idx = s
  /\ \A u \in UvObjs : /\ InObject(u) \in UvType /\ InObject(u).at = "gc"
                       /\ InObject(u).obj = u
  /\ NoUv \in UvType /\ NoUv.at = "none"
<1>1. ASSUME NEW o \in Closures, NEW s \in Slots
      PROVE  /\ OnStack(o, s) \in UvType /\ OnStack(o, s).at = "stack"
             /\ OnStack(o, s).owner = o /\ OnStack(o, s).idx = s
  <2>1. OnStack(o, s) \in {OnStack(c, i) : c \in Closures, i \in Slots}
    OBVIOUS
  <2>2. OnStack(o, s) \in UvType
    BY <2>1 DEF UvType
  <2> QED BY <2>2 DEF OnStack
<1>2. ASSUME NEW u \in UvObjs
      PROVE  /\ InObject(u) \in UvType /\ InObject(u).at = "gc"
             /\ InObject(u).obj = u
  <2>1. InObject(u) \in UvType
    BY DEF UvType
  <2> QED BY <2>1 DEF InObject
<1>3. NoUv \in UvType /\ NoUv.at = "none"
  BY DEF UvType, NoUv
<1> QED BY <1>1, <1>2, <1>3

LEMMA ObjectsDiffer ==
  ASSUME NEW u, NEW v, InObject(u) = InObject(v)
  PROVE  u = v
<1>1. InObject(u).obj = InObject(v).obj
  OBVIOUS
<1>2. InObject(u).obj = u /\ InObject(v).obj = v
  BY DEF InObject
<1> QED BY <1>1, <1>2

(* The fields of what is seen.                                             *)
LEMMA SeenFields ==
  ASSUME NEW a, NEW r, NEW b, NEW q
  PROVE  /\ [act |-> a, reg |-> r] = [act |-> b, reg |-> q] <=> a = b /\ r = q
         /\ [act |-> a, reg |-> r].act = a
         /\ [act |-> a, reg |-> r].reg = r
<1>1. /\ [act |-> a, reg |-> r].act = a /\ [act |-> a, reg |-> r].reg = r
      /\ [act |-> b, reg |-> q].act = b /\ [act |-> b, reg |-> q].reg = q
  OBVIOUS
<1> QED BY <1>1

(* Variables of calls are within the stack.                                *)
LEMMA SlotsFit ==
  ASSUME NEW f \in FrameType, NEW r \in LocalRegs
  PROVE  f.base + r \in Slots
<1>1. f.base \in 0 .. Regs * (MaxFrames - 1)
  BY DEF FrameType
<1>2. MaxFrames - 1 \in Nat /\ MaxFrames - 1 + 1 = MaxFrames
  BY LocalsBound
<1>3. /\ Regs * (MaxFrames - 1) \in Nat
      /\ Regs * (MaxFrames - 1 + 1) = Regs * (MaxFrames - 1) + Regs
  BY <1>2, TimesRegs
<1>4. r \in Nat /\ r < Regs
  BY LocalsBound DEF LocalRegs
<1>5. Regs * MaxFrames = Regs * (MaxFrames - 1) + Regs
  BY <1>2, <1>3
<1> HIDE DEF Slots
<1>6. f.base + r \in Nat /\ f.base + r <= Regs * MaxFrames - 1
  BY <1>1, <1>3, <1>4, <1>5, LocalsBound
<1> QED BY <1>5, <1>3, <1>6, LocalsBound DEF Slots

(* The chain of calls, and its newest one.                                 *)
LEMMA Chain ==
  ASSUME WellNested
  PROVE  /\ frames \in Seq(FrameType) /\ DOMAIN frames = 1 .. Len(frames)
         /\ Len(frames) \in Nat /\ Identified(frames)
         /\ \A i \in DOMAIN frames : /\ frames[i] \in FrameType
                                     /\ IsFunction(frames[i]) => frames[i].cls \in Closures
                                     /\ frames[i].base \in Nat
         /\ InFunction => /\ Len(frames) \in DOMAIN frames /\ Top = frames[Len(frames)]
                          /\ Top \in FrameType /\ Top.cls \in Closures
                          /\ Top.base \in Nat /\ IsFunction(Top)
<1>1. /\ frames \in Seq(FrameType) /\ DOMAIN frames = 1 .. Len(frames)
      /\ Len(frames) \in Nat /\ Identified(frames)
  BY DEF WellNested, WellCalled
<1>2. \A i \in DOMAIN frames : /\ frames[i] \in FrameType
                               /\ IsFunction(frames[i]) => frames[i].cls \in Closures
                               /\ frames[i].base \in Nat
  BY <1>1, FrameFields DEF IsFunction
<1>3. ASSUME InFunction
      PROVE  Len(frames) \in DOMAIN frames /\ Top = frames[Len(frames)] /\ IsFunction(Top)
  BY <1>1, <1>3 DEF InFunction, Top
<1> QED BY <1>1, <1>2, <1>3

(* Calls of functions are different calls.                                 *)
LEMMA ActsDiffer ==
  ASSUME WellNested, NEW i \in DOMAIN frames, NEW j \in DOMAIN frames,
         IsFunction(frames[i]), frames[i].act = frames[j].act
  PROVE  i = j
BY Chain DEF Identified


(* Whose variable is still in its register: its owner's newest call has    *)
(* it, and the owner has noted it.                                         *)
LEMMA OwnersRun ==
  ASSUME CaptureInv, NEW c \in Closures, uv[c].at = "stack"
  PROVE  /\ uv[c].owner \in Closures /\ c \in uped[uv[c].owner]
         /\ \E i \in DOMAIN frames, r \in LocalRegs : InPlace(uv[c], sees[c], i, r)
<1>1. uv[c] \in UvType
  BY DEF CaptureInv, ClosuresTyped
<1>2. uv[c].owner \in Closures
  BY <1>1, UvKinds
<1>3. c \in uped[uv[c].owner]
  BY <1>2 DEF CaptureInv, Noted
<1>4. Placed(uv[c], sees[c])
  BY DEF CaptureInv, Found
<1> QED BY <1>2, <1>3, <1>4 DEF Placed

(* What calls are under way becomes more: f is the frame of a new one, of  *)
(* a closure nobody has captured a variable of.                            *)
NewFrame(f) ==
  IsFunction(f) => /\ uped[f.cls] = {}
                   /\ \A d \in Closures : sees[d] # NoCell => sees[d].act # f.act
                   /\ kind'[f.cls] # "free"
                   /\ \A s \in LocalSlots(f) : stack'[s] \in Values

LEMMA CallsKeep ==
  ASSUME CaptureInv, WellNested',
         UNCHANGED <<uv, uped, udGc, value, sees>>,
         \A i \in DOMAIN frames : i \in DOMAIN frames' /\ frames'[i] = frames[i],
         \A i \in DOMAIN frames' : i \in DOMAIN frames \/ NewFrame(frames'[i]),
         stack' \in [Slots -> Values \cup {NoValue}],
         \A i \in DOMAIN frames : \A s \in LocalSlots(frames[i]) : stack'[s] = stack[s],
         kind' \in [Closures -> {"free", "function", "chunk"}],
         \A d \in Closures : \/ kind'[d] = kind[d]
                             \/ kind[d] = "free" /\ kind'[d] = "chunk"
  PROVE  CaptureInv'
<1>1. ClosuresTyped'
  BY DEF CaptureInv, ClosuresTyped
<1>2. Filled'
  <2> SUFFICES ASSUME NEW i \in DOMAIN frames', NEW s \in LocalSlots(frames'[i])
               PROVE  stack'[s] \in Values
    BY DEF Filled, LocalSlots, IsFunction
  <2>1. CASE i \in DOMAIN frames
    BY <2>1 DEF CaptureInv, Filled
  <2>2. CASE NewFrame(frames'[i])
    BY <2>2 DEF NewFrame, LocalSlots
  <2> QED BY <2>1, <2>2
<1>3. InUse'
  <2>1. ASSUME NEW i \in DOMAIN frames', IsFunction(frames'[i])
        PROVE  kind'[frames'[i].cls] # "free"
    <3>1. CASE i \in DOMAIN frames
      <4>1. /\ frames'[i] = frames[i] /\ frames[i].cls \in Closures
            /\ kind[frames[i].cls] # "free"
        BY <2>1, <3>1, Chain DEF CaptureInv, InUse
      <4> QED BY <4>1
    <3>2. CASE NewFrame(frames'[i])
      BY <2>1, <3>2 DEF NewFrame
    <3> QED BY <3>1, <3>2
  <2>2. ASSUME NEW d \in Closures
        PROVE  kind'[d] = "free" => uv[d] = NoUv /\ uped[d] = {}
    BY DEF CaptureInv, InUse
  <2> QED BY <2>1, <2>2 DEF InUse, IsFunction
<1>4. Noted'
  BY DEF CaptureInv, Noted
<1>5. ASSUME NEW i \in DOMAIN frames', i \notin DOMAIN frames,
             NEW d \in Closures
      PROVE  /\ uv[d].at = "stack" => frames'[i].cls # uv[d].owner
             /\ uv[d].at = "gc" => frames'[i].act # sees[d].act
  <2>1. NewFrame(frames'[i])
    BY <1>5
  <2>2. CASE IsFunction(frames'[i])
    <3>1. uped[frames'[i].cls] = {}
      BY <2>1, <2>2 DEF NewFrame
    <3>2. uv[d].at = "stack" => frames'[i].cls # uv[d].owner
      BY <3>1, OwnersRun
    <3>3. uv[d].at = "gc" => sees[d] # NoCell
      BY MadeUv DEF CaptureInv, Found, Placed
    <3> QED BY <2>1, <2>2, <3>2, <3>3 DEF NewFrame
  <2>3. CASE ~IsFunction(frames'[i])
    <3>1. frames'[i].cls = NoClosure /\ frames'[i].act = NoActivation
      <4>1. Identified(frames)' /\ i \in DOMAIN frames'
        BY <1>5 DEF WellNested, WellCalled
      <4> QED BY <2>3, <4>1 DEF Identified, IsFunction
    <3>2. uv[d].at = "stack" => uv[d].owner \in Closures
      BY OwnersRun
    <3>3. uv[d].at = "gc" => sees[d] # NoCell
      BY MadeUv DEF CaptureInv, Found, Placed
    <3>4. sees[d] # NoCell => sees[d].act \in Activations
      BY DEF CaptureInv, ClosuresTyped
    <3> QED BY <3>1, <3>2, <3>3, <3>4, NoneAssumption
  <2> QED BY <2>2, <2>3
<1>6. Found'
  <2> SUFFICES ASSUME NEW d \in Closures PROVE Placed(uv[d], sees[d])'
    BY DEF Found
  <2>1. Placed(uv[d], sees[d])
    BY DEF CaptureInv, Found
  <2>2. ASSUME uv[d].at = "stack"
        PROVE  \E i \in DOMAIN frames', r \in LocalRegs : InPlace(uv[d], sees[d], i, r)'
    <3>1. PICK i \in DOMAIN frames, r \in LocalRegs : InPlace(uv[d], sees[d], i, r)
      BY <2>1, <2>2 DEF Placed
    <3>2. Latest(i)'
      BY <1>5, <2>2, <3>1 DEF Latest, InPlace
    <3>3. InPlace(uv[d], sees[d], i, r)'
      BY <3>1, <3>2 DEF InPlace
    <3> QED BY <3>1, <3>3
  <2>3. ASSUME uv[d].at = "gc" PROVE value[uv[d].obj] # NoValue /\ Ended(sees[d])'
    BY <1>5, <2>1, <2>3 DEF Placed, Ended
  <2> QED BY <2>1, <2>2, <2>3 DEF Placed
<1>7. ClosedAlike'
  BY DEF CaptureInv, ClosedAlike
<1> QED BY <1>1, <1>2, <1>3, <1>4, <1>6, <1>7 DEF CaptureInv

(* Calls end, of closures nobody has captured a variable of.               *)
LEMMA EndsKeep ==
  ASSUME CaptureInv, WellNested', NEW m \in 0 .. Len(frames),
         frames' = SubSeq(frames, 1, m),
         UNCHANGED <<kind, uv, uped, udGc, value, sees>>,
         stack' \in [Slots -> Values \cup {NoValue}],
         \A i \in 1 .. m : \A s \in LocalSlots(frames[i]) : stack'[s] = stack[s],
         \A i \in m + 1 .. Len(frames) :
           IsFunction(frames[i]) => uped[frames[i].cls] = {}
  PROVE  CaptureInv'
<1>1. /\ DOMAIN frames = 1 .. Len(frames) /\ Len(frames) \in Nat
      /\ DOMAIN frames' = 1 .. m /\ \A i \in 1 .. m : frames'[i] = frames[i]
      /\ \A i \in 1 .. m : i \in DOMAIN frames
  <2>1. frames \in Seq(FrameType)
    BY Chain DEF CaptureInv
  <2> QED BY <2>1
<1>2. ClosuresTyped'
  BY DEF CaptureInv, ClosuresTyped
<1>3. Filled'
  BY <1>1 DEF CaptureInv, Filled, LocalSlots, IsFunction
<1>4. InUse'
  BY <1>1 DEF CaptureInv, InUse, IsFunction
<1>5. Noted'
  BY DEF CaptureInv, Noted
<1>6. Found'
  <2> SUFFICES ASSUME NEW d \in Closures PROVE Placed(uv[d], sees[d])'
    BY DEF Found
  <2>1. Placed(uv[d], sees[d])
    BY DEF CaptureInv, Found
  <2>2. ASSUME uv[d].at = "stack"
        PROVE  \E i \in DOMAIN frames', r \in LocalRegs : InPlace(uv[d], sees[d], i, r)'
    <3>1. PICK i \in DOMAIN frames, r \in LocalRegs : InPlace(uv[d], sees[d], i, r)
      BY <2>1, <2>2 DEF Placed
    <3>2. frames[i].cls \in Closures /\ uped[frames[i].cls] # {}
      BY <2>2, <3>1, OwnersRun DEF InPlace
    <3>3. i \in 1 .. m
      <4>1. ~(i \in m + 1 .. Len(frames))
        BY <3>2, NoneAssumption DEF IsFunction
      <4> QED BY <1>1, <4>1
    <3>4. Latest(i)'
      BY <1>1, <3>1, <3>3 DEF Latest, InPlace
    <3>5. InPlace(uv[d], sees[d], i, r)'
      BY <1>1, <3>1, <3>3, <3>4 DEF InPlace
    <3> QED BY <1>1, <3>3, <3>5
  <2>3. ASSUME uv[d].at = "gc" PROVE value[uv[d].obj] # NoValue /\ Ended(sees[d])'
    BY <1>1, <2>1, <2>3 DEF Placed, Ended
  <2> QED BY <2>1, <2>2, <2>3 DEF Placed
<1>7. ClosedAlike'
  BY DEF CaptureInv, ClosedAlike
<1> QED BY <1>2, <1>3, <1>4, <1>5, <1>6, <1>7 DEF CaptureInv

(* What is left in the registers of calls that have ended is of no use.    *)
LEMMA StackOfCalls ==
  ASSUME CaptureInv, NEW m \in 0 .. Len(frames),
         NEW g, g = SubSeq(frames, 1, m)
  PROVE  /\ StackOf(g) \in [Slots -> Values \cup {NoValue}]
         /\ \A i \in 1 .. m : \A s \in LocalSlots(frames[i]) : StackOf(g)[s] = stack[s]
<1>1. /\ DOMAIN g = 1 .. m /\ \A i \in 1 .. m : g[i] = frames[i] /\ i \in DOMAIN frames
  <2>1. frames \in Seq(FrameType)
    BY Chain DEF CaptureInv
  <2> QED BY <2>1
<1>2. StackOf(g) \in [Slots -> Values \cup {NoValue}]
  BY DEF StackOf, CaptureInv, ClosuresTyped
<1>3. ASSUME NEW i \in 1 .. m, NEW s \in LocalSlots(frames[i])
      PROVE  StackOf(g)[s] = stack[s]
  <2>1. frames[i] \in FrameType
    BY <1>1, Chain DEF CaptureInv
  <2>2. s \in Slots
    BY <1>3, <2>1, SlotsFit DEF LocalSlots
  <2>3. \E j \in DOMAIN g : s \in LocalSlots(g[j])
    BY <1>1, <1>3
  <2> QED BY <2>2, <2>3 DEF StackOf
<1> QED BY <1>2, <1>3

-----------------------------------------------------------------------------
(* a2_closure_return.                                                      *)

(* Everybody who has captured a variable of the call that ends, and only   *)
(* they, look it up in the stack.                                          *)
LEMMA TopsVariables ==
  ASSUME CaptureInv, InFunction, NEW c \in uped[Top.cls]
  PROVE  /\ c \in Closures /\ uv[c].at = "stack"
         /\ RegOf(c) \in LocalRegs
         /\ uv[c].idx = Top.base + RegOf(c)
         /\ sees[c] = [act |-> Top.act, reg |-> RegOf(c)]
<1>1. /\ Len(frames) \in DOMAIN frames /\ Top = frames[Len(frames)]
      /\ DOMAIN frames = 1 .. Len(frames) /\ Len(frames) \in Nat
      /\ Top.cls \in Closures /\ Top.base \in Nat
  BY Chain DEF CaptureInv
<1>2. c \in Closures /\ uv[c].at = "stack" /\ uv[c].owner = Top.cls
  BY <1>1 DEF CaptureInv, ClosuresTyped, Noted
<1>3. PICK i \in DOMAIN frames, r \in LocalRegs : InPlace(uv[c], sees[c], i, r)
  BY <1>2, OwnersRun
<1>4. i = Len(frames)
  <2>1. ~(Len(frames) > i)
    BY <1>1, <1>2, <1>3 DEF InPlace, Latest
  <2> QED BY <1>1, <2>1
<1>5. RegOf(c) = r
  <2>1. uv[c].idx = Top.base + r /\ r \in Nat
    BY <1>1, <1>3, <1>4, LocalsBound DEF InPlace, LocalRegs
  <2> HIDE DEF Top
  <2> QED BY <1>1, <2>1 DEF RegOf
<1> QED BY <1>1, <1>2, <1>3, <1>4, <1>5 DEF InPlace

(* Unless the fault "again" strikes, all of them are moved to new objects. *)
LEMMA AllMove ==
  ASSUME CaptureInv, InFunction, CloseUpvalues, faults' = {}, NEW c \in uped[Top.cls]
  PROVE  RegOf(c) \in ToMove
<1>1. RegOf(c) \in LocalRegs
  BY TopsVariables
<1>2. udGc[Top.cls][RegOf(c)] = NoUvObj
  BY DEF CloseUpvalues, Strikes
<1> HIDE DEF RegOf, Top
<1> QED BY <1>1, <1>2 DEF ToMove

(* The objects variables are moved to are new ones, each another.          *)
LEMMA MovedApart ==
  ASSUME NEW new \in Injection(ToMove, FreeUvObjs)
  PROVE  /\ \A r \in ToMove : new[r] \in UvObjs /\ value[new[r]] = NoValue
         /\ \A r, q \in ToMove : new[r] = new[q] => r = q
<1>1. new \in [ToMove -> FreeUvObjs]
  BY DEF Injection
<1>2. \A r, q \in ToMove : new[r] = new[q] => r = q
  BY DEF Injection, IsInjective
<1> QED BY <1>1, <1>2 DEF FreeUvObjs

(* What a return does to captured variables, and to no others.             *)
Taken(c, u) ==
  /\ uv'[c] = InObject(u) /\ u \in UvObjs
  /\ value[u] = NoValue /\ value'[u] \in Values
  /\ value'[u] = Moved(RegOf(c))

LEMMA Closing ==
  ASSUME CaptureInv, InFunction, CloseUpvalues, faults' = {}
  PROVE  /\ uv' \in [Closures -> UvType]
         /\ udGc' \in [Closures -> [LocalRegs -> UvObjs \cup {NoUvObj}]]
         /\ value' \in [UvObjs -> Values \cup {NoValue}]
         /\ uped' = [uped EXCEPT ![Top.cls] = {}]
         /\ \A c \in Closures : c \notin uped[Top.cls] => uv'[c] = uv[c]
         /\ \A c \in Closures : c # Top.cls => udGc'[c] = udGc[c]
         /\ \A u \in UvObjs : value[u] # NoValue => value'[u] = value[u]
         /\ \A c \in uped[Top.cls] : \E u : Taken(c, u)
         /\ \A c, d \in uped[Top.cls] : RegOf(c) = RegOf(d) <=> uv'[c] = uv'[d]
<1> DEFINE T == Top.cls
           objects(new) == [r \in LocalRegs |-> IF r \in ToMove THEN new[r] ELSE udGc[T][r]]
<1>1. PICK new \in Injection(ToMove, FreeUvObjs) :
        /\ uv' = [c \in Closures |-> IF c \in uped[T]
                                     THEN InObject(objects(new)[RegOf(c)]) ELSE uv[c]]
        /\ uped' = [uped EXCEPT ![T] = {}]
        /\ udGc' = [udGc EXCEPT ![T] = objects(new)]
        /\ value' = [u \in UvObjs |-> IF \E r \in ToMove : new[r] = u
                                      THEN Moved(CHOOSE r \in ToMove : new[r] = u)
                                      ELSE value[u]]
  BY DEF CloseUpvalues
<1> DEFINE os == objects(new)
<1>2. /\ \A r \in ToMove : new[r] \in UvObjs /\ value[new[r]] = NoValue
      /\ \A r, q \in ToMove : new[r] = new[q] => r = q
  BY MovedApart
<1>3. /\ T \in Closures /\ Top \in FrameType /\ IsFunction(Top)
      /\ Len(frames) \in DOMAIN frames /\ Top = frames[Len(frames)]
  BY Chain DEF CaptureInv
<1>4. ClosuresTyped /\ Filled
  BY DEF CaptureInv
<1>5. os \in [LocalRegs -> UvObjs \cup {NoUvObj}] /\ \A r \in ToMove : os[r] = new[r]
  <2>1. udGc[T] \in [LocalRegs -> UvObjs \cup {NoUvObj}]
    BY <1>3, <1>4 DEF ClosuresTyped
  <2>2. ToMove \subseteq LocalRegs
    BY DEF ToMove
  <2> QED BY <1>2, <2>1, <2>2
<1> HIDE DEF objects
<1>6. \A r \in ToMove : Moved(r) \in Values
  <2> SUFFICES ASSUME NEW r \in ToMove PROVE Moved(r) \in Values
    OBVIOUS
  <2>1. Top.base + r \in LocalSlots(Top)
    BY <1>3 DEF ToMove, LocalSlots
  <2> QED BY <1>3, <1>4, <2>1 DEF Moved, Filled
<1>7. \A r \in ToMove : value'[new[r]] = Moved(r)
  <2> SUFFICES ASSUME NEW r \in ToMove PROVE value'[new[r]] = Moved(r)
    OBVIOUS
  <2>1. (CHOOSE q \in ToMove : new[q] = new[r]) = r
    BY <1>2
  <2> HIDE DEF ToMove, Moved
  <2> QED BY <1>1, <1>2, <2>1
<1>8. \A u \in UvObjs : value[u] # NoValue => value'[u] = value[u]
  BY <1>1, <1>2
<1>9. value' \in [UvObjs -> Values \cup {NoValue}]
  <2>1. ASSUME NEW u \in UvObjs PROVE value'[u] \in Values \cup {NoValue}
    <3>1. CASE \E r \in ToMove : new[r] = u
      BY <1>6, <1>7, <3>1
    <3>2. CASE ~\E r \in ToMove : new[r] = u
      <4>1. value'[u] = value[u]
        BY <1>1, <3>2
      <4> QED BY <1>4, <4>1 DEF ClosuresTyped
    <3> QED BY <3>1, <3>2
  <2> QED BY <1>1, <2>1
<1>10. ASSUME NEW c \in uped[T]
       PROVE  /\ c \in Closures /\ RegOf(c) \in ToMove
              /\ uv'[c] = InObject(new[RegOf(c)])
  <2>1. c \in Closures /\ RegOf(c) \in ToMove
    BY TopsVariables, AllMove
  <2> HIDE DEF ToMove, RegOf
  <2> QED BY <1>1, <1>5, <2>1
<1>11. uv' \in [Closures -> UvType]
  <2>1. ASSUME NEW c \in Closures PROVE uv'[c] \in UvType
    <3>1. CASE c \in uped[T]
      BY <1>2, <1>10, <3>1, MadeUv
    <3>2. CASE c \notin uped[T]
      BY <1>1, <1>4, <3>2 DEF ClosuresTyped
    <3> QED BY <3>1, <3>2
  <2> QED BY <1>1, <2>1
<1>12. udGc' \in [Closures -> [LocalRegs -> UvObjs \cup {NoUvObj}]]
       /\ \A c \in Closures : c # T => udGc'[c] = udGc[c]
  <2> HIDE DEF T, os
  <2> QED BY <1>1, <1>3, <1>4, <1>5 DEF ClosuresTyped, os
<1>13. ASSUME NEW c \in uped[T] PROVE \E u : Taken(c, u)
  <2>1. Taken(c, new[RegOf(c)])
    BY <1>2, <1>6, <1>7, <1>10, <1>13 DEF Taken
  <2> QED BY <2>1
<1>14. ASSUME NEW c \in uped[T], NEW d \in uped[T]
       PROVE  RegOf(c) = RegOf(d) <=> uv'[c] = uv'[d]
  <2>1. /\ RegOf(c) \in ToMove /\ uv'[c] = InObject(new[RegOf(c)])
        /\ RegOf(d) \in ToMove /\ uv'[d] = InObject(new[RegOf(d)])
    BY <1>10, <1>14
  <2>2. uv'[c] = uv'[d] => new[RegOf(c)] = new[RegOf(d)]
    BY <2>1, ObjectsDiffer
  <2> QED BY <1>2, <2>1, <2>2
<1> QED BY <1>1, <1>8, <1>9, <1>11, <1>12, <1>13, <1>14

(* A function returns to a function, or to C code: those above the m calls *)
(* that go on are C code, but for the newest.                              *)
LEMMA ReturnsKeep ==
  ASSUME CaptureInv, WellNested', InFunction, CloseUpvalues, faults' = {},
         UNCHANGED <<kind, sees>>,
         NEW m \in 0 .. Len(frames) - 1, frames' = SubSeq(frames, 1, m),
         stack' = StackOf(frames'),
         \A i \in m + 1 .. Len(frames) - 1 : ~IsFunction(frames[i])
  PROVE  CaptureInv'
<1> DEFINE T == Top.cls
           n == Len(frames)
<1>1. /\ n \in DOMAIN frames /\ Top = frames[n]
      /\ DOMAIN frames = 1 .. n /\ n \in Nat /\ T \in Closures /\ IsFunction(Top)
      /\ m \in 0 .. n /\ m < n
  BY Chain DEF CaptureInv
<1>2. /\ DOMAIN frames' = 1 .. m /\ \A i \in 1 .. m : frames'[i] = frames[i]
      /\ \A i \in 1 .. m : i \in DOMAIN frames
  <2>1. frames \in Seq(FrameType)
    BY Chain DEF CaptureInv
  <2> QED BY <1>1, <2>1
<1>3. /\ stack' \in [Slots -> Values \cup {NoValue}]
      /\ \A i \in 1 .. m : \A s \in LocalSlots(frames[i]) : stack'[s] = stack[s]
  BY <1>1, StackOfCalls
<1>4. /\ uv' \in [Closures -> UvType]
      /\ udGc' \in [Closures -> [LocalRegs -> UvObjs \cup {NoUvObj}]]
      /\ value' \in [UvObjs -> Values \cup {NoValue}]
      /\ uped' = [uped EXCEPT ![T] = {}]
      /\ \A c \in Closures : c \notin uped[T] => uv'[c] = uv[c]
      /\ \A c \in Closures : c # T => udGc'[c] = udGc[c]
      /\ \A u \in UvObjs : value[u] # NoValue => value'[u] = value[u]
      /\ \A c \in uped[T] : \E u : Taken(c, u)
      /\ \A c, d \in uped[T] : RegOf(c) = RegOf(d) <=> uv'[c] = uv'[d]
  BY Closing
<1>5. /\ ClosuresTyped /\ Filled /\ InUse /\ Noted /\ Found /\ ClosedAlike
      /\ uped \in [Closures -> SUBSET Closures] /\ uv \in [Closures -> UvType]
  BY DEF CaptureInv, ClosuresTyped
<1>6. \A c \in uped[T] :
        /\ c \in Closures /\ uv[c].at = "stack"
        /\ sees[c] = [act |-> Top.act, reg |-> RegOf(c)]
        /\ sees[c].act = Top.act /\ sees[c].reg = RegOf(c)
  <2> HIDE DEF T
  <2>1. \A c \in uped[T] :
          /\ c \in Closures /\ uv[c].at = "stack"
          /\ sees[c] = [act |-> Top.act, reg |-> RegOf(c)]
    BY TopsVariables DEF T
  <2> QED BY <2>1
<1>7. ASSUME NEW c \in uped[T]
      PROVE  \E u \in UvObjs : /\ uv'[c] = InObject(u) /\ uv'[c].at = "gc" /\ uv'[c].obj = u
                               /\ value[u] = NoValue /\ value'[u] # NoValue
  <2>1. PICK u : Taken(c, u)
    BY <1>4
  <2> QED BY <2>1, MadeUv, NoneAssumption DEF Taken
<1>8. /\ uped'[T] = {} /\ \A d \in Closures : d # T => uped'[d] = uped[d]
      /\ uped' \in [Closures -> SUBSET Closures]
  BY <1>1, <1>4, <1>5
<1> HIDE DEF T, n
<1>9. ClosuresTyped'
  BY <1>3, <1>4, <1>5, <1>8 DEF ClosuresTyped
<1>10. Filled'
  <2> SUFFICES ASSUME NEW i \in DOMAIN frames', NEW s \in LocalSlots(frames'[i])
               PROVE  stack'[s] \in Values
    BY DEF Filled, LocalSlots, IsFunction
  <2>1. i \in 1 .. m /\ i \in DOMAIN frames /\ frames'[i] = frames[i]
    BY <1>2
  <2>2. stack'[s] = stack[s] /\ stack[s] \in Values
    BY <1>3, <1>5, <2>1 DEF Filled
  <2> QED BY <2>2
<1>11. InUse'
  <2>1. ASSUME NEW i \in DOMAIN frames', IsFunction(frames'[i])
        PROVE  kind'[frames'[i].cls] # "free"
    BY <1>2, <1>5, <2>1 DEF InUse
  <2>2. ASSUME NEW c \in Closures, kind[c] = "free" PROVE uv'[c] = NoUv /\ uped'[c] = {}
    <3>1. uv[c] = NoUv /\ uped[c] = {}
      BY <1>5, <2>2 DEF InUse
    <3>2. c \notin uped[T]
      BY <1>6, <3>1, MadeUv
    <3> QED BY <1>1, <1>4, <1>8, <3>1, <3>2
  <2> QED BY <2>1, <2>2 DEF InUse, IsFunction
<1>12. ASSUME NEW c \in Closures, c \notin uped[T]
       PROVE  uv'[c] = uv[c] /\ ~(uv[c].at = "stack" /\ uv[c].owner = T)
  BY <1>1, <1>4, <1>5, <1>12 DEF Noted
<1>13. Noted'
  <2> SUFFICES ASSUME NEW c \in Closures, NEW d \in Closures
               PROVE  c \in uped'[d] <=> uv'[c].at = "stack" /\ uv'[c].owner = d
    BY DEF Noted
  <2>1. CASE c \in uped[T]
    <3>1. uv[c].owner = T /\ uv'[c].at = "gc"
      BY <1>1, <1>5, <1>7, <2>1 DEF Noted
    <3>2. c \notin uped'[d]
      BY <1>5, <1>8, <3>1 DEF Noted
    <3> QED BY <3>1, <3>2
  <2>2. CASE c \notin uped[T]
    BY <1>1, <1>5, <1>8, <1>12, <2>2 DEF Noted
  <2> QED BY <2>1, <2>2
<1>14. Found'
  <2> SUFFICES ASSUME NEW c \in Closures PROVE Placed(uv[c], sees[c])'
    BY DEF Found
  <2>0. Placed(uv[c], sees[c])
    BY <1>5 DEF Found
  <2>1. CASE c \in uped[T]
    <3>1. PICK u \in UvObjs : /\ uv'[c] = InObject(u) /\ uv'[c].at = "gc" /\ uv'[c].obj = u
                              /\ value[u] = NoValue /\ value'[u] # NoValue
      BY <1>7, <2>1
    <3>2. uv'[c] # NoUv /\ sees[c] # NoCell
      BY <1>6, <2>0, <2>1, <3>1, MadeUv DEF Placed
    <3>3. ASSUME NEW i \in 1 .. m PROVE frames[i].act # sees[c].act
      <4>1. sees[c].act = Top.act
        BY <1>6, <2>1
      <4>2. i \in DOMAIN frames /\ i # n
        BY <1>1, <1>2
      <4> QED BY <1>1, <4>1, <4>2, ActsDiffer DEF CaptureInv
    <3> QED BY <1>2, <3>1, <3>2, <3>3 DEF Placed, Ended
  <2>2. CASE c \notin uped[T]
    <3>1. uv'[c] = uv[c] /\ ~(uv[c].at = "stack" /\ uv[c].owner = T)
      BY <1>12, <2>2
    <3>2. ASSUME uv[c].at = "stack"
          PROVE  \E i \in DOMAIN frames', r \in LocalRegs : InPlace(uv[c], sees[c], i, r)'
      <4>1. PICK i \in DOMAIN frames, r \in LocalRegs : InPlace(uv[c], sees[c], i, r)
        BY <2>0, <3>2 DEF Placed
      <4>2. uv[c].owner \in Closures /\ uv[c].owner # T /\ frames[i].cls = uv[c].owner
        BY <3>1, <3>2, <4>1, OwnersRun DEF InPlace
      <4>3. i \in 1 .. m
        <5>1. i # n /\ ~(i \in m + 1 .. n - 1)
          BY <1>1, <4>2, NoneAssumption DEF IsFunction, T, n
        <5> QED BY <1>1, <5>1
      <4>4. Latest(i)'
        BY <1>1, <1>2, <4>1, <4>3 DEF Latest, InPlace
      <4>5. InPlace(uv[c], sees[c], i, r)'
        BY <1>2, <3>1, <4>1, <4>3, <4>4 DEF InPlace
      <4> QED BY <1>2, <4>3, <4>5
    <3>3. ASSUME uv[c].at = "gc" PROVE value'[uv[c].obj] # NoValue /\ Ended(sees[c])'
      <4>1. uv[c].obj \in UvObjs /\ value[uv[c].obj] # NoValue /\ Ended(sees[c])
        BY <1>5, <2>0, <3>3, UvKinds DEF Placed
      <4> QED BY <1>2, <1>4, <4>1 DEF Ended
    <3> QED BY <2>0, <3>1, <3>2, <3>3 DEF Placed
  <2> QED BY <2>1, <2>2
<1>15. ClosedAlike'
  <2>1. ASSUME NEW c \in uped[T], NEW d \in Closures, d \notin uped[T], uv[d].at = "gc"
        PROVE  sees[c] # sees[d] /\ uv'[c] # uv'[d]
    <3>1. uv[d] = InObject(uv[d].obj) /\ value[uv[d].obj] # NoValue /\ Ended(sees[d])
      BY <1>5, <2>1, UvKinds DEF Found, Placed
    <3>2. sees[c].act = Top.act
      BY <1>6
    <3>3. sees[c] # sees[d]
      BY <1>1, <3>1, <3>2 DEF Ended
    <3>4. PICK u \in UvObjs : uv'[c] = InObject(u) /\ value[u] = NoValue
      BY <1>7
    <3>5. uv'[d] = uv[d]
      BY <1>12, <2>1
    <3> QED BY <3>1, <3>3, <3>4, <3>5, ObjectsDiffer
  <2>2. ASSUME NEW c \in uped[T], NEW d \in uped[T]
        PROVE  sees[c] = sees[d] <=> uv'[c] = uv'[d]
    <3>1. sees[c] = sees[d] <=> RegOf(c) = RegOf(d)
      BY <1>6
    <3> QED BY <1>4, <3>1
  <2>3. ASSUME NEW c \in Closures, NEW d \in Closures, uv'[c].at = "gc", uv'[d].at = "gc"
        PROVE  sees[c] = sees[d] <=> uv'[c] = uv'[d]
    <3>1. CASE c \in uped[T] /\ d \in uped[T]
      BY <2>2, <3>1
    <3>2. CASE c \in uped[T] /\ d \notin uped[T]
      BY <1>12, <2>1, <2>3, <3>2
    <3>3. CASE c \notin uped[T] /\ d \in uped[T]
      BY <1>12, <2>1, <2>3, <3>3
    <3>4. CASE c \notin uped[T] /\ d \notin uped[T]
      BY <1>5, <1>12, <2>3, <3>4 DEF ClosedAlike
    <3> QED BY <3>1, <3>2, <3>3, <3>4
  <2> QED BY <2>3 DEF ClosedAlike
<1> QED BY <1>9, <1>10, <1>11, <1>13, <1>14, <1>15 DEF CaptureInv

-----------------------------------------------------------------------------
(* Assignments, new closures and freed ones.                               *)

LEMMA SetLocalKeeps ==
  ASSUME CaptureInv, WellNested', SetLocal
  PROVE  CaptureInv'
<1>1. PICK r \in LocalRegs, v \in Values : stack' = [stack EXCEPT ![Top.base + r] = v]
  BY DEF SetLocal
<1>2. UNCHANGED <<frames, jps, kind, uv, uped, udGc, value, sees>>
  BY DEF SetLocal, closures
<1>3. ClosuresTyped'
  BY <1>1, <1>2 DEF CaptureInv, ClosuresTyped
<1>4. \A s \in Slots : stack[s] \in Values => stack'[s] \in Values
  BY <1>1 DEF CaptureInv, ClosuresTyped
<1>5. Filled'
  <2> SUFFICES ASSUME NEW i \in DOMAIN frames, NEW s \in LocalSlots(frames[i])
               PROVE  stack'[s] \in Values
    BY <1>2 DEF Filled
  <2>1. s \in Slots
    BY Chain, SlotsFit DEF CaptureInv, LocalSlots
  <2> QED BY <1>4, <2>1 DEF CaptureInv, Filled
<1>6. InUse' /\ Noted' /\ Found' /\ ClosedAlike'
  BY <1>2 DEF CaptureInv, InUse, Noted, Found, Placed, InPlace, Latest, Ended, ClosedAlike
<1> QED BY <1>3, <1>5, <1>6 DEF CaptureInv

LEMMA SetUpvalueKeeps ==
  ASSUME CaptureInv, WellNested', SetUpvalue
  PROVE  CaptureInv'
<1>1. UNCHANGED <<frames, jps, kind, uv, uped, udGc, sees>>
  BY DEF SetUpvalue, closures
<1>2. ClosuresTyped /\ Filled
  BY DEF CaptureInv
<1>3. /\ stack' \in [Slots -> Values \cup {NoValue}]
      /\ value' \in [UvObjs -> Values \cup {NoValue}]
      /\ \A s \in Slots : stack[s] \in Values => stack'[s] \in Values
      /\ \A u \in UvObjs : value[u] # NoValue => value'[u] # NoValue
  <2>1. PICK v \in Values :
          \/ stack' = [stack EXCEPT ![uv[Top.cls].idx] = v] /\ UNCHANGED value
          \/ value' = [value EXCEPT ![uv[Top.cls].obj] = v] /\ UNCHANGED stack
    BY DEF SetUpvalue
  <2>2. /\ stack \in [Slots -> Values \cup {NoValue}]
        /\ value \in [UvObjs -> Values \cup {NoValue}] /\ v # NoValue
    BY <1>2, NoneAssumption DEF ClosuresTyped
  <2>3. CASE stack' = [stack EXCEPT ![uv[Top.cls].idx] = v] /\ UNCHANGED value
    BY <2>2, <2>3
  <2>4. CASE value' = [value EXCEPT ![uv[Top.cls].obj] = v] /\ UNCHANGED stack
    BY <2>2, <2>4
  <2> QED BY <2>1, <2>3, <2>4
<1>4. ClosuresTyped'
  BY <1>1, <1>2, <1>3 DEF ClosuresTyped
<1>5. Filled'
  <2> SUFFICES ASSUME NEW i \in DOMAIN frames, NEW s \in LocalSlots(frames[i])
               PROVE  stack'[s] \in Values
    BY <1>1 DEF Filled
  <2>1. s \in Slots
    BY Chain, SlotsFit DEF CaptureInv, LocalSlots
  <2> QED BY <1>2, <1>3, <2>1 DEF Filled
<1>6. Found'
  <2> SUFFICES ASSUME NEW c \in Closures PROVE Placed(uv[c], sees[c])'
    BY DEF Found
  <2>1. Placed(uv[c], sees[c]) /\ uv[c] \in UvType
    BY <1>2 DEF CaptureInv, Found, ClosuresTyped
  <2>2. uv[c].at = "gc" => value'[uv[c].obj] # NoValue
    BY <1>3, <2>1, UvKinds DEF Placed
  <2> QED BY <1>1, <2>1, <2>2 DEF Placed, InPlace, Latest, Ended
<1>7. InUse' /\ Noted' /\ ClosedAlike'
  BY <1>1 DEF CaptureInv, InUse, Noted, ClosedAlike
<1> QED BY <1>4, <1>5, <1>6, <1>7 DEF CaptureInv

(* A new closure c captures x, which is at w.                              *)
LEMMA MakeKeeps ==
  ASSUME CaptureInv, WellNested', NEW c \in Closures,
         NEW w \in UvType, NEW x \in [act : Activations, reg : LocalRegs] \cup {NoCell},
         Make(c, w, x), NoteShared(c, w),
         Placed(w, x),
         w.at = "stack" => kind[w.owner] # "free",
         w.at = "gc" =>
           \A d \in Closures : uv[d].at = "gc" => (x = sees[d] <=> w = uv[d])
  PROVE  CaptureInv'
<1>1. /\ ClosuresTyped /\ Filled /\ InUse /\ Noted /\ Found /\ ClosedAlike
      /\ uv \in [Closures -> UvType] /\ uped \in [Closures -> SUBSET Closures]
      /\ kind \in [Closures -> {"free", "function", "chunk"}]
  BY DEF CaptureInv, ClosuresTyped
<1>2. /\ kind[c] = "free" /\ uv[c] = NoUv /\ uv[c].at = "none" /\ uped[c] = {}
  <2>1. kind[c] = "free" /\ uv[c] = NoUv
    BY <1>1 DEF Make, InUse
  <2> QED BY <1>1, <2>1, MadeUv DEF InUse
<1>3. /\ kind' = [kind EXCEPT ![c] = "function"] /\ uv' = [uv EXCEPT ![c] = w]
      /\ sees' = [sees EXCEPT ![c] = x]
      /\ UNCHANGED <<frames, stack, jps, udGc, value>>
  BY DEF Make
<1>4. /\ uv'[c] = w /\ sees'[c] = x /\ kind'[c] = "function"
      /\ \A d \in Closures :
           d # c => uv'[d] = uv[d] /\ sees'[d] = sees[d] /\ kind'[d] = kind[d]
      /\ uv' \in [Closures -> UvType] /\ kind' \in [Closures -> {"free", "function", "chunk"}]
      /\ sees' \in [Closures -> [act : Activations, reg : LocalRegs] \cup {NoCell}]
  BY <1>1, <1>3 DEF ClosuresTyped
<1>5. /\ uped' \in [Closures -> SUBSET Closures]
      /\ \A d \in Closures : uped'[d] = IF w.at = "stack" /\ w.owner = d
                                        THEN uped[d] \cup {c} ELSE uped[d]
  <2>1. CASE w.at = "stack"
    <3>1. uped' = [uped EXCEPT ![w.owner] = @ \cup {c}] /\ w.owner \in Closures
      BY <2>1, UvKinds DEF NoteShared
    <3> QED BY <1>1, <2>1, <3>1
  <2>2. CASE w.at # "stack"
    BY <1>1, <2>2 DEF NoteShared
  <2> QED BY <2>1, <2>2
<1>6. ClosuresTyped'
  BY <1>1, <1>3, <1>4, <1>5 DEF ClosuresTyped
<1>7. Filled'
  BY <1>1, <1>3 DEF Filled
<1>8. InUse'
  <2>1. ASSUME NEW i \in DOMAIN frames, IsFunction(frames[i])
        PROVE  kind'[frames[i].cls] # "free"
    <3>1. frames[i].cls \in Closures
      BY <2>1, Chain DEF CaptureInv
    <3> QED BY <1>1, <1>2, <1>4, <2>1, <3>1 DEF InUse
  <2>2. ASSUME NEW d \in Closures
        PROVE  kind'[d] = "free" => uv'[d] = NoUv /\ uped'[d] = {}
    BY <1>1, <1>2, <1>4, <1>5 DEF InUse
  <2> QED BY <1>3, <2>1, <2>2 DEF InUse
<1>9. Noted'
  <2> SUFFICES ASSUME NEW e \in Closures, NEW d \in Closures
               PROVE  e \in uped'[d] <=> uv'[e].at = "stack" /\ uv'[e].owner = d
    BY DEF Noted
  <2>1. e \in uped[d] <=> uv[e].at = "stack" /\ uv[e].owner = d
    BY <1>1 DEF Noted
  <2> QED BY <1>2, <1>4, <1>5, <2>1
<1>10. Found'
  <2> SUFFICES ASSUME NEW d \in Closures PROVE Placed(uv[d], sees[d])'
    BY DEF Found
  <2>1. CASE d = c
    BY <1>3, <1>4, <2>1 DEF Placed, InPlace, Latest, Ended
  <2>2. CASE d # c
    <3>1. Placed(uv[d], sees[d])
      BY <1>1 DEF Found
    <3> QED BY <1>3, <1>4, <2>2, <3>1 DEF Placed, InPlace, Latest, Ended
  <2> QED BY <2>1, <2>2
<1>11. ClosedAlike'
  <2> SUFFICES ASSUME NEW d \in Closures, NEW e \in Closures,
                      uv'[d].at = "gc", uv'[e].at = "gc"
               PROVE  sees'[d] = sees'[e] <=> uv'[d] = uv'[e]
    BY DEF ClosedAlike
  <2>1. d # c /\ e # c => (sees[d] = sees[e] <=> uv[d] = uv[e])
    BY <1>1, <1>4 DEF ClosedAlike
  <2>2. ASSUME NEW f \in Closures, uv'[f].at = "gc", w.at = "gc"
        PROVE  x = sees'[f] <=> w = uv'[f]
    BY <1>4, <2>2
  <2> QED BY <1>4, <2>1, <2>2
<1> QED BY <1>6, <1>7, <1>8, <1>9, <1>10, <1>11 DEF CaptureInv

LEMMA MakesKeep ==
  ASSUME CaptureInv, WellNested', NEW c \in Closures,
         MakePlain(c) \/ MakeOverLocal(c) \/ MakeOverUpvalue(c)
  PROVE  CaptureInv'
<1>1. /\ ClosuresTyped /\ InUse /\ Found /\ ClosedAlike /\ InFunction
      /\ uped \in [Closures -> SUBSET Closures]
  BY DEF CaptureInv, ClosuresTyped, MakePlain, MakeOverLocal, MakeOverUpvalue
<1>2. /\ Len(frames) \in DOMAIN frames /\ Top = frames[Len(frames)]
      /\ Top.cls \in Closures /\ Top \in FrameType /\ IsFunction(Top) /\ Top.base \in Nat
      /\ DOMAIN frames = 1 .. Len(frames) /\ Len(frames) \in Nat
  BY <1>1, Chain DEF CaptureInv
<1>3. CASE MakePlain(c)
  <2>1. NoUv \in UvType /\ NoUv.at = "none"
    BY MadeUv
  <2>2. Placed(NoUv, NoCell)
    BY <2>1 DEF Placed
  <2> QED BY <1>3, <2>1, <2>2, MakeKeeps DEF MakePlain, NoteShared
<1>4. CASE MakeOverLocal(c)
  <2>1. PICK r \in LocalRegs :
          Make(c, OnStack(Top.cls, Top.base + r), [act |-> Top.act, reg |-> r])
    BY <1>4 DEF MakeOverLocal
  <2> DEFINE w == OnStack(Top.cls, Top.base + r)
             x == [act |-> Top.act, reg |-> r]
  <2>2. /\ w \in UvType /\ w.at = "stack" /\ w.owner = Top.cls
        /\ w.idx = Top.base + r
    BY <1>2, SlotsFit, MadeUv
  <2>3. x \in [act : Activations, reg : LocalRegs]
    <3>1. Top.act \in Activations
      <4>1. Top.act # NoActivation
        BY <1>2, Chain DEF CaptureInv, Identified
      <4> QED BY <1>2, <4>1, FrameFields
    <3> QED BY <3>1
  <2>4. NoteShared(c, w) /\ kind[w.owner] # "free"
    BY <1>1, <1>2, <1>4, <2>2 DEF MakeOverLocal, NoteShared, InUse
  <2>5. Make(c, w, x) /\ w.idx = frames[Len(frames)].base + r
        /\ x = [act |-> frames[Len(frames)].act, reg |-> r]
    BY <1>2, <2>1, <2>2
  <2> HIDE DEF w, x
  <2>6. Placed(w, x)
    <3>1. Latest(Len(frames))
      BY <1>2 DEF Latest
    <3>2. InPlace(w, x, Len(frames), r)
      BY <1>2, <2>2, <2>5, <3>1 DEF InPlace
    <3>3. w # NoUv /\ x # NoCell
      BY <2>2, <2>3, MadeUv, NoneAssumption DEF LocalRegs
    <3> QED BY <1>2, <2>2, <3>2, <3>3 DEF Placed
  <2> QED BY <2>2, <2>3, <2>4, <2>5, <2>6, MakeKeeps
<1>5. CASE MakeOverUpvalue(c)
  <2> DEFINE w == uv[Top.cls]
             x == sees[Top.cls]
  <2>1. /\ w \in UvType /\ x \in [act : Activations, reg : LocalRegs] \cup {NoCell}
        /\ Placed(w, x)
    BY <1>1, <1>2 DEF ClosuresTyped, Found
  <2>2. w.at = "stack" => kind[w.owner] # "free"
    BY <1>1, <1>2, OwnersRun DEF InUse
  <2>3. w.at = "gc" =>
          \A d \in Closures : uv[d].at = "gc" => (x = sees[d] <=> w = uv[d])
    BY <1>1, <1>2 DEF ClosedAlike
  <2>4. Make(c, w, x) /\ NoteShared(c, w)
    BY <1>5 DEF MakeOverUpvalue
  <2> HIDE DEF w, x
  <2> QED BY <2>1, <2>2, <2>3, <2>4, MakeKeeps
<1> QED BY <1>3, <1>4, <1>5

LEMMA FreeKeeps ==
  ASSUME faults' = {}, CaptureInv, WellNested', NEW c \in Closures, Free(c)
  PROVE  CaptureInv'
<1>1. /\ ClosuresTyped /\ Filled /\ InUse /\ Noted /\ Found /\ ClosedAlike
      /\ uv \in [Closures -> UvType] /\ uped \in [Closures -> SUBSET Closures]
      /\ value \in [UvObjs -> Values \cup {NoValue}]
  BY DEF CaptureInv, ClosuresTyped
<1>2. /\ ~Running(c) /\ \A d \in Closures : c \notin uped[d]
      /\ kind' = [kind EXCEPT ![c] = "free"] /\ uv' = [uv EXCEPT ![c] = NoUv]
      /\ uped' = [uped EXCEPT ![c] = {}] /\ sees' = [sees EXCEPT ![c] = NoCell]
      /\ udGc' = [udGc EXCEPT ![c] = [r \in LocalRegs |-> NoUvObj]]
      /\ value' = [u \in UvObjs |-> IF \E d \in Closures \ {c} : uv[d] = InObject(u)
                                    THEN value[u] ELSE NoValue]
      /\ UNCHANGED <<frames, stack, jps>>
  BY DEF Free, Strikes
<1>3. /\ kind'[c] = "free" /\ uv'[c] = NoUv /\ uv'[c].at = "none" /\ uped'[c] = {}
      /\ sees'[c] = NoCell
      /\ \A d \in Closures : d # c => /\ kind'[d] = kind[d] /\ uv'[d] = uv[d]
                                      /\ uped'[d] = uped[d] /\ sees'[d] = sees[d]
                                      /\ udGc'[d] = udGc[d]
  BY <1>1, <1>2, MadeUv DEF ClosuresTyped
<1>4. /\ uv' \in [Closures -> UvType] /\ uped' \in [Closures -> SUBSET Closures]
      /\ value' \in [UvObjs -> Values \cup {NoValue}]
      /\ kind' \in [Closures -> {"free", "function", "chunk"}]
      /\ sees' \in [Closures -> [act : Activations, reg : LocalRegs] \cup {NoCell}]
      /\ udGc' \in [Closures -> [LocalRegs -> UvObjs \cup {NoUvObj}]]
  <2>1. NoUv \in UvType
    BY MadeUv
  <2> QED BY <1>1, <1>2, <2>1 DEF ClosuresTyped
<1>5. ClosuresTyped'
  BY <1>1, <1>2, <1>4 DEF ClosuresTyped
<1>6. Filled'
  BY <1>1, <1>2 DEF Filled
<1>7. \A d \in Closures : uv[d].at = "stack" => uv[d].owner # c /\ uv[d].owner \in Closures
  BY <1>2, OwnersRun DEF InPlace, Running
<1>8. uped[c] = {}
  BY <1>1, <1>7 DEF Noted
<1>9. InUse'
  <2>1. ASSUME NEW i \in DOMAIN frames, IsFunction(frames[i])
        PROVE  kind'[frames[i].cls] # "free"
    <3>1. frames[i].cls \in Closures /\ frames[i].cls # c
      BY <1>2, <2>1, Chain DEF CaptureInv, Running
    <3> QED BY <1>1, <1>3, <2>1, <3>1 DEF InUse
  <2>2. ASSUME NEW d \in Closures
        PROVE  kind'[d] = "free" => uv'[d] = NoUv /\ uped'[d] = {}
    BY <1>1, <1>3 DEF InUse
  <2> QED BY <1>2, <2>1, <2>2 DEF InUse
<1>10. Noted'
  <2> SUFFICES ASSUME NEW e \in Closures, NEW d \in Closures
               PROVE  e \in uped'[d] <=> uv'[e].at = "stack" /\ uv'[e].owner = d
    BY DEF Noted
  <2>1. e \in uped[d] <=> uv[e].at = "stack" /\ uv[e].owner = d
    BY <1>1 DEF Noted
  <2> QED BY <1>2, <1>3, <1>8, <2>1
<1>11. Found'
  <2> SUFFICES ASSUME NEW d \in Closures PROVE Placed(uv[d], sees[d])'
    BY DEF Found
  <2>1. CASE d = c
    BY <1>3, <2>1 DEF Placed
  <2>2. CASE d # c
    <3>1. Placed(uv[d], sees[d])
      BY <1>1 DEF Found
    <3>2. uv[d].at = "gc" => value'[uv[d].obj] # NoValue
      <4>1. uv[d].at = "gc" => /\ uv[d] = InObject(uv[d].obj) /\ uv[d].obj \in UvObjs
                               /\ value[uv[d].obj] # NoValue
        BY <1>1, <3>1, UvKinds DEF Placed
      <4>2. ASSUME NEW u \in UvObjs, uv[d] = InObject(u) PROVE value'[u] = value[u]
        BY <1>2, <2>2, <4>2
      <4> QED BY <4>1, <4>2
    <3>3. uv'[d] = uv[d] /\ sees'[d] = sees[d]
      BY <1>3, <2>2
    <3>4. ASSUME uv[d].at = "stack"
          PROVE  \E i \in DOMAIN frames, r \in LocalRegs : InPlace(uv[d], sees[d], i, r)'
      <4>1. PICK i \in DOMAIN frames, r \in LocalRegs : InPlace(uv[d], sees[d], i, r)
        BY <3>1, <3>4 DEF Placed
      <4>2. InPlace(uv[d], sees[d], i, r)'
        BY <1>2, <3>3, <3>4, <4>1 DEF InPlace, Latest
      <4> QED BY <4>2
    <3> QED BY <1>2, <3>1, <3>2, <3>3, <3>4 DEF Placed, Ended
  <2> QED BY <2>1, <2>2
<1>12. ClosedAlike'
  BY <1>1, <1>3 DEF ClosedAlike
<1> QED BY <1>5, <1>6, <1>9, <1>10, <1>11, <1>12 DEF CaptureInv

-----------------------------------------------------------------------------
(* Every step of the virtual machine.                                      *)

(* What callinfo_new has done once frame f is on top of fr: init are the   *)
(* first values of the variables.                                          *)
NewCall(fr, f, init) ==
  /\ frames' = Append(fr, f)
  /\ IsFunction(f) /\ f \in FrameType
  /\ Len(fr) + 1 \in DOMAIN frames' /\ frames'[Len(fr) + 1] = f
  /\ fr = << >> \/ Len(fr) + 1 # 1
  /\ \A i \in DOMAIN frames : i \in DOMAIN frames' /\ frames'[i] = frames[i]
  /\ \A i \in DOMAIN frames' :
       \/ i \in DOMAIN frames
       \/ frames'[i] = CFrame(f.base)
       \/ i = Len(fr) + 1
  /\ stack' \in [Slots -> Values \cup {NoValue}]
  /\ init \in [LocalRegs -> Values]
  /\ \A r \in LocalRegs : stack'[f.base + r] = init[r]
  /\ \A i \in DOMAIN frames : \A s \in LocalSlots(frames[i]) : stack'[s] = stack[s]

LEMMA PushIs ==
  ASSUME CaptureInv, WellNested', NEW c \in Closures, NEW fr, NEW base,
         fr = frames \/ fr = Append(frames, CFrame(base)),
         PushFunction(fr, c, base)
  PROVE  \E a \in UnusedActivations, init \in [LocalRegs -> Values] :
           NewCall(fr, [cls |-> c, base |-> base, act |-> a], init)
<1>1. PICK a \in UnusedActivations, init \in [LocalRegs -> Values] :
        /\ frames' = Append(fr, [cls |-> c, base |-> base, act |-> a])
        /\ stack' = [s \in Slots |-> IF s \in {base + r : r \in LocalRegs}
                                     THEN init[s - base] ELSE stack[s]]
  BY DEF PushFunction
<1> DEFINE f == [cls |-> c, base |-> base, act |-> a]
<1>2. /\ frames \in Seq(FrameType) /\ DOMAIN frames = 1 .. Len(frames)
      /\ Len(frames) \in Nat
  BY Chain DEF CaptureInv
<1>3. /\ fr # << >> \/ Len(fr) = 0
      /\ Len(fr) \in Nat /\ DOMAIN frames' = 1 .. Len(fr) + 1 /\ frames'[Len(fr) + 1] = f
      /\ \A i \in 1 .. Len(fr) : frames'[i] = fr[i]
      /\ \A i \in 1 .. Len(frames) : i \in 1 .. Len(fr) /\ fr[i] = frames[i]
      /\ \A i \in 1 .. Len(fr) : i \in 1 .. Len(frames) \/ fr[i] = CFrame(base)
  <2>1. CASE fr = frames
    <3>1. fr \in Seq(FrameType)
      BY <1>2, <2>1
    <3>2. /\ DOMAIN frames' = 1 .. Len(fr) + 1 /\ frames'[Len(fr) + 1] = f
          /\ \A i \in 1 .. Len(fr) : frames'[i] = fr[i]
      BY <1>1, <3>1, AppendIs
    <3> QED BY <1>2, <2>1, <3>2
  <2>2. CASE fr = Append(frames, CFrame(base))
    <3> DEFINE S == FrameType \cup {CFrame(base)}
    <3>1. frames \in Seq(S) /\ CFrame(base) \in S
      <4>1. \A i \in 1 .. Len(frames) : frames[i] \in S
        BY <1>2
      <4> QED BY <1>2, <4>1
    <3>2. /\ fr \in Seq(S) /\ Len(fr) = Len(frames) + 1
          /\ \A i \in 1 .. Len(frames) : fr[i] = frames[i]
          /\ fr[Len(frames) + 1] = CFrame(base)
      BY <2>2, <3>1, AppendIs
    <3> HIDE DEF S
    <3>3. /\ DOMAIN frames' = 1 .. Len(fr) + 1 /\ frames'[Len(fr) + 1] = f
          /\ \A i \in 1 .. Len(fr) : frames'[i] = fr[i]
      BY <1>1, <3>2, AppendIs
    <3>4. fr # << >>
      BY <1>2, <3>2
    <3>5. \A i \in 1 .. Len(fr) : i \in 1 .. Len(frames) \/ i = Len(frames) + 1
      BY <1>2, <3>2
    <3>6. \A i \in 1 .. Len(frames) : i \in 1 .. Len(fr)
      BY <1>2, <3>2
    <3>7. Len(fr) \in Nat
      BY <1>2, <3>2
    <3> QED BY <3>2, <3>3, <3>4, <3>5, <3>6, <3>7
  <2> QED BY <2>1, <2>2
<1>4. \A i \in DOMAIN frames : i \in DOMAIN frames' /\ frames'[i] = frames[i]
  <2>1. \A i \in 1 .. Len(fr) : i \in 1 .. Len(fr) + 1
    BY <1>3
  <2> QED BY <1>2, <1>3, <2>1
<1>5. /\ IsFunction(f) /\ LocalSlots(f) = {base + r : r \in LocalRegs}
      /\ Len(fr) + 1 \in DOMAIN frames' /\ f \in FrameType /\ base \in Nat
      /\ \A s \in LocalSlots(f) : s \in Slots
  <2>1. IsFunction(f)
    BY NoneAssumption DEF IsFunction
  <2>2. Len(fr) + 1 \in DOMAIN frames'
    BY <1>3
  <2>3. f \in FrameType
    <3>1. \A i \in DOMAIN frames' : frames'[i] \in FrameType
      <4>1. frames' \in Seq(FrameType)
        BY DEF WellNested, WellCalled
      <4> QED BY <4>1
    <3> QED BY <1>3, <2>2, <3>1
  <2>4. f.base \in Nat
    BY <2>3, FrameFields
  <2> QED BY <2>1, <2>2, <2>3, <2>4, SlotsFit DEF LocalSlots
<1>6. /\ \A r \in LocalRegs : stack'[base + r] = init[r]
      /\ \A s \in Slots : s \notin LocalSlots(f) => stack'[s] = stack[s]
      /\ stack' \in [Slots -> Values \cup {NoValue}]
  <2>1. \A r \in LocalRegs : (base + r) - base = r
    <3> SUFFICES ASSUME NEW r \in LocalRegs PROVE (base + r) - base = r
      OBVIOUS
    <3>1. r \in Nat
      BY DEF LocalRegs
    <3> QED BY <1>5, <3>1
  <2>2. \A s \in {base + r : r \in LocalRegs} : init[s - base] \in Values
    BY <2>1
  <2>3. stack \in [Slots -> Values \cup {NoValue}]
    BY DEF CaptureInv, ClosuresTyped
  <2> HIDE DEF f
  <2>4. ASSUME NEW r \in LocalRegs PROVE stack'[base + r] = init[r]
    <3>1. base + r \in Slots /\ base + r \in {base + q : q \in LocalRegs}
      BY <1>5
    <3>2. stack'[base + r] = init[(base + r) - base]
      BY <1>1, <3>1
    <3> QED BY <2>1, <3>2
  <2> QED BY <1>1, <1>5, <2>2, <2>3, <2>4
<1>7. \A i \in DOMAIN frames : \A s \in LocalSlots(frames[i]) : stack'[s] = stack[s]
  <2> SUFFICES ASSUME NEW i \in DOMAIN frames, NEW s \in LocalSlots(frames[i])
               PROVE  stack'[s] = stack[s]
    OBVIOUS
  <2>1. s \in Slots
    BY Chain, SlotsFit DEF CaptureInv, LocalSlots
  <2>2. i < Len(fr) + 1
    BY <1>2, <1>3
  <2>3. frames' \in Seq(FrameType) /\ LaidOut(frames')
    BY DEF WellNested, WellCalled
  <2>4. LocalSlots(f) \cap LocalSlots(frames[i]) = {}
    BY <1>3, <1>4, <1>5, <2>2, <2>3, SlotsApart
  <2> QED BY <1>6, <2>1, <2>4
<1>8. ASSUME NEW i \in DOMAIN frames'
      PROVE  \/ i \in DOMAIN frames
             \/ frames'[i] = CFrame(base)
             \/ i = Len(fr) + 1
  <2>1. i \in 1 .. Len(fr) \/ i = Len(fr) + 1
    BY <1>3
  <2>2. CASE i \in 1 .. Len(fr)
    BY <1>2, <1>3, <2>2
  <2> QED BY <2>1, <2>2
<1>9. f.base = base /\ (fr = << >> \/ Len(fr) + 1 # 1)
  BY <1>3
<1>10. frames' = Append(fr, f)
  BY <1>1
<1> HIDE DEF f
<1>11. NewCall(fr, f, init)
  BY <1>3, <1>4, <1>5, <1>6, <1>7, <1>8, <1>9, <1>10 DEF NewCall
<1> QED BY <1>11 DEF f

LEMMA PushKeeps ==
  ASSUME CaptureInv, WellNested', NEW c \in Closures, NEW fr, NEW base,
         fr = frames \/ fr = Append(frames, CFrame(base)),
         PushFunction(fr, c, base), faults' = {},
         UNCHANGED <<uv, uped, udGc, value, sees>>,
         kind' \in [Closures -> {"free", "function", "chunk"}],
         \A d \in Closures : \/ kind'[d] = kind[d]
                             \/ kind[d] = "free" /\ kind'[d] = "chunk",
         kind'[c] # "free"
  PROVE  CaptureInv'
<1>1. PICK a \in UnusedActivations, init \in [LocalRegs -> Values] :
        NewCall(fr, [cls |-> c, base |-> base, act |-> a], init)
  BY PushIs
<1> DEFINE f == [cls |-> c, base |-> base, act |-> a]
<1>2. f.cls = c /\ f.act = a /\ f.base = base
  OBVIOUS
<1> HIDE DEF f
<1>3. NewCall(fr, f, init)
  BY <1>1 DEF f
<1>4. \A s \in LocalSlots(f) : stack'[s] \in Values
  BY <1>3 DEF NewCall, LocalSlots
<1>5. ASSUME NEW i \in DOMAIN frames'
      PROVE  i \in DOMAIN frames \/ NewFrame(frames'[i])
  <2>1. CASE frames'[i] = CFrame(f.base)
    BY <2>1 DEF NewFrame, CFrame, IsFunction
  <2>2. CASE i = Len(fr) + 1
    <3>1. frames'[i] = f
      BY <1>3, <2>2 DEF NewCall
    <3>2. uped[c] = {}
      BY DEF PushFunction, Strikes
    <3>3. \A d \in Closures : sees[d] # NoCell => sees[d].act # a
      BY UnusedIsNew
    <3> QED BY <1>2, <1>4, <3>1, <3>2, <3>3 DEF NewFrame
  <2> QED BY <1>3, <2>1, <2>2 DEF NewCall
<1> QED BY <1>3, <1>5, CallsKeep DEF NewCall

LEMMA CallsOfFunctionsKeep ==
  ASSUME faults' = {}, CaptureInv, WellNested', NEW c \in Closures,
         Load(c) \/ PCall(c) \/ Call(c)
  PROVE  CaptureInv'
<1>1. kind \in [Closures -> {"free", "function", "chunk"}]
  BY DEF CaptureInv, ClosuresTyped
<1>2. CASE Load(c)
  <2>1. PushFunction(frames, c, BaseFromC) /\ UNCHANGED <<uv, uped, udGc, value, sees>>
    BY <1>2 DEF Load
  <2>2. /\ kind' \in [Closures -> {"free", "function", "chunk"}] /\ kind'[c] = "chunk"
        /\ \A d \in Closures : \/ kind'[d] = kind[d]
                               \/ kind[d] = "free" /\ kind'[d] = "chunk"
    BY <1>1, <1>2 DEF Load
  <2> QED BY <2>1, <2>2, PushKeeps
<1>3. CASE PCall(c)
  <2> DEFINE g == Append(frames, CFrame(BaseFromC))
  <2>1. PushFunction(g, c, BaseFromC) /\ UNCHANGED <<kind, uv, uped, udGc, value, sees>>
    BY <1>3 DEF PCall, closures
  <2>2. kind[c] = "function"
    BY <1>3 DEF PCall
  <2>3. g = frames \/ g = Append(frames, CFrame(BaseFromC))
    OBVIOUS
  <2> HIDE DEF g
  <2> QED BY <1>1, <2>1, <2>2, <2>3, PushKeeps
<1>4. CASE Call(c)
  <2>1. PICK ab \in CallRegs : PushFunction(frames, c, BaseFromFunction(ab[1], ab[2]))
    BY <1>4 DEF Call
  <2>2. UNCHANGED <<kind, uv, uped, udGc, value, sees>> /\ kind[c] = "function"
    BY <1>4 DEF Call, closures
  <2> QED BY <1>1, <2>1, <2>2, PushKeeps
<1> QED BY <1>2, <1>3, <1>4

LEMMA EnterCKeeps ==
  ASSUME CaptureInv, WellNested', EnterC
  PROVE  CaptureInv'
<1>1. PICK ab \in CallRegs :
        frames' = Append(frames, CFrame(BaseFromFunction(ab[1], ab[2])))
  BY DEF EnterC
<1>2. UNCHANGED <<stack, kind, uv, uped, udGc, value, sees>>
  BY DEF EnterC, closures
<1>3. frames \in Seq(FrameType)
  BY Chain DEF CaptureInv
<1>4. /\ DOMAIN frames' = 1 .. Len(frames) + 1
      /\ \A i \in DOMAIN frames : i \in DOMAIN frames' /\ frames'[i] = frames[i]
      /\ \A i \in DOMAIN frames' : i \in DOMAIN frames \/ i = Len(frames) + 1
      /\ frames'[Len(frames) + 1] = CFrame(BaseFromFunction(ab[1], ab[2]))
  BY <1>1, <1>3, AppendIs
<1>5. \A i \in DOMAIN frames' : i \in DOMAIN frames \/ NewFrame(frames'[i])
  BY <1>4 DEF NewFrame, CFrame, IsFunction
<1>6. /\ stack \in [Slots -> Values \cup {NoValue}]
      /\ kind \in [Closures -> {"free", "function", "chunk"}]
  BY DEF CaptureInv, ClosuresTyped
<1> QED BY <1>2, <1>4, <1>5, <1>6, CallsKeep

(* m calls go on; their variables are as they were.                        *)
EndTo(m) ==
  /\ frames' = SubSeq(frames, 1, m)
  /\ stack' \in [Slots -> Values \cup {NoValue}]
  /\ \A i \in 1 .. m : \A s \in LocalSlots(frames[i]) : stack'[s] = stack[s]

(* Nobody has captured a variable of the others.                           *)
UnnotedFrom(m) ==
  \A i \in m + 1 .. Len(frames) : IsFunction(frames[i]) => uped[frames[i].cls] = {}

LEMMA LeaveCEnds ==
  ASSUME CaptureInv, LeaveC
  PROVE  \E m \in 0 .. Len(frames) - 1 : EndTo(m) /\ UnnotedFrom(m)
<1>1. /\ frames # << >> /\ ~InFunction /\ frames' = SubSeq(frames, 1, Len(frames) - 1)
      /\ UNCHANGED stack
  BY DEF LeaveC, InC
<1>2. frames \in Seq(FrameType) /\ Len(frames) \in Nat
  BY Chain DEF CaptureInv
<1>3. Len(frames) - 1 \in 0 .. Len(frames) - 1 /\ Len(frames) > 0
  BY <1>1, <1>2
<1>4. UnnotedFrom(Len(frames) - 1)
  <2>1. \A i \in Len(frames) - 1 + 1 .. Len(frames) : i = Len(frames)
    BY <1>2
  <2> QED BY <1>1, <2>1 DEF InFunction, Top, UnnotedFrom
<1>5. EndTo(Len(frames) - 1)
  BY <1>1 DEF CaptureInv, ClosuresTyped, EndTo
<1> QED BY <1>3, <1>4, <1>5

(* What is taken off when a protected run ends.                            *)
LEMMA RunEnds ==
  ASSUME WellNested, jps # << >>, EndProtected
  PROVE  LET d == jps[Len(jps)].depth
         IN  \E m \in 0 .. Len(frames) - 1 :
               /\ frames' = SubSeq(frames, 1, m) /\ stack' = StackOf(frames')
               /\ Len(frames') = m
               /\ BegunAt(frames, d) /\ d \in 1 .. Len(frames)
               /\ \A i \in 1 .. Len(frames) : BegunAt(frames, i) => i <= d
               /\ \A i \in m + 1 .. d - 1 : ~IsFunction(frames[i])
<1> DEFINE jp == jps[Len(jps)]
           d == jp.depth
           m == d - 1 - jp.extra
           n == Len(frames)
<1>1. /\ d \in 1 .. n /\ BegunAt(frames, d)
      /\ \A i \in 1 .. n : BegunAt(frames, i) => i <= d
      /\ jp.extra \in {0, 1}
      /\ jp.extra = 1 => d > 1 /\ ~IsFunction(frames[d - 1])
      /\ m \in 0 .. n /\ m < n
  BY NewestRun DEF WellNested
<1>2. frames' = SubSeq(frames, 1, m) /\ stack' = StackOf(frames')
  BY DEF EndProtected
<1>3. frames \in Seq(FrameType) /\ n \in Nat
  BY Chain
<1>4. Len(frames') = m
  BY <1>1, <1>2, <1>3, DropFrames DEF WellNested, WellCalled
<1> HIDE DEF jp, n
<1>5. m \in 0 .. n - 1
  BY <1>1, <1>3
<1>6. ASSUME NEW i \in m + 1 .. d - 1 PROVE ~IsFunction(frames[i])
  <2>1. jp.extra = 1 /\ i = d - 1
    BY <1>1, <1>6
  <2> QED BY <1>1, <2>1
<1> QED BY <1>1, <1>2, <1>4, <1>5, <1>6 DEF jp, n

LEMMA RaiseEnds ==
  ASSUME faults' = {}, CaptureInv, ReturnToHost \/ Raise
  PROVE  \E m \in 0 .. Len(frames) - 1 : EndTo(m) /\ UnnotedFrom(m)
<1>1. WellNested /\ frames \in Seq(FrameType) /\ Len(frames) \in Nat
  BY Chain DEF CaptureInv
<1>2. EndProtected
  BY DEF ReturnToHost, Raise
<1>3. jps # << >>
  <2>1. ReturnToHost => frames # << >> /\ BegunAt(frames, Len(frames))
    BY DEF ReturnToHost, InFunction, Top, BegunAt
  <2> QED BY <1>1, <2>1, SomethingRuns DEF Raise
<1>4. PICK m \in 0 .. Len(frames) - 1 :
        /\ frames' = SubSeq(frames, 1, m) /\ stack' = StackOf(frames') /\ Len(frames') = m
  BY <1>1, <1>2, <1>3, RunEnds
<1>5. m \in 0 .. Len(frames)
  BY <1>1
<1>6. EndTo(m)
  BY <1>4, <1>5, StackOfCalls DEF EndTo
<1>7. ASSUME NEW i \in m + 1 .. Len(frames), IsFunction(frames[i])
      PROVE  uped[frames[i].cls] = {}
  <2>1. CASE Raise
    BY <1>4, <1>7, <2>1 DEF Raise, Strikes
  <2>2. CASE ReturnToHost
    <3>1. frames[i] = Top
      BY <1>1, <1>4, <1>7, <2>2 DEF ReturnToHost, Top
    <3> QED BY <2>2, <3>1 DEF ReturnToHost, Strikes
  <2> QED BY <2>1, <2>2
<1> QED BY <1>6, <1>7 DEF UnnotedFrom

LEMMA UnnotedKeeps ==
  ASSUME faults' = {}, CaptureInv, WellNested', LeaveC \/ ReturnToHost \/ Raise
  PROVE  CaptureInv'
<1>1. PICK m \in 0 .. Len(frames) - 1 : EndTo(m) /\ UnnotedFrom(m)
  BY LeaveCEnds, RaiseEnds
<1>2. UNCHANGED <<kind, uv, uped, udGc, value, sees>>
  BY DEF LeaveC, ReturnToHost, Raise, closures
<1>3. m \in 0 .. Len(frames)
  BY Chain DEF CaptureInv
<1> QED BY <1>1, <1>2, <1>3, EndsKeep DEF EndTo, UnnotedFrom

LEMMA ReturnEnds ==
  ASSUME CaptureInv, ReturnToFunction \/ ReturnToC
  PROVE  \E m \in 0 .. Len(frames) - 1 :
           /\ EndTo(m) /\ stack' = StackOf(frames')
           /\ \A i \in m + 1 .. Len(frames) - 1 : ~IsFunction(frames[i])
<1>1. /\ InFunction /\ Len(frames) > 1
      /\ frames \in Seq(FrameType) /\ Len(frames) \in Nat /\ WellNested
  BY Chain DEF CaptureInv, ReturnToFunction, ReturnToC
<1>2. ASSUME NEW m \in 0 .. Len(frames) - 1,
             frames' = SubSeq(frames, 1, m), stack' = StackOf(frames')
      PROVE  EndTo(m)
  <2>1. m \in 0 .. Len(frames)
    BY <1>1
  <2> QED BY <1>2, <2>1, StackOfCalls DEF EndTo
<1>3. CASE ReturnToFunction
  <2>1. frames' = SubSeq(frames, 1, Len(frames) - 1) /\ stack' = StackOf(frames')
    BY <1>3 DEF ReturnToFunction
  <2>2. Len(frames) - 1 \in 0 .. Len(frames) - 1
    BY <1>1
  <2>3. \A i \in Len(frames) - 1 + 1 .. Len(frames) - 1 : FALSE
    BY <1>1
  <2> QED BY <1>2, <2>1, <2>2, <2>3
<1>4. CASE ReturnToC
  <2> DEFINE d == jps[Len(jps)].depth
  <2>1. EndProtected /\ BegunAt(frames, Len(frames)) /\ frames # << >>
    BY <1>4 DEF ReturnToC, InFunction, Top, BegunAt
  <2>2. jps # << >>
    BY <1>1, <2>1, SomethingRuns
  <2>3. PICK m \in 0 .. Len(frames) - 1 :
               /\ frames' = SubSeq(frames, 1, m) /\ stack' = StackOf(frames')
               /\ Len(frames') = m
               /\ BegunAt(frames, d) /\ d \in 1 .. Len(frames)
               /\ \A i \in 1 .. Len(frames) : BegunAt(frames, i) => i <= d
               /\ \A i \in m + 1 .. d - 1 : ~IsFunction(frames[i])
    BY <1>1, <2>1, <2>2, RunEnds
  <2> HIDE DEF d
  <2>4. d = Len(frames)
    BY <1>1, <2>1, <2>3
  <2> QED BY <1>2, <2>3, <2>4
<1> QED BY <1>3, <1>4

LEMMA ReturnsKeepAll ==
  ASSUME faults' = {}, CaptureInv, WellNested', ReturnToFunction \/ ReturnToC
  PROVE  CaptureInv'
<1>1. InFunction /\ CloseUpvalues /\ UNCHANGED <<kind, sees>>
  BY DEF ReturnToFunction, ReturnToC
<1>2. PICK m \in 0 .. Len(frames) - 1 :
        /\ EndTo(m) /\ stack' = StackOf(frames')
        /\ \A i \in m + 1 .. Len(frames) - 1 : ~IsFunction(frames[i])
  BY ReturnEnds
<1> QED BY <1>1, <1>2, ReturnsKeep DEF EndTo

LEMMA NextKeeps ==
  ASSUME faults' = {}, CaptureInv, [Next]_vars
  PROVE  CaptureInv'
<1>1. WellNested'
  BY NextNests DEF CaptureInv
<1>2. ASSUME UNCHANGED vars PROVE CaptureInv'
  BY <1>1, <1>2 DEF vars, CaptureInv, ClosuresTyped, Filled, InUse, Noted, Found, Placed,
                    InPlace, Latest, Ended, ClosedAlike
<1> QED BY <1>1, <1>2, CallsOfFunctionsKeep, EnterCKeeps, UnnotedKeeps,
           ReturnsKeepAll, SetLocalKeeps, SetUpvalueKeeps, MakesKeep, FreeKeeps DEF Next

LEMMA InitKeeps ==
  ASSUME Init
  PROVE  CaptureInv
<1>1. /\ frames = << >> /\ stack = [s \in Slots |-> NoValue]
      /\ kind = [c \in Closures |-> "free"] /\ uv = [c \in Closures |-> NoUv]
      /\ uped = [c \in Closures |-> {}]
      /\ udGc = [c \in Closures |-> [r \in LocalRegs |-> NoUvObj]]
      /\ value = [u \in UvObjs |-> NoValue] /\ sees = [c \in Closures |-> NoCell]
  BY DEF Init
<1>2. DOMAIN frames = {}
  BY <1>1
<1>3. ClosuresTyped
  BY <1>1, MadeUv DEF ClosuresTyped
<1>4. Filled /\ InUse
  BY <1>1, <1>2 DEF Filled, InUse
<1>5. \A c \in Closures : uv[c] = NoUv /\ uv[c].at = "none" /\ sees[c] = NoCell
  BY <1>1, MadeUv
<1>6. Noted /\ Found /\ ClosedAlike
  BY <1>1, <1>5 DEF Noted, Found, Placed, ClosedAlike
<1> QED BY <1>3, <1>4, <1>6, InitNests DEF CaptureInv

(* What has struck stays noted, and is one of the five.                    *)
LEMMA FaultsGrow ==
  ASSUME [Next]_vars
  PROVE  /\ faults \subseteq faults'
         /\ faults \subseteq AllFaults => faults' \subseteq AllFaults
<1>1. ASSUME NEW f \in AllFaults, NEW p \in BOOLEAN, faults' = faults \cup {x \in {f} : p}
      PROVE  /\ faults \subseteq faults'
             /\ faults \subseteq AllFaults => faults' \subseteq AllFaults
  BY <1>1
<1>2. CASE \E c \in Closures : Load(c) \/ PCall(c) \/ Call(c) \/ Free(c)
  BY <1>2 DEF Load, PCall, Call, PushFunction, Free, Strikes, AllFaults
<1>3. CASE ReturnToFunction \/ ReturnToHost \/ ReturnToC \/ Raise
  BY <1>3 DEF ReturnToFunction, ReturnToHost, ReturnToC, CloseUpvalues, Raise, Strikes,
              AllFaults
<1>4. CASE \/ \E c \in Closures : MakePlain(c) \/ MakeOverLocal(c) \/ MakeOverUpvalue(c)
           \/ EnterC \/ LeaveC \/ SetLocal \/ SetUpvalue \/ UNCHANGED vars
  BY <1>4 DEF MakePlain, MakeOverLocal, MakeOverUpvalue, Make, EnterC, LeaveC, SetLocal,
              SetUpvalue, vars
<1> QED BY <1>2, <1>3, <1>4 DEF Next

(* What holds of every state: of captured variables, until a fault strikes.*)
FramesInv ==
  /\ WellNested
  /\ faults \subseteq AllFaults
  /\ Sound => CaptureInv

THEOREM CaptureInvariance == Spec => []FramesInv
<1>1. Init => FramesInv
  <2>1. Init => faults = {}
    BY DEF Init
  <2> QED BY <2>1, InitNests, InitKeeps DEF FramesInv
<1>2. FramesInv /\ [Next]_vars => FramesInv'
  <2> SUFFICES ASSUME FramesInv, [Next]_vars PROVE FramesInv'
    OBVIOUS
  <2>1. WellNested' /\ faults' \subseteq AllFaults
    BY NextNests, FaultsGrow DEF FramesInv
  <2>2. ASSUME faults' = {} PROVE CaptureInv'
    <3>1. CaptureInv
      BY <2>2, FaultsGrow DEF FramesInv, Sound
    <3> QED BY <2>2, <3>1, NextKeeps
  <2> QED BY <2>1, <2>2 DEF FramesInv, Sound
<1> QED BY <1>1, <1>2, PTL DEF Spec

(* Until a fault strikes every variable of the model is of its type; what  *)
(* the registers and objects hold after that is anybody's guess.           *)
THEOREM FramesTypesHold == Spec => [](Sound => TypeOK)
<1>1. FramesInv => (Sound => TypeOK)
  BY DEF FramesInv, CaptureInv, WellNested, WellCalled, ClosuresTyped, JumpType, TypeOK
<1> QED BY <1>1, CaptureInvariance, PTL

(* When a function returns, what its chain notes are variables of the call *)
(* that returns, still in its registers.                                   *)
LEMMA TopsClose ==
  ASSUME CaptureInv
  PROVE  ClosesOwn
<1> SUFFICES ASSUME InFunction, NEW c \in uped[Top.cls]
             PROVE  uv[c].at = "stack" /\ uv[c].idx \in Top.base .. Top.base + Regs - 1
  BY DEF ClosesOwn
<1>1. uv[c].at = "stack" /\ RegOf(c) \in LocalRegs /\ uv[c].idx = Top.base + RegOf(c)
  BY TopsVariables
<1>2. Top.base \in Nat
  BY Chain DEF CaptureInv
<1> HIDE DEF RegOf, Top
<1> QED BY <1>1, <1>2, LocalsBound DEF LocalRegs

(* The assertions of a2_closure_return and of the stack accesses it makes  *)
(* (a2_closure.c:105-112, a2_vm.c:143-144) hold whenever a function        *)
(* returns, unless one of the five faults has struck before: there is no   *)
(* sixth way to break them.                                                *)
THEOREM ReturnsCloseTheirOwn == Spec => []ClosesInFrame
<1>1. FramesInv => ClosesInFrame
  BY TopsClose DEF FramesInv, ClosesInFrame
<1> QED BY <1>1, CaptureInvariance, PTL

LEMMA OpenNoted ==
  ASSUME CaptureInv
  PROVE  OpenIsNoted
<1> SUFFICES ASSUME NEW c \in Closures, uv[c].at = "stack"
             PROVE  /\ c \in uped[uv[c].owner]
                    /\ \E i \in DOMAIN frames : /\ frames[i].cls = uv[c].owner
                                                /\ uv[c].idx \in LocalSlots(frames[i])
  BY DEF OpenIsNoted
<1>1. PICK i \in DOMAIN frames, r \in LocalRegs : InPlace(uv[c], sees[c], i, r)
  BY OwnersRun
<1>2. uv[c].owner \in Closures /\ c \in uped[uv[c].owner]
  BY OwnersRun
<1>3. frames[i].cls = uv[c].owner /\ uv[c].idx = frames[i].base + r
  BY <1>1 DEF InPlace
<1>4. uv[c].idx \in LocalSlots(frames[i])
  BY <1>2, <1>3, NoneAssumption DEF LocalSlots, IsFunction
<1> QED BY <1>2, <1>3, <1>4

(* Until a fault strikes, a closure refers to a register only while the    *)
(* call that has the variable runs, and that call will move it away        *)
(* (a2_closure.c:97).                                                      *)
THEOREM NoDanglingUpvalues == Spec => []OpenUpvaluesNoted
<1>1. FramesInv => OpenUpvaluesNoted
  BY OpenNoted DEF FramesInv, OpenUpvaluesNoted
<1> QED BY <1>1, CaptureInvariance, PTL

(* Who sees a variable still in its register, and where.                   *)
LEMMA OpenAlike ==
  ASSUME CaptureInv, NEW c \in Closures, NEW d \in Closures,
         uv[c].at = "stack", uv[d].at = "stack"
  PROVE  sees[c] = sees[d] <=> uv[c] = uv[d]
<1>1. PICK i \in DOMAIN frames, r \in LocalRegs : InPlace(uv[c], sees[c], i, r)
  BY OwnersRun
<1>2. PICK j \in DOMAIN frames, q \in LocalRegs : InPlace(uv[d], sees[d], j, q)
  BY OwnersRun
<1>3. /\ uv[c] = OnStack(frames[i].cls, frames[i].base + r)
      /\ uv[d] = OnStack(frames[j].cls, frames[j].base + q)
      /\ frames[i].cls \in Closures /\ frames[j].cls \in Closures
      /\ uv[c].owner = frames[i].cls /\ uv[d].owner = frames[j].cls
      /\ uv[c].idx = frames[i].base + r /\ uv[d].idx = frames[j].base + q
  <2>1. uv[c] \in UvType /\ uv[d] \in UvType
    BY DEF CaptureInv, ClosuresTyped
  <2> QED BY <1>1, <1>2, <2>1, UvKinds DEF InPlace
<1>4. /\ frames[i].base \in Nat /\ frames[j].base \in Nat /\ r \in Nat /\ q \in Nat
      /\ i \in Nat /\ j \in Nat
  BY Chain DEF CaptureInv, LocalRegs
<1>5. sees[c] = [act |-> frames[i].act, reg |-> r]
      /\ sees[d] = [act |-> frames[j].act, reg |-> q]
  BY <1>1, <1>2 DEF InPlace
<1>6. sees[c] = sees[d] => i = j /\ r = q
  <2>1. sees[c] = sees[d] => frames[i].act = frames[j].act /\ r = q
    BY <1>5, SeenFields
  <2>2. IsFunction(frames[i])
    BY <1>3, NoneAssumption DEF IsFunction
  <2> QED BY <2>1, <2>2, ActsDiffer DEF CaptureInv
<1>7. uv[c] = uv[d] => i = j
  <2>1. uv[c] = uv[d] => frames[i].cls = frames[j].cls
    BY <1>3
  <2>2. frames[i].cls = frames[j].cls => ~(j > i) /\ ~(i > j)
    BY <1>1, <1>2 DEF InPlace, Latest
  <2> QED BY <1>4, <2>1, <2>2
<1>8. uv[c] = uv[d] => r = q
  <2>1. uv[c] = uv[d] => frames[i].base + r = frames[i].base + q
    BY <1>3, <1>7
  <2> QED BY <1>4, <2>1
<1> QED BY <1>3, <1>5, <1>6, <1>7, <1>8

LEMMA CapturesAlike ==
  ASSUME CaptureInv
  PROVE  Alike
<1> SUFFICES ASSUME NEW c \in Closures, NEW d \in Closures,
                    sees[c] # NoCell, sees[d] # NoCell
             PROVE  sees[c] = sees[d] <=> uv[c] = uv[d]
  BY DEF Alike
<1>1. \A e \in Closures : /\ Placed(uv[e], sees[e])
                          /\ uv[e].at \in {"none", "stack", "gc"}
                          /\ uv[e].at = "none" <=> uv[e] = NoUv
  BY UvKinds DEF CaptureInv, ClosuresTyped, Found
<1>2. /\ uv[c].at = "stack" \/ uv[c].at = "gc"
      /\ uv[d].at = "stack" \/ uv[d].at = "gc"
  BY <1>1 DEF Placed
<1>3. ASSUME NEW e \in Closures, NEW f \in Closures, uv[e].at = "stack", uv[f].at = "gc"
      PROVE  sees[e] # sees[f] /\ uv[e] # uv[f]
  <2>1. PICK i \in DOMAIN frames, r \in LocalRegs : InPlace(uv[e], sees[e], i, r)
    BY <1>3, OwnersRun
  <2>2. frames[i].act = sees[e].act
    BY <2>1 DEF InPlace
  <2>3. frames[i].act # sees[f].act
    BY <1>1, <1>3 DEF Placed, Ended
  <2> QED BY <1>3, <2>2, <2>3
<1>4. CASE uv[c].at = "stack" /\ uv[d].at = "stack"
  BY <1>4, OpenAlike
<1>5. CASE uv[c].at = "gc" /\ uv[d].at = "gc"
  BY <1>5 DEF CaptureInv, ClosedAlike
<1> QED BY <1>2, <1>3, <1>4, <1>5

(* Until a fault strikes, closures refer to the same place exactly if they *)
(* have captured the same variable of the same call, before and after it   *)
(* is moved, however often functions are called (a2_closure.c:98-122).     *)
THEOREM SharingStaysTrue == Spec => []SharedAlike
<1>1. FramesInv => SharedAlike
  BY CapturesAlike DEF FramesInv, SharedAlike
<1> QED BY <1>1, CaptureInvariance, PTL

-----------------------------------------------------------------------------
(* What closures see is what A2Cells promises.                             *)

CellSet == [act : Activations, reg : LocalRegs]

(* Who has captured a variable of a call that is over has it in an object. *)
LEMMA EndedAt ==
  ASSUME CaptureInv, NEW x \in CellSet, Ended(x), NEW c \in Closures, sees[c] = x
  PROVE  /\ uv[c].at = "gc" /\ uv[c].obj \in UvObjs /\ uv[c] = InObject(uv[c].obj)
         /\ value[uv[c].obj] # NoValue
<1>1. uv[c] \in UvType /\ Placed(uv[c], x) /\ x # NoCell
  BY NoneAssumption DEF CaptureInv, ClosuresTyped, Found, CellSet, LocalRegs
<1>2. uv[c].at # "stack"
  <2> SUFFICES ASSUME uv[c].at = "stack" PROVE FALSE
    OBVIOUS
  <2>1. PICK j \in DOMAIN frames, r \in LocalRegs : InPlace(uv[c], x, j, r)
    BY <1>1 DEF Placed
  <2> QED BY <2>1 DEF InPlace, Ended
<1>3. uv[c].at = "gc"
  BY <1>1, <1>2, UvKinds DEF Placed
<1> QED BY <1>1, <1>3, UvKinds DEF Placed

(* The content of a variable: its register while its call runs, then the   *)
(* object of anybody who has captured it.                                  *)
ContentLaw(x) ==
  /\ \A i \in DOMAIN frames :
       frames[i].act = x.act => Content(x) = stack[frames[i].base + x.reg]
  /\ Ended(x) => /\ \A c \in Closures : sees[c] = x => Content(x) = value[uv[c].obj]
                 /\ (\A c \in Closures : sees[c] # x) => Content(x) = NoValue

LEMMA ContentIs ==
  CaptureInv => \A x \in CellSet : ContentLaw(x)
<1> SUFFICES ASSUME CaptureInv, NEW x \in CellSet PROVE ContentLaw(x)
  OBVIOUS
<1>1. x \in [act : Activations, reg : LocalRegs] /\ x.act \in Activations /\ x # NoCell
  BY NoneAssumption DEF CellSet, LocalRegs
<1>2. ASSUME NEW i \in DOMAIN frames, frames[i].act = x.act
      PROVE  Content(x) = stack[frames[i].base + x.reg]
  <2>1. IsFunction(frames[i])
    BY <1>1, <1>2, Chain, NoneAssumption DEF CaptureInv, Identified
  <2>2. \A j \in FrameOf(x) : j = i
    BY <1>2, <2>1, ActsDiffer DEF CaptureInv, FrameOf
  <2>3. FrameOf(x) # {}
    BY <1>2 DEF FrameOf
  <2>4. (CHOOSE j \in FrameOf(x) : TRUE) = i
    BY <2>2, <2>3
  <2> QED BY <2>3, <2>4 DEF Content
<1>3. ASSUME Ended(x) PROVE FrameOf(x) = {}
  BY <1>3 DEF Ended, FrameOf
<1>4. ASSUME Ended(x), NEW c \in Closures, sees[c] = x
      PROVE  Content(x) = value[uv[c].obj]
  <2>1. uv[c].at = "gc"
    BY <1>4, EndedAt
  <2>2. c \in HoldersOf(x)
    BY <1>4, <2>1 DEF HoldersOf
  <2>3. \A d \in HoldersOf(x) : uv[d] = uv[c]
    BY <1>4, <2>1 DEF HoldersOf, CaptureInv, ClosedAlike
  <2>4. (CHOOSE d \in HoldersOf(x) : TRUE) \in HoldersOf(x) /\ HoldersOf(x) # {}
    BY <2>2
  <2> HIDE DEF HoldersOf
  <2>5. uv[CHOOSE d \in HoldersOf(x) : TRUE] = uv[c]
    BY <2>3, <2>4
  <2> QED BY <1>3, <1>4, <2>4, <2>5 DEF Content
<1>5. ASSUME Ended(x), \A c \in Closures : sees[c] # x PROVE Content(x) = NoValue
  BY <1>3, <1>5 DEF Content, HoldersOf
<1> QED BY <1>2, <1>4, <1>5 DEF ContentLaw

LEMMA ContentIsNext ==
  CaptureInv' => (\A x \in CellSet : ContentLaw(x))'
BY ContentIs, PTL

(* The calls as A2Cells has them.                                          *)
CallsOf(fr) == [i \in DOMAIN fr |-> [act |-> fr[i].act, fn |-> fr[i].cls]]

LEMMA CallsAre ==
  ASSUME NEW S, NEW fr \in Seq(S)
  PROVE  /\ Len(CallsOf(fr)) = Len(fr) /\ DOMAIN CallsOf(fr) = DOMAIN fr
         /\ \A f : CallsOf(Append(fr, f)) =
                     Append(CallsOf(fr), [act |-> f.act, fn |-> f.cls])
         /\ \A m \in 0 .. Len(fr) :
              CallsOf(SubSeq(fr, 1, m)) = SubSeq(CallsOf(fr), 1, m)
<1> DEFINE n == Len(fr)
           e(f) == [act |-> f.act, fn |-> f.cls]
           q == CallsOf(fr)
           T == {e(fr[i]) : i \in 1 .. n}
<1>1. n \in Nat /\ DOMAIN fr = 1 .. n
  OBVIOUS
<1>2. DOMAIN q = 1 .. n /\ \A i \in 1 .. n : q[i] = e(fr[i])
  BY <1>1 DEF CallsOf
<1>3. q \in Seq(T) /\ Len(q) = n
  <2>1. q \in [1 .. n -> T]
    BY <1>1 DEF CallsOf
  <2> HIDE DEF q, T, n
  <2> QED BY <1>1, <2>1
<1>4. ASSUME NEW f PROVE CallsOf(Append(fr, f)) = Append(q, e(f))
  <2> DEFINE g == Append(fr, f)
             h == Append(q, e(f))
  <2>1. DOMAIN g = 1 .. n + 1 /\ g[n + 1] = f /\ \A i \in 1 .. n : g[i] = fr[i]
    BY AppendIs
  <2> HIDE DEF q, T, n, e
  <2>2. DOMAIN h = 1 .. n + 1 /\ h[n + 1] = e(f) /\ \A i \in 1 .. n : h[i] = q[i]
    BY <1>3, AppendIs
  <2>3. h = [i \in 1 .. n + 1 |-> h[i]]
    <3>1. h \in Seq(T \cup {e(f)})
      <4>1. q \in Seq(T \cup {e(f)})
        BY <1>3
      <4> QED BY <4>1
    <3>2. Len(h) = n + 1
      BY <1>3
    <3> HIDE DEF h
    <3> QED BY <3>1, <3>2
  <2> HIDE DEF g, h
  <2>4. \A i \in 1 .. n + 1 : h[i] = e(g[i])
    <3>1. \A i \in 1 .. n + 1 : i \in 1 .. n \/ i = n + 1
      BY <1>1
    <3> QED BY <1>2, <2>1, <2>2, <3>1
  <2>5. CallsOf(g) = [i \in 1 .. n + 1 |-> e(g[i])]
    BY <2>1 DEF CallsOf, e
  <2> QED BY <2>3, <2>4, <2>5 DEF g, h
<1>5. ASSUME NEW m \in 0 .. n PROVE CallsOf(SubSeq(fr, 1, m)) = SubSeq(q, 1, m)
  <2> DEFINE g == SubSeq(fr, 1, m)
             h == SubSeq(q, 1, m)
  <2>1. DOMAIN g = 1 .. m /\ \A i \in 1 .. m : g[i] = fr[i]
    OBVIOUS
  <2>2. 1 .. m \subseteq 1 .. n
    BY <1>1
  <2> HIDE DEF q, T, n, e
  <2>3. h = [i \in 1 .. m |-> q[i]]
    BY <1>1, <1>3
  <2> HIDE DEF g, h
  <2>4. CallsOf(g) = [i \in 1 .. m |-> e(g[i])]
    BY <2>1 DEF CallsOf, e
  <2>5. \A i \in 1 .. m : q[i] = e(g[i])
    BY <1>2, <2>1, <2>2
  <2> QED BY <2>3, <2>4, <2>5 DEF g, h
<1> QED BY <1>1, <1>2, <1>3, <1>4, <1>5

LEMMA CallsIs ==
  /\ Calls = CallsOf(frames)
  /\ \A fr : Cells!Active(CallsOf(fr)) = {fr[i].act : i \in DOMAIN fr}
  /\ Cells!Cells = CellSet
  /\ Contents = [x \in CellSet |-> Content(x)]
<1>1. Calls = CallsOf(frames)
  BY DEF Calls, CallsOf
<1>2. ASSUME NEW fr PROVE Cells!Active(CallsOf(fr)) = {fr[i].act : i \in DOMAIN fr}
  BY DEF Cells!Active, CallsOf
<1> QED BY <1>1, <1>2 DEF Cells!Cells, CellSet, Contents

LEMMA CallsIsNext == Calls' = CallsOf(frames') /\ Contents' = [x \in CellSet |-> Content(x)']
BY DEF Calls, CallsOf, CellSet, Contents

(* Variables of calls that go on, and of others.                           *)
LEMMA ActiveCell ==
  ASSUME CaptureInv, NEW x \in CellSet, NEW i \in DOMAIN frames, frames[i].act = x.act
  PROVE  /\ IsFunction(frames[i]) /\ x.reg \in LocalRegs
         /\ frames[i].base + x.reg \in LocalSlots(frames[i])
         /\ frames[i].base + x.reg \in Slots
<1>1. x.act \in Activations /\ x.reg \in LocalRegs
  BY DEF CellSet
<1>2. IsFunction(frames[i])
  BY <1>1, Chain, NoneAssumption DEF CaptureInv, Identified
<1> QED BY <1>1, <1>2, Chain, SlotsFit DEF CaptureInv, LocalSlots

LEMMA ActiveSame ==
  ASSUME CaptureInv, CaptureInv', NEW x \in CellSet,
         NEW i \in DOMAIN frames, i \in DOMAIN frames', frames'[i] = frames[i],
         frames[i].act = x.act,
         stack'[frames[i].base + x.reg] = stack[frames[i].base + x.reg]
  PROVE  Content(x)' = Content(x)
<1>1. ContentLaw(x) /\ ContentLaw(x)'
  BY ContentIs, ContentIsNext
<1>2. Content(x) = stack[frames[i].base + x.reg]
  BY <1>1 DEF ContentLaw
<1>3. Content(x)' = stack'[frames'[i].base + x.reg]
  BY <1>1 DEF ContentLaw
<1> QED BY <1>2, <1>3

LEMMA EndedSame ==
  ASSUME CaptureInv, CaptureInv', NEW x \in CellSet, Ended(x), Ended(x)',
         \A c \in Closures : sees'[c] = x <=> sees[c] = x,
         \A c \in Closures : sees[c] = x => value'[uv'[c].obj] = value[uv[c].obj]
  PROVE  Content(x)' = Content(x)
<1>1. ContentLaw(x) /\ ContentLaw(x)'
  BY ContentIs, ContentIsNext
<1>2. CASE \E c \in Closures : sees[c] = x
  <2>1. PICK c \in Closures : sees[c] = x
    BY <1>2
  <2>2. Content(x) = value[uv[c].obj]
    BY <1>1, <2>1 DEF ContentLaw
  <2>3. Content(x)' = value'[uv'[c].obj]
    BY <1>1, <2>1 DEF ContentLaw
  <2> QED BY <2>1, <2>2, <2>3
<1>3. CASE \A c \in Closures : sees[c] # x
  <2>1. Content(x) = NoValue
    BY <1>1, <1>3 DEF ContentLaw
  <2>2. Content(x)' = NoValue
    BY <1>1, <1>3 DEF ContentLaw
  <2> QED BY <2>1, <2>2
<1> QED BY <1>2, <1>3

(* The calls of functions are Enter.                                       *)
LEMMA PushEnters ==
  ASSUME CaptureInv, CaptureInv', NEW c \in Closures, NEW fr, NEW base,
         fr = frames \/ fr = Append(frames, CFrame(base)),
         PushFunction(fr, c, base), UNCHANGED <<uv, value, sees>>
  PROVE  Cells!Enter
<1>1. PICK a \in UnusedActivations, init \in [LocalRegs -> Values] :
        NewCall(fr, [cls |-> c, base |-> base, act |-> a], init)
  BY PushIs DEF CaptureInv
<1> DEFINE f == [cls |-> c, base |-> base, act |-> a]
<1>2. f.cls = c /\ f.act = a /\ f.base = base
  OBVIOUS
<1> HIDE DEF f
<1>3. NewCall(fr, f, init)
  BY <1>1 DEF f
<1>4. /\ a \in Activations /\ a # NoActivation
      /\ \A i \in DOMAIN frames : frames[i].act # a
      /\ \A d \in Closures : sees[d] # NoCell => sees[d].act # a
  BY UnusedIsNew, NoneAssumption
<1>5. a \notin Cells!Active(Calls) \cup {x.act : x \in Cells!Held(sees)}
  BY <1>4, CallsIs DEF Cells!Held
<1>6. Calls' = Append(CallsOf(fr), [act |-> a, fn |-> c])
      /\ CallsOf(fr) \in {Calls, Append(Calls, Cells!Foreign)}
  <2>1. frames \in Seq(FrameType \cup {CFrame(base)})
    <3>1. frames \in Seq(FrameType)
      BY Chain DEF CaptureInv
    <3>2. \A i \in 1 .. Len(frames) : frames[i] \in FrameType \cup {CFrame(base)}
      BY <3>1
    <3> QED BY <3>1, <3>2
  <2>2. CFrame(base) \in FrameType \cup {CFrame(base)}
    OBVIOUS
  <2>3. fr \in Seq(FrameType \cup {CFrame(base)})
    BY <2>1, <2>2
  <2>4. Calls' = Append(CallsOf(fr), [act |-> a, fn |-> c])
    BY <1>2, <1>3, <2>3, CallsAre, CallsIsNext DEF NewCall
  <2>5. fr = Append(frames, CFrame(base)) => CallsOf(fr) = Append(Calls, Cells!Foreign)
    <3>1. CFrame(base).act = NoActivation /\ CFrame(base).cls = NoClosure
      BY DEF CFrame
    <3> QED BY <2>1, <3>1, CallsAre, CallsIs DEF Cells!Foreign
  <2>6. fr = frames => CallsOf(fr) = Calls
    BY CallsIs
  <2> QED BY <2>4, <2>5, <2>6
<1>7. ASSUME NEW x \in CellSet
      PROVE  Content(x)' = IF x.act = a THEN init[x.reg] ELSE Content(x)
  <2>1. x.act \in Activations /\ x.reg \in LocalRegs /\ x.act # NoActivation
    BY NoneAssumption DEF CellSet
  <2>2. CASE x.act = a
    <3>1. ContentLaw(x)'
      BY ContentIsNext
    <3>2. Len(fr) + 1 \in DOMAIN frames' /\ frames'[Len(fr) + 1] = f
          /\ stack'[f.base + x.reg] = init[x.reg]
      BY <1>3, <2>1 DEF NewCall
    <3>3. Content(x)' = stack'[frames'[Len(fr) + 1].base + x.reg]
      BY <1>2, <2>2, <3>1, <3>2 DEF ContentLaw
    <3> QED BY <2>2, <3>2, <3>3
  <2>3. CASE x.act # a /\ \E i \in DOMAIN frames : frames[i].act = x.act
    <3>1. PICK i \in DOMAIN frames : frames[i].act = x.act
      BY <2>3
    <3>2. frames[i].base + x.reg \in LocalSlots(frames[i])
      BY <3>1, ActiveCell
    <3>3. /\ stack'[frames[i].base + x.reg] = stack[frames[i].base + x.reg]
          /\ i \in DOMAIN frames' /\ frames'[i] = frames[i]
      BY <1>3, <3>2 DEF NewCall
    <3> QED BY <2>3, <3>1, <3>3, ActiveSame
  <2>4. CASE x.act # a /\ Ended(x)
    <3>1. CFrame(base).act = NoActivation
      BY DEF CFrame
    <3>2. Ended(x)'
      BY <1>2, <1>3, <2>1, <2>4, <3>1 DEF NewCall, Ended
    <3>3. Content(x)' = Content(x)
      BY <2>4, <3>2, EndedSame
    <3> QED BY <2>4, <3>3
  <2> QED BY <2>2, <2>3, <2>4 DEF Ended
<1>8. Contents' = [x \in Cells!Cells |-> IF x.act = a THEN init[x.reg] ELSE Contents[x]]
  BY <1>7, CallsIs, CallsIsNext
<1> QED BY <1>4, <1>5, <1>6, <1>8 DEF Cells!Enter

(* What takes calls off is Leave: captured variables keep their contents.  *)
LEMMA EndLeaves ==
  ASSUME CaptureInv, CaptureInv', NEW m \in 0 .. Len(frames) - 1,
         frames' = SubSeq(frames, 1, m), sees' = sees,
         \A i \in 1 .. m : \A s \in LocalSlots(frames[i]) : stack'[s] = stack[s],
         \A c \in Closures :
           sees[c] # NoCell /\ Ended(sees[c])' => value'[uv'[c].obj] = Content(sees[c])
  PROVE  Cells!Leave
<1>1. /\ frames \in Seq(FrameType) /\ Len(frames) \in Nat /\ m \in 0 .. Len(frames)
      /\ DOMAIN frames' = 1 .. m /\ \A i \in 1 .. m : frames'[i] = frames[i]
      /\ \A i \in 1 .. m : i \in DOMAIN frames
  <2>1. frames \in Seq(FrameType) /\ Len(frames) \in Nat
    BY Chain DEF CaptureInv
  <2> QED BY <2>1
<1>2. Calls' = SubSeq(Calls, 1, m) /\ m \in 0 .. Len(Calls) - 1
  <2>1. /\ Len(CallsOf(frames)) = Len(frames)
        /\ CallsOf(SubSeq(frames, 1, m)) = SubSeq(CallsOf(frames), 1, m)
    BY <1>1, CallsAre
  <2>2. Calls = CallsOf(frames)
    BY CallsIs
  <2>3. Calls' = CallsOf(frames')
    BY CallsIsNext
  <2> QED BY <2>1, <2>2, <2>3
<1>3. /\ Cells!Active(Calls') = {frames'[i].act : i \in DOMAIN frames'}
      /\ Cells!Held(sees) = {sees[c] : c \in Closures} \ {NoCell}
  <2>1. Cells!Active(Calls') = {frames'[i].act : i \in DOMAIN frames'}
    BY DEF Cells!Active, Calls
  <2> QED BY <2>1 DEF Cells!Held
<1>4. ASSUME NEW x \in CellSet
      PROVE  Content(x)' = IF x.act \in Cells!Active(Calls') \/ x \in Cells!Held(sees)
                           THEN Content(x) ELSE NoValue
  <2>0. ContentLaw(x)' /\ x # NoCell
    BY ContentIsNext, NoneAssumption DEF CellSet, LocalRegs
  <2>1. CASE x.act \in Cells!Active(Calls')
    <3>1. PICK i \in 1 .. m : frames[i].act = x.act
      BY <1>1, <1>3, <2>1
    <3>2. frames[i].base + x.reg \in LocalSlots(frames[i])
      BY <1>1, <3>1, ActiveCell
    <3> QED BY <1>1, <2>1, <3>1, <3>2, ActiveSame
  <2>2. CASE x.act \notin Cells!Active(Calls') /\ x \in Cells!Held(sees)
    <3>1. PICK c \in Closures : sees[c] = x
      BY <1>3, <2>2
    <3>2. Ended(x)'
      BY <1>3, <2>2 DEF Ended
    <3>3. Content(x)' = value'[uv'[c].obj]
      BY <2>0, <3>1, <3>2 DEF ContentLaw
    <3>4. value'[uv'[c].obj] = Content(x)
      BY <2>0, <3>1, <3>2
    <3> QED BY <2>2, <3>3, <3>4
  <2>3. CASE x.act \notin Cells!Active(Calls') /\ x \notin Cells!Held(sees)
    <3>1. Ended(x)'
      BY <1>3, <2>3 DEF Ended
    <3>2. \A c \in Closures : sees'[c] # x
      BY <1>3, <2>0, <2>3
    <3> QED BY <2>0, <2>3, <3>1, <3>2 DEF ContentLaw
  <2> QED BY <2>1, <2>2, <2>3
<1>5. Contents' = Cells!Kept(Calls', sees)
  BY <1>4, CallsIs, CallsIsNext DEF Cells!Kept
<1> QED BY <1>2, <1>5 DEF Cells!Leave

(* The variables a running function can name.                              *)
LEMMA ReachIs ==
  ASSUME CaptureInv, InFunction
  PROVE  Cells!InReach = {x \in CellSet : x.act = Top.act \/ x = sees[Top.cls]}
<1>1. /\ Len(frames) \in DOMAIN frames /\ Top = frames[Len(frames)]
      /\ frames \in Seq(FrameType) /\ IsFunction(Top) /\ frames # << >>
  BY Chain DEF CaptureInv, InFunction
<1>2. /\ Len(Calls) = Len(frames) /\ Calls # << >>
      /\ Calls[Len(frames)].act = Top.act /\ Calls[Len(frames)].fn = Top.cls
  <2>1. Len(CallsOf(frames)) = Len(frames) /\ DOMAIN CallsOf(frames) = DOMAIN frames
    BY <1>1, CallsAre
  <2>2. Calls = CallsOf(frames)
    BY CallsIs
  <2>3. Calls # << >>
    BY <1>1, <2>1, <2>2
  <2>4. Calls[Len(frames)] = [act |-> Top.act, fn |-> Top.cls]
    BY <1>1 DEF Calls
  <2> QED BY <2>1, <2>2, <2>3, <2>4
<1>3. Cells!Cells = CellSet
  BY CallsIs
<1> QED BY <1>1, <1>2, <1>3 DEF Cells!InReach, IsFunction

(* Assignments.                                                            *)
Assigned(y, x, v) == Content(y)' = IF y = x THEN v ELSE Content(y)

LEMMA AssignsCell ==
  ASSUME CaptureInv, CaptureInv', InFunction, NEW x \in CellSet,
         x.act = Top.act \/ x = sees[Top.cls], NEW v \in Values,
         UNCHANGED <<frames, sees>>,
         \A y \in CellSet : Assigned(y, x, v)
  PROVE  Cells!Assign
<1>1. x \in Cells!InReach
  BY ReachIs
<1>2. Contents' = [Contents EXCEPT ![x] = v]
  BY CallsIs, CallsIsNext DEF Assigned
<1>3. Calls' = Calls
  BY CallsIs, CallsIsNext
<1> QED BY <1>1, <1>2, <1>3 DEF Cells!Assign

(* A variable in its register is assigned, and no other.                   *)
LEMMA RegisterAssigned ==
  ASSUME CaptureInv, CaptureInv', NEW i \in DOMAIN frames, NEW x \in CellSet,
         frames[i].act = x.act, NEW v \in Values,
         stack' = [stack EXCEPT ![frames[i].base + x.reg] = v],
         UNCHANGED <<frames, uv, value, sees>>, NEW y \in CellSet
  PROVE  Assigned(y, x, v)
<1>1. /\ frames[i].base + x.reg \in LocalSlots(frames[i]) /\ IsFunction(frames[i])
      /\ frames[i].base + x.reg \in Slots /\ x.reg \in LocalRegs
  BY ActiveCell
<1>2. /\ stack'[frames[i].base + x.reg] = v
      /\ \A s \in Slots : s # frames[i].base + x.reg => stack'[s] = stack[s]
  BY <1>1 DEF CaptureInv, ClosuresTyped
<1>3. CASE y = x
  <2>1. ContentLaw(x)'
    BY ContentIsNext
  <2>2. Content(x)' = stack'[frames'[i].base + x.reg]
    BY <2>1 DEF ContentLaw
  <2> QED BY <1>2, <1>3, <2>2 DEF Assigned
<1>4. CASE y # x /\ \E j \in DOMAIN frames : frames[j].act = y.act
  <2>1. PICK j \in DOMAIN frames : frames[j].act = y.act
    BY <1>4
  <2>2. /\ frames[j].base + y.reg \in LocalSlots(frames[j])
        /\ frames[j].base + y.reg \in Slots /\ y.reg \in LocalRegs
    BY <2>1, ActiveCell
  <2>3. frames[j].base + y.reg # frames[i].base + x.reg
    <3>1. CASE j = i
      <4>1. y.reg # x.reg
        BY <1>4, <2>1, <3>1 DEF CellSet
      <4>2. y.reg \in Nat /\ x.reg \in Nat /\ frames[i].base \in Nat
        BY <1>1, <2>2, Chain DEF LocalRegs, CaptureInv
      <4> QED BY <3>1, <4>1, <4>2
    <3>2. CASE j # i
      <4>1. j < i \/ i < j
        BY <3>2, Chain DEF CaptureInv
      <4>2. LocalSlots(frames[j]) \cap LocalSlots(frames[i]) = {}
        BY <4>1, SlotsApart DEF CaptureInv, WellNested, WellCalled
      <4> QED BY <1>1, <2>2, <4>2
    <3> QED BY <3>1, <3>2
  <2>4. stack'[frames[j].base + y.reg] = stack[frames[j].base + y.reg]
    BY <1>2, <2>2, <2>3
  <2>5. Content(y)' = Content(y)
    BY <2>1, <2>4, ActiveSame
  <2> QED BY <1>4, <2>5 DEF Assigned
<1>5. CASE y # x /\ Ended(y)
  <2>1. Ended(y)'
    BY <1>5 DEF Ended
  <2>2. Content(y)' = Content(y)
    BY <1>5, <2>1, EndedSame
  <2> QED BY <1>5, <2>2 DEF Assigned
<1> QED BY <1>3, <1>4, <1>5 DEF Ended

LEMMA SetLocalAssigns ==
  ASSUME CaptureInv, CaptureInv', SetLocal
  PROVE  Cells!Assign
<1>1. PICK r \in LocalRegs, v \in Values : stack' = [stack EXCEPT ![Top.base + r] = v]
  BY DEF SetLocal
<1>2. InFunction /\ UNCHANGED <<frames, uv, value, sees>>
  BY DEF SetLocal, closures
<1>3. /\ Len(frames) \in DOMAIN frames /\ Top = frames[Len(frames)] /\ IsFunction(Top)
      /\ Top \in FrameType
  BY <1>2, Chain DEF CaptureInv
<1>4. Top.act \in Activations
  <2>1. Top.act # NoActivation
    BY <1>3, Chain DEF CaptureInv, Identified
  <2> QED BY <1>3, <2>1, FrameFields
<1> DEFINE x == [act |-> Top.act, reg |-> r]
<1>5. x \in CellSet /\ x.act = Top.act /\ x.reg = r
  BY <1>4 DEF CellSet
<1> HIDE DEF x
<1>6. /\ frames[Len(frames)].act = x.act
      /\ stack' = [stack EXCEPT ![frames[Len(frames)].base + x.reg] = v]
  BY <1>1, <1>3, <1>5
<1>7. \A y \in CellSet : Assigned(y, x, v)
  BY <1>2, <1>3, <1>5, <1>6, RegisterAssigned
<1> QED BY <1>2, <1>5, <1>7, AssignsCell

LEMMA SetUpvalueAssigns ==
  ASSUME CaptureInv, CaptureInv', SetUpvalue
  PROVE  Cells!Assign
<1>1. InFunction /\ UNCHANGED <<frames, uv, sees>> /\ Top.cls \in Closures
  BY Chain DEF CaptureInv, SetUpvalue, closures
<1>2. PICK T \in Closures : T = Top.cls
  BY <1>1
<1>3. PICK w \in UvType, x \in CellSet \cup {NoCell} : w = uv[T] /\ x = sees[T]
  BY DEF CaptureInv, ClosuresTyped, CellSet
<1>4. PICK v \in Values :
        \/ w.at = "stack" /\ stack' = [stack EXCEPT ![w.idx] = v] /\ UNCHANGED value
        \/ w.at = "gc" /\ value' = [value EXCEPT ![w.obj] = v] /\ UNCHANGED stack
  BY <1>2, <1>3 DEF SetUpvalue
<1>5. Placed(w, x) /\ x \in CellSet
  <2>1. Placed(w, x)
    BY <1>3 DEF CaptureInv, Found
  <2> QED BY <1>4, <2>1, MadeUv DEF Placed
<1>6. ASSUME w.at = "stack", stack' = [stack EXCEPT ![w.idx] = v], UNCHANGED value,
             NEW y \in CellSet
      PROVE  Assigned(y, x, v)
  <2>1. PICK i \in DOMAIN frames, r \in LocalRegs : InPlace(w, x, i, r)
    BY <1>5, <1>6 DEF Placed
  <2>2. /\ frames[i].act = x.act
        /\ stack' = [stack EXCEPT ![frames[i].base + x.reg] = v]
    BY <1>6, <2>1 DEF InPlace
  <2>3. x \in CellSet /\ UNCHANGED <<frames, uv, value, sees>>
    BY <1>1, <1>5, <1>6
  <2> QED BY Zenon, <1>6, <2>2, <2>3, RegisterAssigned
<1>7. ASSUME w.at = "gc", value' = [value EXCEPT ![w.obj] = v], UNCHANGED stack,
             NEW y \in CellSet
      PROVE  Assigned(y, x, v)
  <2>1. w.obj \in UvObjs /\ w = InObject(w.obj) /\ Ended(x)
    BY <1>5, <1>7, UvKinds DEF Placed
  <2>2. /\ value'[w.obj] = v
        /\ \A u \in UvObjs : u # w.obj => value'[u] = value[u]
    BY <1>7, <2>1 DEF CaptureInv, ClosuresTyped
  <2>3. CASE y = x
    <3>1. ContentLaw(x)' /\ Ended(x)'
      BY <1>1, <1>5, <2>1, ContentIsNext DEF Ended
    <3>3. Content(x)' = value'[uv'[T].obj]
      BY <1>1, <1>3, <3>1 DEF ContentLaw
    <3> QED BY <1>1, <1>3, <2>2, <2>3, <3>3 DEF Assigned
  <2>4. CASE y # x /\ \E j \in DOMAIN frames : frames[j].act = y.act
    <3>1. PICK j \in DOMAIN frames : frames[j].act = y.act
      BY <2>4
    <3>2. Content(y)' = Content(y)
      BY <1>1, <1>7, <3>1, ActiveSame
    <3> QED BY <2>4, <3>2 DEF Assigned
  <2>5. CASE y # x /\ Ended(y)
    <3>1. ASSUME NEW c \in Closures, sees[c] = y
          PROVE  value'[uv'[c].obj] = value[uv[c].obj]
      <4>1. /\ uv[c].at = "gc" /\ uv[c].obj \in UvObjs
            /\ uv[c] = InObject(uv[c].obj)
        BY <2>5, <3>1, EndedAt
      <4>2. uv[c] # w
        BY <1>3, <1>7, <2>5, <3>1, <4>1 DEF CaptureInv, ClosedAlike
      <4>3. uv[c].obj # w.obj
        BY <2>1, <4>1, <4>2
      <4> QED BY <1>1, <2>2, <4>1, <4>3
    <3>2. Ended(y)'
      BY <1>1, <2>5 DEF Ended
    <3>3. Content(y)' = Content(y)
      BY <1>1, <2>5, <3>1, <3>2, EndedSame
    <3> QED BY <2>5, <3>3 DEF Assigned
  <2> QED BY <2>3, <2>4, <2>5 DEF Ended
<1>8. \A y \in CellSet : Assigned(y, x, v)
  BY <1>4, <1>6, <1>7
<1> QED BY <1>1, <1>2, <1>3, <1>5, <1>8, AssignsCell

(* Calls that end, nobody having captured a variable of theirs.            *)
LEMMA UnnotedLeaves ==
  ASSUME faults' = {}, CaptureInv, CaptureInv', LeaveC \/ ReturnToHost \/ Raise
  PROVE  Cells!Leave
<1>1. PICK m \in 0 .. Len(frames) - 1 : EndTo(m) /\ UnnotedFrom(m)
  BY LeaveCEnds, RaiseEnds
<1>2. UNCHANGED <<uv, value, sees>>
  BY DEF LeaveC, ReturnToHost, Raise, closures
<1>3. /\ DOMAIN frames = 1 .. Len(frames) /\ Len(frames) \in Nat
      /\ DOMAIN frames' = 1 .. m /\ \A i \in 1 .. m : frames'[i] = frames[i]
  <2>1. frames \in Seq(FrameType)
    BY Chain DEF CaptureInv
  <2> QED BY <1>1, <2>1 DEF EndTo
<1>4. ASSUME NEW c \in Closures, sees[c] # NoCell, Ended(sees[c])'
      PROVE  value'[uv'[c].obj] = Content(sees[c])
  <2>1. PICK x \in CellSet : x = sees[c]
    BY <1>4 DEF CaptureInv, ClosuresTyped, CellSet
  <2>2. Ended(x)
    <3> SUFFICES ASSUME NEW i \in DOMAIN frames, frames[i].act = x.act PROVE FALSE
      BY DEF Ended
    <3>1. i \notin 1 .. m
      BY <1>2, <1>3, <1>4, <2>1 DEF Ended
    <3>2. i \in m + 1 .. Len(frames)
      BY <1>3, <3>1
    <3>3. IsFunction(frames[i])
      BY ActiveCell
    <3>4. Placed(uv[c], x) /\ uv[c] \in UvType /\ x # NoCell
      BY <1>4, <2>1 DEF CaptureInv, Found, ClosuresTyped
    <3>5. uv[c].at = "stack"
      BY <3>4, UvKinds DEF Placed, Ended
    <3>6. PICK j \in DOMAIN frames, r \in LocalRegs : InPlace(uv[c], x, j, r)
      BY <3>4, <3>5 DEF Placed
    <3>7. i = j
      BY <3>3, <3>6, ActsDiffer DEF InPlace, CaptureInv
    <3>8. uped[frames[i].cls] # {}
      BY <3>5, <3>6, <3>7, OwnersRun DEF InPlace
    <3> QED BY <1>1, <3>2, <3>3, <3>8 DEF UnnotedFrom
  <2>3. Content(x) = value[uv[c].obj]
    BY <2>1, <2>2, ContentIs DEF ContentLaw
  <2> QED BY <1>2, <2>1, <2>3
<1> QED BY <1>1, <1>2, <1>4, EndLeaves DEF EndTo

(* A return: captured variables move, with what they hold.                 *)
LEMMA ReturnLeaves ==
  ASSUME faults' = {}, CaptureInv, CaptureInv', ReturnToFunction \/ ReturnToC
  PROVE  Cells!Leave
<1>1. InFunction /\ CloseUpvalues /\ UNCHANGED sees
  BY DEF ReturnToFunction, ReturnToC
<1>2. PICK m \in 0 .. Len(frames) - 1 :
        /\ EndTo(m) /\ stack' = StackOf(frames')
        /\ \A i \in m + 1 .. Len(frames) - 1 : ~IsFunction(frames[i])
  BY ReturnEnds
<1>3. /\ DOMAIN frames = 1 .. Len(frames) /\ Len(frames) \in DOMAIN frames
      /\ Len(frames) \in Nat /\ Top = frames[Len(frames)] /\ Top.cls \in Closures
      /\ DOMAIN frames' = 1 .. m /\ \A i \in 1 .. m : frames'[i] = frames[i]
  <2>1. frames \in Seq(FrameType)
    BY Chain DEF CaptureInv
  <2> QED BY <1>1, <1>2, <2>1, Chain DEF EndTo, CaptureInv
<1>4. /\ \A c \in Closures : c \notin uped[Top.cls] => uv'[c] = uv[c]
      /\ \A u \in UvObjs : value[u] # NoValue => value'[u] = value[u]
      /\ \A c \in uped[Top.cls] : \E u : Taken(c, u)
  BY <1>1, Closing
<1>5. ASSUME NEW c \in Closures, sees[c] # NoCell, Ended(sees[c])'
      PROVE  value'[uv'[c].obj] = Content(sees[c])
  <2>1. PICK x \in CellSet : x = sees[c]
    BY <1>5 DEF CaptureInv, ClosuresTyped, CellSet
  <2>2. ContentLaw(x)
    BY ContentIs
  <2>3. CASE c \in uped[Top.cls]
    <3>1. x = [act |-> Top.act, reg |-> RegOf(c)]
      BY <1>1, <2>1, <2>3, TopsVariables
    <3>2. x.act = Top.act /\ x.reg = RegOf(c)
      BY <3>1
    <3>3. Content(x) = stack[Top.base + RegOf(c)]
      BY <1>3, <2>2, <3>2 DEF ContentLaw
    <3>4. PICK u : Taken(c, u)
      BY <1>4, <2>3
    <3>5. value'[uv'[c].obj] = Moved(RegOf(c))
      BY <3>4, MadeUv DEF Taken
    <3> QED BY <2>1, <3>3, <3>5 DEF Moved
  <2>4. CASE c \notin uped[Top.cls]
    <3>1. /\ Placed(uv[c], x) /\ uv[c] \in UvType /\ x # NoCell
          /\ uv'[c] = uv[c]
      BY <1>4, <1>5, <2>1, <2>4 DEF CaptureInv, Found, ClosuresTyped
    <3>2. uv[c].at # "stack"
      <4> SUFFICES ASSUME uv[c].at = "stack" PROVE FALSE
        OBVIOUS
      <4>1. PICK i \in DOMAIN frames, r \in LocalRegs : InPlace(uv[c], x, i, r)
        BY <3>1 DEF Placed
      <4>2. frames[i].act = x.act /\ frames[i].cls \in Closures /\ frames[i].cls # Top.cls
        BY <2>1, <2>4, <4>1, OwnersRun DEF InPlace
      <4>3. i \in 1 .. m
        <5>1. i # Len(frames) /\ i \notin m + 1 .. Len(frames) - 1
          BY <1>2, <1>3, <4>2, NoneAssumption DEF IsFunction
        <5> QED BY <1>3, <5>1
      <4> QED BY <1>1, <1>3, <1>5, <2>1, <4>2, <4>3 DEF Ended
    <3>3. uv[c].at = "gc" /\ uv[c].obj \in UvObjs
      BY <3>1, <3>2, UvKinds DEF Placed
    <3>4. value[uv[c].obj] # NoValue /\ Ended(x)
      BY <3>1, <3>3 DEF Placed
    <3>5. Content(x) = value[uv[c].obj]
      BY <2>1, <2>2, <3>4 DEF ContentLaw
    <3> QED BY <1>4, <2>1, <3>1, <3>3, <3>4, <3>5
  <2> QED BY <2>3, <2>4
<1> QED BY <1>1, <1>2, <1>5, EndLeaves DEF EndTo

LEMMA FunctionsEnter ==
  ASSUME CaptureInv, CaptureInv', NEW c \in Closures, Load(c) \/ PCall(c) \/ Call(c)
  PROVE  Cells!Enter
<1>1. CASE Load(c)
  <2>1. PushFunction(frames, c, BaseFromC) /\ UNCHANGED <<uv, value, sees>>
    BY <1>1 DEF Load
  <2> QED BY <2>1, PushEnters
<1>2. CASE PCall(c)
  <2>1. /\ PushFunction(Append(frames, CFrame(BaseFromC)), c, BaseFromC)
        /\ UNCHANGED <<uv, value, sees>>
    BY <1>2 DEF PCall, closures
  <2> QED BY <2>1, PushEnters
<1>3. CASE Call(c)
  <2>1. PICK ab \in CallRegs : PushFunction(frames, c, BaseFromFunction(ab[1], ab[2]))
    BY <1>3 DEF Call
  <2>2. UNCHANGED <<uv, value, sees>>
    BY <1>3 DEF Call, closures
  <2> QED BY <2>1, <2>2, PushEnters
<1> QED BY <1>1, <1>2, <1>3

LEMMA EnterCEnters ==
  ASSUME CaptureInv, CaptureInv', EnterC
  PROVE  Cells!EnterForeign
<1>1. PICK b : frames' = Append(frames, CFrame(b))
  BY DEF EnterC
<1>2. UNCHANGED <<stack, uv, value, sees>>
  BY DEF EnterC, closures
<1>3. /\ frames \in Seq(FrameType) /\ CFrame(b).act = NoActivation
      /\ CFrame(b).cls = NoClosure
  BY Chain DEF CaptureInv, CFrame
<1>4. /\ \A i \in DOMAIN frames : i \in DOMAIN frames' /\ frames'[i] = frames[i]
      /\ \A i \in DOMAIN frames' : i \in DOMAIN frames \/ frames'[i] = CFrame(b)
  <2>1. /\ DOMAIN frames' = 1 .. Len(frames) + 1 /\ frames'[Len(frames) + 1] = CFrame(b)
        /\ \A i \in 1 .. Len(frames) : frames'[i] = frames[i]
    BY <1>1, <1>3, AppendIs
  <2>2. DOMAIN frames = 1 .. Len(frames) /\ Len(frames) \in Nat
    BY <1>3
  <2> QED BY <2>1, <2>2
<1>5. Calls' = Append(Calls, Cells!Foreign)
  <2>1. CallsOf(frames') = Append(CallsOf(frames), [act |-> NoActivation, fn |-> NoClosure])
    BY <1>1, <1>3, CallsAre
  <2> QED BY <2>1, CallsIs, CallsIsNext DEF Cells!Foreign
<1>6. ASSUME NEW x \in CellSet PROVE Content(x)' = Content(x)
  <2>1. CASE \E i \in DOMAIN frames : frames[i].act = x.act
    BY <1>2, <1>4, <2>1, ActiveSame
  <2>2. CASE Ended(x)
    <3>1. x.act # NoActivation
      BY NoneAssumption DEF CellSet
    <3>2. Ended(x)'
      BY <1>3, <1>4, <2>2, <3>1 DEF Ended
    <3> QED BY <1>2, <2>2, <3>2, EndedSame
  <2> QED BY <2>1, <2>2 DEF Ended
<1>7. Contents' = Contents
  BY <1>6, CallsIs, CallsIsNext
<1> QED BY <1>2, <1>5, <1>7 DEF Cells!EnterForeign

(* A closure that is made is a Capture of a variable in reach.             *)
LEMMA FreeSeesNothing ==
  ASSUME CaptureInv, NEW c \in Closures, kind[c] = "free"
  PROVE  uv[c] = NoUv /\ sees[c] = NoCell /\ ~Cells!Runs(c)
<1>1. uv[c] = NoUv /\ sees[c] = NoCell
  BY DEF CaptureInv, InUse, Found, Placed
<1>2. ASSUME NEW i \in DOMAIN frames PROVE frames[i].cls # c
  BY NoneAssumption DEF CaptureInv, InUse, IsFunction
<1> QED BY <1>1, <1>2 DEF Cells!Runs, Calls

LEMMA MakeCaptures ==
  ASSUME CaptureInv, CaptureInv', InFunction, NEW c \in Closures,
         NEW w, NEW x \in CellSet, Make(c, w, x),
         x.act = Top.act \/ x = sees[Top.cls]
  PROVE  Cells!Capture(c)
<1>1. /\ kind[c] = "free" /\ UNCHANGED <<frames, stack, value>>
      /\ uv' = [uv EXCEPT ![c] = w] /\ sees' = [sees EXCEPT ![c] = x]
  BY DEF Make
<1>2. sees[c] = NoCell /\ ~Cells!Runs(c) /\ x \in Cells!InReach
  BY <1>1, FreeSeesNothing, ReachIs
<1>3. /\ sees'[c] = x
      /\ \A d \in Closures : d # c => uv'[d] = uv[d] /\ sees'[d] = sees[d]
  BY <1>1 DEF CaptureInv, ClosuresTyped
<1>4. /\ Top.cls \in Closures /\ Len(frames) \in DOMAIN frames
      /\ Top = frames[Len(frames)]
  BY Chain DEF CaptureInv
<1>5. ASSUME NEW y \in CellSet PROVE Content(y)' = Content(y)
  <2>1. y # NoCell
    BY NoneAssumption DEF CellSet, LocalRegs
  <2>2. CASE \E i \in DOMAIN frames : frames[i].act = y.act
    BY <1>1, <2>2, ActiveSame
  <2>3. CASE Ended(y) /\ y # x
    <3>1. Ended(y)'
      BY <1>1, <2>3 DEF Ended
    <3>2. \A d \in Closures : sees'[d] = y <=> sees[d] = y
      BY <1>2, <1>3, <2>1, <2>3
    <3>3. \A d \in Closures : sees[d] = y => value'[uv'[d].obj] = value[uv[d].obj]
      BY <1>1, <1>2, <1>3, <2>1
    <3> QED BY <2>3, <3>1, <3>2, <3>3, EndedSame
  <2>4. CASE Ended(y) /\ y = x
    <3>1. Ended(y)' /\ y = sees[Top.cls]
      BY <1>1, <1>4, <2>4 DEF Ended
    <3>2. PICK T \in Closures : T = Top.cls
      BY <1>4
    <3>3. sees[T] = y /\ sees'[T] = y /\ uv'[T] = uv[T]
      BY <1>2, <1>3, <2>1, <3>1, <3>2
    <3>4. ContentLaw(y) /\ ContentLaw(y)'
      BY ContentIs, ContentIsNext
    <3>5. Content(y) = value[uv[T].obj]
      BY <2>4, <3>3, <3>4 DEF ContentLaw
    <3>6. Content(y)' = value'[uv'[T].obj]
      BY <3>1, <3>3, <3>4 DEF ContentLaw
    <3> QED BY <1>1, <3>3, <3>5, <3>6
  <2> QED BY <2>2, <2>3, <2>4 DEF Ended
<1>6. Contents' = Contents /\ Calls' = Calls
  BY <1>1, <1>5, CallsIs, CallsIsNext
<1> QED BY <1>1, <1>2, <1>6 DEF Cells!Capture

LEMMA MakesCapture ==
  ASSUME CaptureInv, CaptureInv', NEW c \in Closures,
         MakeOverLocal(c) \/ MakeOverUpvalue(c)
  PROVE  Cells!Capture(c)
<1>1. InFunction
  BY DEF MakeOverLocal, MakeOverUpvalue
<1>2. /\ Top.cls \in Closures /\ Len(frames) \in DOMAIN frames
      /\ Top = frames[Len(frames)] /\ IsFunction(Top) /\ Top \in FrameType
  BY <1>1, Chain DEF CaptureInv
<1>3. CASE MakeOverLocal(c)
  <2>1. PICK r \in LocalRegs :
          Make(c, OnStack(Top.cls, Top.base + r), [act |-> Top.act, reg |-> r])
    BY <1>3 DEF MakeOverLocal
  <2>2. Top.act \in Activations
    <3>1. Top.act # NoActivation
      BY <1>2, Chain DEF CaptureInv, Identified
    <3> QED BY <1>2, <3>1, FrameFields
  <2>3. PICK x \in CellSet : x = [act |-> Top.act, reg |-> r]
    BY <2>2 DEF CellSet
  <2>4. x.act = Top.act
    BY <2>3
  <2> QED BY <1>1, <2>1, <2>3, <2>4, MakeCaptures
<1>4. CASE MakeOverUpvalue(c)
  <2>1. /\ Make(c, uv[Top.cls], sees[Top.cls]) /\ uv[Top.cls] # NoUv
    BY <1>4 DEF MakeOverUpvalue
  <2>2. sees[Top.cls] \in CellSet
    BY <1>2, <2>1 DEF CaptureInv, ClosuresTyped, Found, Placed, CellSet
  <2>3. PICK x \in CellSet : x = sees[Top.cls]
    BY <2>2
  <2> QED BY <1>1, <2>1, <2>3, MakeCaptures
<1> QED BY <1>3, <1>4

(* A closure that is freed gives up what it has captured.                  *)
LEMMA FreeReleases ==
  ASSUME CaptureInv, CaptureInv', NEW c \in Closures, Free(c)
  PROVE  Cells!Release(c)
<1>1. /\ ~Running(c) /\ uv' = [uv EXCEPT ![c] = NoUv] /\ sees' = [sees EXCEPT ![c] = NoCell]
      /\ value' = [u \in UvObjs |-> IF \E d \in Closures \ {c} : uv[d] = InObject(u)
                                    THEN value[u] ELSE NoValue]
      /\ UNCHANGED <<frames, stack>>
  BY DEF Free
<1>2. /\ sees'[c] = NoCell
      /\ \A d \in Closures : d # c => uv'[d] = uv[d] /\ sees'[d] = sees[d]
  BY <1>1 DEF CaptureInv, ClosuresTyped
<1>3. ~Cells!Runs(c)
  BY <1>1 DEF Cells!Runs, Calls, Running
<1>4. /\ Cells!Active(Calls) = {frames[i].act : i \in DOMAIN frames}
      /\ Cells!Held(sees') = {sees'[d] : d \in Closures} \ {NoCell}
  BY DEF Cells!Active, Cells!Held, Calls
<1>5. ASSUME NEW y \in CellSet
      PROVE  Content(y)' = IF y.act \in Cells!Active(Calls) \/ y \in Cells!Held(sees')
                           THEN Content(y) ELSE NoValue
  <2>1. /\ y # NoCell /\ ContentLaw(y) /\ ContentLaw(y)'
        /\ Ended(y) <=> y.act \notin Cells!Active(Calls)
        /\ Ended(y)' <=> Ended(y)
    BY <1>1, <1>4, ContentIs, ContentIsNext, NoneAssumption DEF CellSet, LocalRegs, Ended
  <2>2. CASE ~Ended(y)
    <3>1. Content(y)' = Content(y)
      BY <1>1, <2>2, ActiveSame DEF Ended
    <3> QED BY <2>1, <2>2, <3>1
  <2>3. CASE Ended(y) /\ y \in Cells!Held(sees')
    <3>1. PICK d \in Closures : sees'[d] = y
      BY <1>4, <2>3
    <3>2. d # c /\ sees[d] = y /\ uv'[d] = uv[d]
      BY <1>2, <2>1, <3>1
    <3>3. uv[d].obj \in UvObjs /\ uv[d] = InObject(uv[d].obj)
      BY <2>3, <3>2, EndedAt
    <3>4. value'[uv[d].obj] = value[uv[d].obj]
      BY <1>1, <3>2, <3>3
    <3>5. Content(y) = value[uv[d].obj]
      BY <2>1, <2>3, <3>2 DEF ContentLaw
    <3>6. Content(y)' = value'[uv'[d].obj]
      BY <2>1, <2>3, <3>1 DEF ContentLaw
    <3> QED BY <2>3, <3>2, <3>4, <3>5, <3>6
  <2>4. CASE Ended(y) /\ y \notin Cells!Held(sees')
    <3>1. \A d \in Closures : sees'[d] # y
      BY <1>4, <2>1, <2>4
    <3>2. Content(y)' = NoValue
      BY <2>1, <2>4, <3>1 DEF ContentLaw
    <3> QED BY <2>1, <2>4, <3>2
  <2> QED BY <2>2, <2>3, <2>4
<1>6. Contents' = Cells!Kept(Calls, sees')
  BY <1>5, CallsIs, CallsIsNext DEF Cells!Kept
<1>7. Calls' = Calls
  BY <1>1, CallsIs, CallsIsNext
<1> QED BY <1>1, <1>3, <1>6, <1>7 DEF Cells!Release

(* What nobody can tell.                                                   *)
LEMMA UnseenSteps ==
  UNCHANGED <<frames, stack, uv, value, sees>> => UNCHANGED Cells!vars
BY DEF Cells!vars, Calls, Contents, Content, FrameOf, HoldersOf

LEMMA MakePlainUnseen ==
  ASSUME CaptureInv, NEW c \in Closures, MakePlain(c)
  PROVE  UNCHANGED Cells!vars
<1>1. /\ kind[c] = "free" /\ UNCHANGED <<frames, stack, value>>
      /\ uv' = [uv EXCEPT ![c] = NoUv] /\ sees' = [sees EXCEPT ![c] = NoCell]
  BY DEF MakePlain, Make
<1>2. uv[c] = NoUv /\ sees[c] = NoCell
  BY <1>1, FreeSeesNothing
<1>3. uv' = uv /\ sees' = sees
  BY <1>1, <1>2 DEF CaptureInv, ClosuresTyped
<1> QED BY <1>1, <1>3, UnseenSteps

LEMMA NextIsOfCells ==
  ASSUME faults' = {}, CaptureInv, CaptureInv', Next
  PROVE  Cells!Next \/ UNCHANGED Cells!vars
<1>1. CASE \E c \in Closures : Load(c) \/ PCall(c) \/ Call(c)
  BY <1>1, FunctionsEnter DEF Cells!Next
<1>2. CASE \E c \in Closures : MakePlain(c)
  BY <1>2, MakePlainUnseen
<1>3. CASE \E c \in Closures : MakeOverLocal(c) \/ MakeOverUpvalue(c)
  BY <1>3, MakesCapture DEF Cells!Next
<1>4. CASE \E c \in Closures : Free(c)
  BY <1>4, FreeReleases DEF Cells!Next
<1>5. CASE EnterC
  BY <1>5, EnterCEnters DEF Cells!Next
<1>6. CASE LeaveC \/ ReturnToHost \/ Raise
  BY <1>6, UnnotedLeaves DEF Cells!Next
<1>7. CASE ReturnToFunction \/ ReturnToC
  BY <1>7, ReturnLeaves DEF Cells!Next
<1>8. CASE SetLocal \/ SetUpvalue
  BY <1>8, SetLocalAssigns, SetUpvalueAssigns DEF Cells!Next
<1> QED BY <1>1, <1>2, <1>3, <1>4, <1>5, <1>6, <1>7, <1>8 DEF Next

LEMMA InitIsOfCells == Init => Cells!Init
<1> SUFFICES ASSUME Init PROVE Cells!Init
  OBVIOUS
<1>1. Calls = << >>
  BY DEF Init, Calls
<1>2. ASSUME NEW x \in CellSet PROVE Content(x) = NoValue
  BY DEF Init, Content, FrameOf, HoldersOf, NoUv
<1>3. sees = [c \in Closures |-> NoCell]
  BY DEF Init
<1> QED BY <1>1, <1>2, <1>3, CallsIs DEF Cells!Init

(* Closures keep what A2Cells promises a script: every step of the frames, *)
(* upvalues and protected calls, up to the one at which a fault strikes,   *)
(* is one of variables that simply live as long as somebody can name them. *)
THEOREM CapturesBehaveAsCells == Spec => RefinesCells
<1>1. Init => Cells!Init
  BY InitIsOfCells
<1>2. FramesInv /\ FramesInv' /\ [Next]_vars
        => [faults' = {} => [Cells!Next]_(Cells!vars)]_vars
  <2> SUFFICES ASSUME FramesInv, FramesInv', Next, faults' = {}
               PROVE  [Cells!Next]_(Cells!vars)
    OBVIOUS
  <2>1. CaptureInv /\ CaptureInv'
    BY FaultsGrow DEF FramesInv, Sound
  <2> QED BY <2>1, NextIsOfCells
<1> QED BY <1>1, <1>2, CaptureInvariance, PTL DEF Spec, RefinesCells

=============================================================================
