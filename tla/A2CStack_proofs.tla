-------------------------- MODULE A2CStack_proofs ---------------------------
(***************************************************************************)
(* Proofs about A2CStack, for stacks of any height and any number of runs  *)
(* and C functions inside each other: the windows nest (with all perils    *)
(* admitted), the one C stack implements a stack for everybody, and the    *)
(* registry has what the loads of modules left.                            *)
(***************************************************************************)
EXTENDS A2CStack, SequenceTheorems, TLAPS

Runs == [what : {"load", "pcall", "require"}, key : Keys \cup {None}, top : Nat, cap : Nat]

RunsOK ==
  /\ runs \in Seq(Runs)
  /\ cap \in Nat
  /\ reg \in [Keys -> Things \cup {None}]

(* The inductive invariant: what is registered and where a2_require goes   *)
(* on can be put on the stack.                                             *)
StackInv == WindowsNest /\ RunsOK

(* What is left of a sequence when the top goes down to n.                 *)
LEMMA Shrunk ==
  ASSUME NEW S, NEW s \in Seq(S), NEW n \in Nat, n <= Len(s)
  PROVE  /\ SubSeq(s, 1, n) \in Seq(S)
         /\ Len(SubSeq(s, 1, n)) = n
         /\ \A i \in 1 .. n : SubSeq(s, 1, n)[i] = s[i]
<1>1. \A i \in 1 .. n : s[i] \in S
  BY LenProperties
<1>2. /\ SubSeq(s, 1, n) \in Seq(S)
      /\ Len(SubSeq(s, 1, n)) = IF 1 <= n THEN n - 1 + 1 ELSE 0
      /\ \A i \in 1 .. n - 1 + 1 : SubSeq(s, 1, n)[i] = s[1 + i - 1]
  BY <1>1, SubSeqProperties
<1>3. (IF 1 <= n THEN n - 1 + 1 ELSE 0) = n /\ n - 1 + 1 = n
  OBVIOUS
<1> QED BY <1>2, <1>3

LEMMA FrontOf ==
  ASSUME NEW S, NEW s \in Seq(S), s # << >>
  PROVE  /\ Front(s) \in Seq(S)
         /\ Len(s) \in Nat /\ Len(s) >= 1
         /\ Len(Front(s)) = Len(s) - 1
         /\ \A i \in 1 .. Len(s) - 1 : Front(s)[i] = s[i]
         /\ Last(s) \in S
<1>1. Len(s) \in Nat /\ Len(s) >= 1
  BY EmptySeq
<1>2. Len(s) - 1 \in Nat /\ Len(s) - 1 <= Len(s) /\ Len(s) \in 1 .. Len(s)
  BY <1>1
<1>3. Last(s) \in S
  BY <1>2, LenProperties DEF Last
<1> QED BY <1>1, <1>2, <1>3, Shrunk DEF Front

LEMMA GrownNat ==
  ASSUME cap \in Nat, NEW n
  PROVE  Grown(n) \in Nat
BY DEF Grown

(* Who is in control decides the lengths of the two chains.                *)
LEMMA TurnOf ==
  ASSUME StackInv
  PROVE  /\ Len(saved) \in Nat /\ Len(runs) \in Nat /\ Len(stk) \in Nat
         /\ InC => Len(runs) = Len(saved)
         /\ InScript => Len(runs) = Len(saved) + 1 /\ runs # << >>
BY EmptySeq DEF StackInv, WindowsNest, RunsOK, InC, InScript

(* The windows that wait, one by one.                                      *)
LEMMA SavedOrder ==
  ASSUME StackInv
  PROVE  /\ Len(saved) \in Nat /\ bottom \in Nat
         /\ \A i \in 1 .. Len(saved) :
              /\ saved[i] \in [bottom : Nat, top : Nat]
              /\ saved[i].bottom \in Nat /\ saved[i].top \in Nat
              /\ saved[i].bottom <= saved[i].top /\ saved[i].top <= bottom
              /\ \A j \in 1 .. Len(saved) : i < j => saved[i].top <= saved[j].bottom
<1>1. /\ saved \in Seq([bottom : Nat, top : Nat]) /\ bottom \in Nat
      /\ \A i \in DOMAIN saved :
           /\ saved[i].bottom <= saved[i].top /\ saved[i].top <= bottom
           /\ \A j \in DOMAIN saved : i < j => saved[i].top <= saved[j].bottom
  BY DEF StackInv, WindowsNest
<1>2. /\ Len(saved) \in Nat /\ DOMAIN saved = 1 .. Len(saved)
      /\ \A i \in 1 .. Len(saved) : saved[i] \in [bottom : Nat, top : Nat]
  BY <1>1, LenProperties
<1>3. \A i \in 1 .. Len(saved) : saved[i].bottom \in Nat /\ saved[i].top \in Nat
  BY <1>2
<1> QED BY <1>1, <1>2, <1>3

(* The stack s leaves alone what lies below the window in control.         *)
Keeps(s) ==
  /\ s \in Seq(Things) /\ bottom <= Len(s)
  /\ \A i \in 1 .. bottom : s[i] = stk[i]

(* Putting elements on the stack, one or several.                          *)
LEMMA Pushed ==
  ASSUME StackInv, NEW t \in Seq(Things)
  PROVE  /\ Keeps(stk \o t)
         /\ Len(stk \o t) = Len(stk) + Len(t)
         /\ \A i \in 1 .. Len(stk) : (stk \o t)[i] = stk[i]
<1>1. stk \in Seq(Things) /\ bottom \in Nat /\ bottom <= Len(stk) /\ Len(stk) \in Nat
      /\ Len(t) \in Nat
  BY DEF StackInv, WindowsNest
<1> QED BY <1>1, ConcatProperties DEF Keeps

LEMMA PushedOne ==
  ASSUME StackInv, NEW v \in Things
  PROVE  /\ Keeps(Append(stk, v))
         /\ Len(Append(stk, v)) = Len(stk) + 1
         /\ Append(stk, v)[Len(stk) + 1] = v
         /\ \A i \in 1 .. Len(stk) : Append(stk, v)[i] = stk[i]
<1>1. stk \in Seq(Things) /\ bottom \in Nat /\ bottom <= Len(stk) /\ Len(stk) \in Nat
  BY DEF StackInv, WindowsNest
<1> QED BY <1>1, AppendProperties DEF Keeps

(* Replacing an element of the window.                                     *)
LEMMA Replaced ==
  ASSUME StackInv, NEW v \in Things, NEW n \in Nat, bottom < n, n <= Len(stk)
  PROVE  Keeps([stk EXCEPT ![n] = v])
<1>1. stk \in Seq(Things) /\ bottom \in Nat /\ Len(stk) \in Nat /\ n \in 1 .. Len(stk)
  BY DEF StackInv, WindowsNest
<1> QED BY <1>1, ExceptSeq DEF Keeps

(* Taking elements from the window.                                        *)
LEMMA Taken ==
  ASSUME StackInv, NEW n \in Nat, bottom <= n, n <= Len(stk)
  PROVE  Keeps(SubSeq(stk, 1, n))
<1>1. stk \in Seq(Things) /\ bottom \in Nat
  BY DEF StackInv, WindowsNest
<1> QED BY <1>1, Shrunk DEF Keeps

Works == Push \/ PushValue \/ SetValue \/ Pop \/ Store \/ Get \/ GetMap \/ RequireKnown

(* C code at work touches nothing but its window.                          *)
LEMMA WorkKeeps ==
  ASSUME StackInv, Works
  PROVE  InC /\ Unmoved /\ handed' = << >> /\ Keeps(stk') /\ cap' \in Nat
<1>1. /\ stk \in Seq(Things) /\ bottom \in Nat /\ bottom <= Len(stk) /\ Len(stk) \in Nat
      /\ cap \in Nat /\ Fresh \subseteq Things
      /\ \A i \in 1 .. Len(stk) : stk[i] \in Things
  BY DEF StackInv, WindowsNest, RunsOK, Fresh, Things
<1>2. CASE Push
  BY <1>1, <1>2, PushedOne, GrownNat DEF Push, Put
<1>3. CASE PushValue
  <2>1. PICK i \in 0 .. Size - 1 :
          \E v \in IF Len(stk) < cap THEN {At(stk, i)} ELSE Things : Put(Append(stk, v))
    BY <1>3 DEF PushValue
  <2>2. At(stk, i) \in Things
    BY <1>1, <2>1 DEF At, Size
  <2>3. PICK v \in Things : Put(Append(stk, v))
    BY <2>1, <2>2
  <2> QED BY <1>1, <1>3, <2>3, PushedOne, GrownNat DEF PushValue, Put
<1>4. CASE SetValue
  <2>1. PICK i \in 0 .. Size - 1 : stk' = [stk EXCEPT ![bottom + i + 1] = stk[Len(stk)]]
    BY <1>4 DEF SetValue
  <2>2. bottom < bottom + i + 1 /\ bottom + i + 1 <= Len(stk) /\ bottom + i + 1 \in Nat
        /\ stk[Len(stk)] \in Things
    BY <1>1, <2>1 DEF Size
  <2> QED BY <1>1, <1>4, <2>1, <2>2, Replaced DEF SetValue
<1>5. CASE Pop
  <2>1. PICK n \in 1 .. Size : stk' = SubSeq(stk, 1, Len(stk) - n)
    BY <1>5 DEF Pop
  <2>2. Len(stk) - n \in Nat /\ bottom <= Len(stk) - n /\ Len(stk) - n <= Len(stk)
    BY <1>1, <2>1 DEF Size
  <2> QED BY <1>1, <1>5, <2>1, <2>2, Taken DEF Pop
<1>6. CASE Store
  <2>1. LET n == bottom + Size - 2 IN n \in Nat /\ bottom <= n /\ n <= Len(stk)
    BY <1>1, <1>6 DEF Store, Size
  <2> QED BY <1>1, <1>6, <2>1, Taken DEF Store
<1>7. CASE Get
  <2>1. Len(stk) \in Nat /\ bottom < Len(stk) /\ Len(stk) <= Len(stk)
    BY <1>1, <1>7 DEF Get, Size
  <2>2. PICK v \in Things : stk' = [stk EXCEPT ![Len(stk)] = v]
    BY <1>1, <1>7 DEF Get
  <2>3. Keeps(stk')
    BY <2>1, <2>2, Replaced
  <2> QED BY <1>1, <1>7, <2>3 DEF Get
<1>8. CASE GetMap
  <2>1. Len(stk) - 1 \in Nat /\ bottom < Len(stk) - 1 /\ Len(stk) - 1 <= Len(stk)
    BY <1>1, <1>8 DEF GetMap, Size
  <2> QED BY <1>1, <1>8, <2>1, Replaced DEF GetMap
<1>9. CASE RequireKnown
  <2>1. PICK k \in Named : reg[k] # None /\ Put(Append(stk, reg[k]))
    BY <1>9 DEF RequireKnown
  <2>2. reg[k] \in Things
    BY <2>1 DEF StackInv, RunsOK, Named
  <2> QED BY <1>1, <1>9, <2>1, <2>2, PushedOne, GrownNat DEF RequireKnown, Put
<1> QED BY <1>2, <1>3, <1>4, <1>5, <1>6, <1>7, <1>8, <1>9 DEF Works

(* How a run ends: what it left is on the stack, a2_require adds to it.    *)
LEMMA EndedStep ==
  ASSUME StackInv, NEW s, Keeps(s),
         NEW r \in Runs,
         Ended(s, r)
  PROVE  /\ Keeps(stk') /\ Len(s) <= Len(stk')
         /\ \A i \in 1 .. Len(s) : stk'[i] = s[i]
         /\ cap' \in Nat /\ reg' \in [Keys -> Things \cup {None}]
<1> USE DEF StackInv, WindowsNest, RunsOK, Runs, Keeps
<1>1. cap' \in Nat
  BY GrownNat DEF Ended, Put
<1>2. CASE r.what # "require"
  BY <1>1, <1>2 DEF Ended, Put
<1>3. CASE r.what = "require"
  <2>1. Len(s) \in Nat /\ bottom \in Nat /\ r.top \in Nat /\ Nil \in Things
    BY DEF Things
  <2>2. (IF Len(s) - bottom > r.top THEN At(s, r.top) ELSE Nil) \in Things
    <3>1. CASE Len(s) - bottom > r.top
      <4>1. bottom + r.top + 1 \in 1 .. Len(s)
        BY <2>1, <3>1
      <4> QED BY <3>1, <4>1 DEF At
    <3> QED BY <2>1, <3>1
  <2>3. /\ Required(s, r.top) \in Seq(Things)
        /\ Len(Required(s, r.top)) = Len(s) + 1
        /\ \A i \in 1 .. Len(s) : Required(s, r.top)[i] = s[i]
    BY <2>1, <2>2, AppendProperties DEF Required
  <2>4. stk' = Required(s, r.top)
    BY <1>3 DEF Ended, Put
  <2>5. PICK k \in Keys \cup {None},
             v \in IF r.top < Len(stk') - bottom THEN {At(stk', r.top)} ELSE Things :
          reg' = [reg EXCEPT ![k] = v]
    BY <1>3 DEF Ended
  <2>6. v \in Things
    <3>1. CASE r.top < Len(stk') - bottom
      <4>1. bottom + r.top + 1 \in 1 .. Len(stk')
        BY <2>1, <2>3, <2>4, <3>1
      <4> QED BY <2>3, <2>4, <2>5, <3>1, <4>1 DEF At
    <3> QED BY <2>5, <3>1
  <2>7. reg' \in [Keys -> Things \cup {None}]
    BY <2>5, <2>6
  <2>8. stk' \in Seq(Things) /\ Len(stk') = Len(s) + 1 /\ \A i \in 1 .. Len(s) : stk'[i] = s[i]
    BY <2>3, <2>4
  <2>9. bottom <= Len(stk') /\ Len(s) <= Len(stk')
    BY <2>1, <2>8
  <2> QED BY <1>1, <2>7, <2>8, <2>9
<1> QED BY <1>2, <1>3

(* A load that fails at once is work, but for the registry.                *)
LEMMA LoadFailsKeeps ==
  ASSUME StackInv, LoadFails
  PROVE  /\ InC /\ handed' = << >> /\ UNCHANGED <<bottom, saved, runs>>
         /\ Keeps(stk') /\ cap' \in Nat /\ reg' \in [Keys -> Things \cup {None}]
<1>1. PICK r \in {Begun("load", None)} \cup {Begun("require", k) : k \in Unknown} :
        Ended(Append(stk, Msg), r)
  BY DEF LoadFails
<1>2. r \in Runs
  <2>1. Size \in Nat /\ cap \in Nat /\ Unknown \subseteq Keys
    BY DEF StackInv, WindowsNest, RunsOK, Size, Unknown, Named
  <2> QED BY <1>1, <2>1 DEF Begun, Runs
<1>3. Msg \in Things
  BY DEF Things
<1> QED BY <1>1, <1>2, <1>3, PushedOne, EndedStep DEF LoadFails, Runs

(* A run that ends lets everything stand and adds to it.                   *)
LEMMA RunEnds ==
  ASSUME StackInv, Return \/ ScriptFails
  PROVE  /\ InScript /\ handed' = << >> /\ UNCHANGED <<bottom, saved>>
         /\ runs # << >> /\ runs' = Front(runs)
         /\ Keeps(stk') /\ Len(stk) <= Len(stk')
         /\ \A i \in 1 .. Len(stk) : stk'[i] = stk[i]
         /\ cap' \in Nat /\ reg' \in [Keys -> Things \cup {None}]
<1>1. InScript /\ runs # << >>
  BY TurnOf DEF Return, ScriptFails
<1>2. Last(runs) \in Runs
  BY <1>1, FrontOf DEF StackInv, RunsOK, Runs
<1>3. Len(stk) \in Nat
  BY DEF StackInv, WindowsNest
<1>4. PICK t \in Seq(Things) : Ended(stk \o t, Last(runs))
  <2>1. CASE Return
    <3>1. PICK results \in Some(MaxCount) :
            LET pushed == IF Len(runs) = 1 /\ Last(runs).what # "pcall"
                          THEN << >> ELSE results
            IN  Ended(stk \o pushed, Last(runs))
      BY <2>1 DEF Return
    <3>2. results \in Seq(Things)
      BY <3>1, SizesAssumption DEF Some, Fresh, Things
    <3>3. << >> \in Seq(Things)
      BY EmptySeq
    <3> QED BY <3>1, <3>2, <3>3
  <2>2. CASE ScriptFails
    <3>1. stk \o <<Msg>> = Append(stk, Msg) /\ <<Msg>> \in Seq(Things)
      BY AppendIsConcat DEF StackInv, WindowsNest, Things
    <3> QED BY <2>2, <3>1 DEF ScriptFails
  <2> QED BY <2>1, <2>2
<1>5. /\ Keeps(stk \o t) /\ Len(stk \o t) = Len(stk) + Len(t) /\ Len(t) \in Nat
      /\ \A i \in 1 .. Len(stk) : (stk \o t)[i] = stk[i]
  BY Pushed, LenProperties
<1>6. /\ Keeps(stk') /\ Len(stk \o t) <= Len(stk')
      /\ \A i \in 1 .. Len(stk \o t) : stk'[i] = (stk \o t)[i]
      /\ cap' \in Nat /\ reg' \in [Keys -> Things \cup {None}]
  BY <1>2, <1>4, <1>5, EndedStep DEF Runs
<1>7. Len(stk') \in Nat
  BY <1>6, LenProperties DEF Keeps
<1>8. Len(stk) <= Len(stk') /\ \A i \in 1 .. Len(stk) : stk'[i] = stk[i]
  BY <1>3, <1>5, <1>6, <1>7
<1> QED BY <1>1, <1>6, <1>8 DEF Return, ScriptFails

(* A C function that fails leaves its message behind its window.           *)
LEMMA FailureKeeps ==
  ASSUME StackInv, CFails
  PROVE  /\ InC /\ handed' = << >> /\ UNCHANGED bottom
         /\ saved # << >> /\ saved' = Front(saved)
         /\ runs # << >> /\ runs' = Front(runs)
         /\ Keeps(stk') /\ cap' \in Nat /\ reg' \in [Keys -> Things \cup {None}]
         /\ "c_error" \notin Perils => stk' = Append(stk, Msg)
<1>1. InC /\ saved # << >> /\ runs # << >>
  BY TurnOf, EmptySeq DEF CFails, StackInv, WindowsNest
<1>2. Last(runs) \in Runs
  BY <1>1, FrontOf DEF StackInv, RunsOK, Runs
<1>3. Keeps(Append(stk, Msg))
  BY PushedOne DEF Things
<1>4. Keeps(stk') /\ cap' \in Nat /\ reg' \in [Keys -> Things \cup {None}]
  BY <1>2, <1>3, EndedStep DEF CFails, Runs
<1>5. "c_error" \notin Perils => stk' = Append(stk, Msg)
  BY DEF CFails, Ended, Put
<1> QED BY <1>1, <1>4, <1>5 DEF CFails
(* The arguments of a C function lie where its window begins.              *)
LEMMA EntryKeeps ==
  ASSUME StackInv, EnterC
  PROVE  /\ InScript /\ handed' = << >> /\ UNCHANGED <<runs, reg>>
         /\ stk' \in Seq(Things) /\ Len(stk) <= Len(stk') /\ bottom' = Len(stk)
         /\ \A i \in 1 .. Len(stk) : stk'[i] = stk[i]
         /\ saved' = Append(saved, [bottom |-> bottom, top |-> Len(stk)])
         /\ cap' \in Nat
<1>1. PICK args \in Some(MaxWant) : Put(stk \o args)
  BY DEF EnterC
<1>2. args \in Seq(Things)
  BY <1>1, SizesAssumption DEF Some, Fresh, Things
<1>3. Len(stk) \in Nat /\ Len(args) \in Nat
  BY <1>2 DEF StackInv, WindowsNest
<1> QED BY <1>1, <1>2, <1>3, Pushed, GrownNat DEF EnterC, Put, Keeps, StackInv, RunsOK

(* The caller's window is as it was.                                       *)
LEMMA ExitKeeps ==
  ASSUME StackInv, LeaveC
  PROVE  /\ InC /\ saved # << >> /\ saved' = Front(saved)
         /\ bottom' = Last(saved).bottom
         /\ stk' \in Seq(Things) /\ Len(stk') = Last(saved).top
         /\ \A i \in 1 .. Len(stk') : stk'[i] = stk[i]
         /\ UNCHANGED <<cap, runs, reg>>
<1>1. saved # << >> /\ stk' = SubSeq(stk, 1, Last(saved).top)
  BY DEF LeaveC
<1>2. Last(saved).top \in Nat /\ Last(saved).top <= bottom
  <2>1. Len(saved) \in 1 .. Len(saved)
    BY <1>1, FrontOf DEF StackInv, WindowsNest
  <2> QED BY <2>1, SavedOrder DEF Last
<1>3. stk \in Seq(Things) /\ Last(saved).top <= Len(stk)
  BY <1>2 DEF StackInv, WindowsNest
<1> QED BY <1>1, <1>2, <1>3, Shrunk DEF LeaveC

LEMMA InvInit == Init => StackInv
<1> SUFFICES ASSUME Init PROVE StackInv
  OBVIOUS
<1>1. << >> \in Seq(Things) /\ << >> \in Seq(Runs) /\ << >> \in Seq([bottom : Nat, top : Nat])
  BY EmptySeq
<1>2. Len(<< >>) = 0
  BY EmptySeq
<1>3. RunsOK
  BY <1>1, SizesAssumption DEF Init, RunsOK
<1>4. WindowsNest
  BY <1>1, <1>2 DEF Init, WindowsNest
<1> QED BY <1>3, <1>4 DEF StackInv

(* The window in control and the chain of runs change, and nothing else.   *)
LEMMA SameCallers ==
  ASSUME StackInv, UNCHANGED <<bottom, saved>>, Keeps(stk'),
         RunsOK', Len(runs') \in {Len(saved), Len(saved) + 1}
  PROVE  StackInv'
BY LenProperties DEF StackInv, WindowsNest, Keeps

LEMMA InvStep == StackInv /\ [Next]_vars => StackInv'
<1> SUFFICES ASSUME StackInv, [Next]_vars PROVE StackInv'
  OBVIOUS
<1>0. /\ stk \in Seq(Things) /\ Len(stk) \in Nat /\ bottom \in Nat /\ bottom <= Len(stk)
      /\ saved \in Seq([bottom : Nat, top : Nat])
      /\ Len(saved) \in Nat /\ DOMAIN saved = 1 .. Len(saved)
      /\ Len(runs) \in Nat
      /\ Len(runs) \in {Len(saved), Len(saved) + 1}
      /\ runs \in Seq(Runs) /\ RunsOK
  BY LenProperties DEF StackInv, WindowsNest, RunsOK
<1>1. CASE Works
  <2>1. RunsOK' /\ UNCHANGED <<bottom, saved, runs>> /\ Keeps(stk')
    BY <1>0, <1>1, WorkKeeps DEF RunsOK, Unmoved
  <2> QED BY <1>0, <2>1, SameCallers
<1>2. CASE Load \/ PCall \/ RequireNew
  <2>1. PICK what \in {"load", "pcall", "require"}, key \in Keys \cup {None} : Run(what, key)
    BY <1>2 DEF Load, PCall, RequireNew, Unknown, Named
  <2>2. Size \in Nat /\ cap \in Nat
    BY <1>0 DEF Size, RunsOK
  <2>3. Begun(what, key) \in Runs
    BY <2>1, <2>2 DEF Begun, Runs
  <2>4. runs' = Append(runs, Begun(what, key)) /\ UNCHANGED <<stk, cap, bottom, saved, reg>>
    BY <2>1 DEF Run
  <2>5. runs' \in Seq(Runs) /\ Len(runs') = Len(runs) + 1
    BY <1>0, <2>3, <2>4, AppendProperties
  <2>6. Len(runs) = Len(saved)
    BY <2>1, TurnOf DEF Run
  <2>7. Keeps(stk') /\ RunsOK'
    BY <1>0, <2>4, <2>5 DEF Keeps, RunsOK
  <2> QED BY <1>0, <2>4, <2>5, <2>6, <2>7, SameCallers
<1>3. CASE LoadFails
  <2>1. RunsOK' /\ UNCHANGED <<bottom, saved, runs>> /\ Keeps(stk')
    BY <1>0, <1>3, LoadFailsKeeps DEF RunsOK
  <2> QED BY <1>0, <2>1, SameCallers
<1>4. CASE Return \/ ScriptFails
  <2>1. /\ InScript /\ UNCHANGED <<bottom, saved>> /\ runs # << >> /\ runs' = Front(runs)
        /\ Keeps(stk') /\ cap' \in Nat /\ reg' \in [Keys -> Things \cup {None}]
    BY <1>4, RunEnds
  <2>2. runs' \in Seq(Runs) /\ Len(runs') = Len(runs) - 1
    BY <1>0, <2>1, FrontOf
  <2>3. Len(runs) = Len(saved) + 1
    BY <2>1, TurnOf
  <2>4. RunsOK'
    BY <2>1, <2>2 DEF RunsOK
  <2> QED BY <1>0, <2>1, <2>2, <2>3, <2>4, SameCallers
<1>5. CASE CFails
  <2>1. /\ InC /\ UNCHANGED bottom /\ saved # << >> /\ saved' = Front(saved)
        /\ runs # << >> /\ runs' = Front(runs)
        /\ Keeps(stk') /\ cap' \in Nat /\ reg' \in [Keys -> Things \cup {None}]
    BY <1>5, FailureKeeps
  <2>2. runs' \in Seq(Runs) /\ Len(runs') = Len(runs) - 1
    BY <1>0, <2>1, FrontOf
  <2>3. /\ saved' \in Seq([bottom : Nat, top : Nat]) /\ Len(saved') = Len(saved) - 1
        /\ \A i \in 1 .. Len(saved) - 1 : saved'[i] = saved[i]
    BY <1>0, <2>1, FrontOf
  <2>4. Len(runs) = Len(saved)
    BY <2>1, TurnOf
  <2>5. DOMAIN saved' = 1 .. Len(saved) - 1 /\ Len(stk') \in Nat
    BY <2>1, <2>3, LenProperties DEF Keeps
  <2>6. RunsOK'
    BY <2>1, <2>2 DEF RunsOK
  <2>7. \A i \in DOMAIN saved' :
          /\ saved'[i].bottom <= saved'[i].top /\ saved'[i].top <= bottom'
          /\ \A j \in DOMAIN saved' : i < j => saved'[i].top <= saved'[j].bottom
    <3> TAKE i \in DOMAIN saved'
    <3>0. \A j \in 1 .. Len(saved) - 1 : j \in 1 .. Len(saved)
      BY SavedOrder
    <3>1. i \in 1 .. Len(saved) /\ saved'[i] = saved[i]
      BY <2>3, <2>5, <3>0, Zenon
    <3>2. \A j \in DOMAIN saved' : j \in 1 .. Len(saved) /\ saved'[j] = saved[j]
      BY <2>3, <2>5, <3>0, Zenon
    <3> QED BY <2>1, <3>1, <3>2, SavedOrder
  <2>8. bottom' \in 0 .. Len(stk')
    BY <1>0, <2>1, <2>5 DEF Keeps
  <2>9. Len(runs') \in {Len(saved'), Len(saved') + 1}
    BY <2>2, <2>3, <2>4
  <2> QED BY <2>1, <2>3, <2>6, <2>7, <2>8, <2>9 DEF StackInv, WindowsNest, Keeps
<1>6. CASE EnterC
  <2>1. /\ InScript /\ UNCHANGED <<runs, reg>>
        /\ stk' \in Seq(Things) /\ Len(stk) <= Len(stk') /\ bottom' = Len(stk)
        /\ saved' = Append(saved, [bottom |-> bottom, top |-> Len(stk)])
        /\ cap' \in Nat
    BY <1>6, EntryKeeps
  <2>2. /\ saved' \in Seq([bottom : Nat, top : Nat]) /\ Len(saved') = Len(saved) + 1
        /\ \A i \in 1 .. Len(saved) : saved'[i] = saved[i]
        /\ saved'[Len(saved) + 1] = [bottom |-> bottom, top |-> Len(stk)]
    BY <1>0, <2>1, AppendProperties
  <2>3. DOMAIN saved' = 1 .. Len(saved) + 1 /\ Len(stk') \in Nat
    BY <2>1, <2>2, LenProperties
  <2>4. RunsOK'
    BY <1>0, <2>1 DEF RunsOK
  <2>5. Len(runs) = Len(saved) + 1
    BY <2>1, TurnOf
  <2>6. \A i \in DOMAIN saved' :
          /\ saved'[i].bottom <= saved'[i].top /\ saved'[i].top <= bottom'
          /\ \A j \in DOMAIN saved' : i < j => saved'[i].top <= saved'[j].bottom
    <3>1. \A i \in 1 .. Len(saved) : saved'[i].top <= bottom /\ saved'[i].bottom <= saved'[i].top
                                    /\ saved'[i].top \in Nat
      BY <2>2, SavedOrder
    <3>2. \A i, j \in 1 .. Len(saved) : i < j => saved'[i].top <= saved'[j].bottom
      BY <2>2, SavedOrder
    <3>3. saved'[Len(saved) + 1].bottom = bottom /\ saved'[Len(saved) + 1].top = Len(stk)
      BY <2>2
    <3>4. bottom <= Len(stk) /\ bottom' = Len(stk) /\ bottom \in Nat /\ Len(stk) \in Nat
      BY <1>0, <2>1
    <3>5. Len(saved) \in Nat
      BY <1>0
    <3>6. \A i \in 1 .. Len(saved) + 1 : i \in 1 .. Len(saved) \/ i = Len(saved) + 1
      BY <3>5
    <3>7. \A i \in 1 .. Len(saved) + 1 :
            saved'[i].bottom <= saved'[i].top /\ saved'[i].top <= bottom'
      BY <3>1, <3>3, <3>4, <3>6
    <3>8. \A i, j \in 1 .. Len(saved) + 1 : i < j => saved'[i].top <= saved'[j].bottom
      <4> TAKE i, j \in 1 .. Len(saved) + 1
      <4> HAVE i < j
      <4>1. i \in 1 .. Len(saved)
        BY <3>5
      <4> QED BY <3>1, <3>2, <3>3, <3>6, <4>1
    <3> QED BY <2>3, <3>7, <3>8, Zenon
  <2>7. WindowsNest'
    BY <1>0, <2>1, <2>2, <2>3, <2>5, <2>6 DEF WindowsNest
  <2> QED BY <2>4, <2>7 DEF StackInv
<1>7. CASE LeaveC
  <2>1. /\ InC /\ saved # << >> /\ saved' = Front(saved)
        /\ bottom' = Last(saved).bottom
        /\ stk' \in Seq(Things) /\ Len(stk') = Last(saved).top
        /\ UNCHANGED <<cap, runs, reg>>
    BY <1>7, ExitKeeps
  <2>2. /\ saved' \in Seq([bottom : Nat, top : Nat]) /\ Len(saved') = Len(saved) - 1
        /\ \A i \in 1 .. Len(saved) - 1 : saved'[i] = saved[i]
    BY <1>0, <2>1, FrontOf
  <2>3. DOMAIN saved' = 1 .. Len(saved) - 1
    BY <2>2, LenProperties
  <2>4. RunsOK'
    BY <1>0, <2>1 DEF RunsOK
  <2>5. Len(runs) = Len(saved)
    BY <2>1, TurnOf
  <2>6. Len(saved) \in 1 .. Len(saved) /\ Last(saved) = saved[Len(saved)]
    BY <1>0, <2>1, FrontOf DEF Last
  <2>7. bottom' \in 0 .. Len(stk')
    BY <2>1, <2>6, SavedOrder
  <2>8. \A i \in DOMAIN saved' :
          /\ saved'[i].bottom <= saved'[i].top /\ saved'[i].top <= bottom'
          /\ \A j \in DOMAIN saved' : i < j => saved'[i].top <= saved'[j].bottom
    <3> TAKE i \in DOMAIN saved'
    <3>0. \A j \in 1 .. Len(saved) - 1 : j \in 1 .. Len(saved) /\ j < Len(saved)
      BY SavedOrder
    <3>1. i \in 1 .. Len(saved) /\ i < Len(saved) /\ saved'[i] = saved[i]
      BY <2>2, <2>3, <3>0, Zenon
    <3>2. \A j \in DOMAIN saved' : j \in 1 .. Len(saved) /\ saved'[j] = saved[j]
      BY <2>2, <2>3, <3>0, Zenon
    <3> QED BY <2>1, <2>6, <3>1, <3>2, SavedOrder
  <2>9. WindowsNest'
    BY <1>0, <2>1, <2>2, <2>5, <2>7, <2>8 DEF WindowsNest
  <2> QED BY <2>4, <2>9 DEF StackInv
<1>8. CASE UNCHANGED vars
  BY <1>8 DEF StackInv, WindowsNest, RunsOK, vars
<1> QED BY <1>1, <1>2, <1>3, <1>4, <1>5, <1>6, <1>7, <1>8 DEF Next, Works

(* The assertions of a2_setbottom and a2_settop hold: however scripts, C   *)
(* functions and errors follow on each other, every window lies behind the *)
(* window of its caller.                                                   *)
THEOREM WindowsNestHolds == Spec => []WindowsNest
<1>1. StackInv => WindowsNest
  BY DEF StackInv
<1> QED BY InvInit, InvStep, <1>1, PTL DEF Spec

-----------------------------------------------------------------------------
(* The refinement.                                                         *)

(* A part of a stack, and the same part of another one.                    *)
LEMMA Part ==
  ASSUME NEW s \in Seq(Things), NEW m \in Nat, NEW n \in Nat, m <= n, n <= Len(s)
  PROVE  /\ SubSeq(s, m + 1, n) \in Seq(Things)
         /\ Len(SubSeq(s, m + 1, n)) = n - m
         /\ \A i \in 1 .. n - m : SubSeq(s, m + 1, n)[i] = s[m + i]
<1>1. \A i \in m + 1 .. n : s[i] \in Things
  BY LenProperties
<1>2. /\ SubSeq(s, m + 1, n) \in Seq(Things)
      /\ Len(SubSeq(s, m + 1, n)) = IF m + 1 <= n THEN n - (m + 1) + 1 ELSE 0
      /\ \A i \in 1 .. n - (m + 1) + 1 : SubSeq(s, m + 1, n)[i] = s[m + 1 + i - 1]
  BY <1>1, SubSeqProperties
<1>3. /\ (IF m + 1 <= n THEN n - (m + 1) + 1 ELSE 0) = n - m
      /\ n - (m + 1) + 1 = n - m
      /\ \A i \in 1 .. n - m : m + 1 + i - 1 = m + i
  OBVIOUS
<1> QED BY <1>2, <1>3

LEMMA SamePart ==
  ASSUME NEW s \in Seq(Things), NEW t \in Seq(Things),
         NEW m \in Nat, NEW n \in Nat, m <= n, n <= Len(s), n <= Len(t),
         \A i \in 1 .. n : s[i] = t[i]
  PROVE  SubSeq(s, m + 1, n) = SubSeq(t, m + 1, n)
<1>1. \A i \in 1 .. n - m : s[m + i] = t[m + i]
  OBVIOUS
<1>2. /\ SubSeq(s, m + 1, n) \in Seq(Things)
      /\ Len(SubSeq(s, m + 1, n)) = n - m
      /\ \A i \in 1 .. n - m : SubSeq(s, m + 1, n)[i] = s[m + i]
  BY Part
<1>3. /\ SubSeq(t, m + 1, n) \in Seq(Things)
      /\ Len(SubSeq(t, m + 1, n)) = n - m
      /\ \A i \in 1 .. n - m : SubSeq(t, m + 1, n)[i] = t[m + i]
  BY Part
<1>4. \A i \in 1 .. n - m : SubSeq(s, m + 1, n)[i] = SubSeq(t, m + 1, n)[i]
  BY <1>1, <1>2, <1>3, Zenon
<1> QED BY <1>2, <1>3, <1>4, SeqEqual, Zenon

(* The windows are a sequence of stacks.                                   *)
WindowsOK ==
  /\ Windows \in Seq(Seq(Things)) /\ Len(Windows) = Len(saved) + 1
  /\ Len(saved) \in Nat
  /\ \A i \in 1 .. Len(saved) :
       Windows[i] = SubSeq(stk, saved[i].bottom + 1, saved[i].top)
  /\ Windows[Len(saved) + 1] = SubSeq(stk, bottom + 1, Len(stk))
  /\ Len(stk) - bottom \in Nat
  /\ Len(Windows[Len(saved) + 1]) = Len(stk) - bottom
  /\ \A i \in 1 .. Len(stk) - bottom : Windows[Len(saved) + 1][i] = stk[bottom + i]

LEMMA WindowsAre == StackInv => WindowsOK
<1> SUFFICES ASSUME StackInv PROVE WindowsOK
  OBVIOUS
<1>1. /\ stk \in Seq(Things) /\ Len(stk) \in Nat /\ bottom <= Len(stk) /\ bottom \in Nat
      /\ Len(saved) \in Nat
  BY SavedOrder DEF StackInv, WindowsNest
<1>2. \A i \in 1 .. Len(saved) : SubSeq(stk, saved[i].bottom + 1, saved[i].top) \in Seq(Things)
  <2> TAKE i \in 1 .. Len(saved)
  <2>1. /\ saved[i].bottom \in Nat /\ saved[i].top \in Nat
        /\ saved[i].bottom <= saved[i].top /\ saved[i].top <= Len(stk)
    BY <1>1, SavedOrder
  <2> QED BY <1>1, <2>1, Part
<1>3. SubSeq(stk, bottom + 1, Len(stk)) \in Seq(Things)
  BY <1>1, Part
<1>4. \A i \in 1 .. Len(saved) + 1 : i <= Len(saved) => i \in 1 .. Len(saved)
  BY <1>1
<1>5. \A i \in 1 .. Len(saved) + 1 :
        (IF i <= Len(saved) THEN SubSeq(stk, saved[i].bottom + 1, saved[i].top)
         ELSE SubSeq(stk, bottom + 1, Len(stk))) \in Seq(Things)
  BY <1>2, <1>3, <1>4
<1>6. Windows \in Seq(Seq(Things)) /\ Len(Windows) = Len(saved) + 1
  BY <1>1, <1>5 DEF Windows
<1>7. /\ \A i \in 1 .. Len(saved) : i \in 1 .. Len(saved) + 1 /\ i <= Len(saved)
      /\ Len(saved) + 1 \in 1 .. Len(saved) + 1 /\ ~(Len(saved) + 1 <= Len(saved))
  BY <1>1
<1>8. /\ Len(SubSeq(stk, bottom + 1, Len(stk))) = Len(stk) - bottom
      /\ \A i \in 1 .. Len(stk) - bottom : SubSeq(stk, bottom + 1, Len(stk))[i] = stk[bottom + i]
      /\ Len(stk) - bottom \in Nat
  BY <1>1, Part
<1>9. /\ \A i \in 1 .. Len(saved) :
           Windows[i] = SubSeq(stk, saved[i].bottom + 1, saved[i].top)
      /\ Windows[Len(saved) + 1] = SubSeq(stk, bottom + 1, Len(stk))
  BY <1>1, <1>7 DEF Windows
<1> QED BY <1>1, <1>6, <1>8, <1>9 DEF WindowsOK

LEMMA WindowsAreNext == StackInv' => WindowsOK'
BY WindowsAre, PTL

(* The windows of those who wait are as they were.                         *)
LEMMA CallersKept ==
  ASSUME StackInv, NEW n \in Nat, n <= Len(saved),
         stk' \in Seq(Things),
         \A i \in 1 .. n : saved'[i] = saved[i],
         \A i \in 1 .. n : saved[i].top <= Len(stk'),
         \A i \in 1 .. n : \A j \in 1 .. saved[i].top : stk'[j] = stk[j]
  PROVE  \A i \in 1 .. n :
           SubSeq(stk', saved'[i].bottom + 1, saved'[i].top)
             = SubSeq(stk, saved[i].bottom + 1, saved[i].top)
<1> TAKE i \in 1 .. n
<1>1. stk \in Seq(Things) /\ Len(stk) \in Nat /\ bottom <= Len(stk) /\ i \in 1 .. Len(saved)
  BY SavedOrder DEF StackInv, WindowsNest
<1>2. /\ saved[i].bottom \in Nat /\ saved[i].top \in Nat
      /\ saved[i].bottom <= saved[i].top /\ saved[i].top <= Len(stk)
  BY <1>1, SavedOrder
<1>3. saved'[i] = saved[i] /\ saved[i].top <= Len(stk')
      /\ \A j \in 1 .. saved[i].top : stk'[j] = stk[j]
  OBVIOUS
<1>4. SubSeq(stk', saved[i].bottom + 1, saved[i].top)
        = SubSeq(stk, saved[i].bottom + 1, saved[i].top)
  BY <1>1, <1>2, <1>3, SamePart
<1> QED BY <1>3, <1>4

(* The actions of A2Stacks, as the windows show them.                      *)
LEMMA StepIs ==
  ASSUME StackInv, StackInv', NEW m \in Nat, m <= Len(saved),
         stk' \in Seq(Things),
         \A i \in 1 .. m : saved'[i] = saved[i],
         m <= Len(saved'),
         \A i \in 1 .. m : saved[i].top <= Len(stk'),
         \A i \in 1 .. m : \A j \in 1 .. saved[i].top : stk'[j] = stk[j]
  PROVE  \A i \in 1 .. m : Windows'[i] = Windows[i]
<1>1. /\ Len(saved) \in Nat
      /\ \A i \in 1 .. Len(saved) :
           Windows[i] = SubSeq(stk, saved[i].bottom + 1, saved[i].top)
  BY WindowsAre DEF WindowsOK
<1>2. /\ Len(saved') \in Nat
      /\ \A i \in 1 .. Len(saved') :
           Windows'[i] = SubSeq(stk', saved'[i].bottom + 1, saved'[i].top)
  BY WindowsAreNext DEF WindowsOK
<1>3. \A i \in 1 .. m : i \in 1 .. Len(saved) /\ i \in 1 .. Len(saved')
  BY <1>1, <1>2
<1>4. \A i \in 1 .. m :
        SubSeq(stk', saved'[i].bottom + 1, saved'[i].top)
          = SubSeq(stk, saved[i].bottom + 1, saved[i].top)
  BY CallersKept
<1> QED BY <1>1, <1>2, <1>3, <1>4, Zenon

(* While the same C code is in control, no other window changes.           *)
LEMMA SameDepth ==
  ASSUME StackInv, StackInv', UNCHANGED <<bottom, saved>>, Keeps(stk')
  PROVE  Stacks!Untouched(Len(Windows) - 1, Len(Windows))
<1>1. /\ Windows' \in Seq(Seq(Things)) /\ Len(Windows') = Len(saved) + 1
      /\ Len(Windows) = Len(saved) + 1 /\ Len(saved) \in Nat
  BY WindowsAre, WindowsAreNext DEF WindowsOK
<1>2. \A i \in 1 .. Len(saved) :
        saved[i].top <= Len(stk') /\ \A j \in 1 .. saved[i].top : stk'[j] = stk[j]
  <2> TAKE i \in 1 .. Len(saved)
  <2>1. saved[i].top \in Nat /\ saved[i].top <= bottom /\ bottom \in Nat
    BY SavedOrder
  <2>2. Len(stk') \in Nat
    BY LenProperties DEF Keeps
  <2> QED BY <2>1, <2>2 DEF Keeps
<1>3. \A i \in 1 .. Len(saved) : Windows'[i] = Windows[i]
  <2>1. stk' \in Seq(Things) /\ Len(saved) <= Len(saved)
    BY <1>1 DEF Keeps
  <2> QED BY <1>1, <1>2, <2>1, StepIs
<1>4. Len(Windows) - 1 = Len(saved)
  BY <1>1
<1> QED BY <1>1, <1>3, <1>4 DEF Stacks!Untouched

LEMMA WorkIsWork ==
  ASSUME StackInv, StackInv', Works \/ LoadFails
  PROVE  Stacks!Work
<1>1. InC /\ UNCHANGED <<bottom, saved, runs>> /\ handed' = << >> /\ Keeps(stk')
  BY WorkKeeps, LoadFailsKeeps DEF Unmoved
<1>2. ~InScript /\ ~InScript'
  BY <1>1 DEF InC, InScript
<1> QED BY <1>1, <1>2, SameDepth DEF Stacks!Work

LEMMA RunIsStart ==
  ASSUME StackInv, StackInv', Load \/ PCall \/ RequireNew
  PROVE  Stacks!Start
<1>1. PICK what, key : Run(what, key)
  BY DEF Load, PCall, RequireNew
<1>2. /\ InC /\ handed' = << >> /\ UNCHANGED <<stk, bottom, saved>>
      /\ runs' = Append(runs, Begun(what, key))
  BY <1>1 DEF Run
<1>3. Len(runs') \in {Len(saved'), Len(saved') + 1}
  BY DEF StackInv, WindowsNest
<1>4. runs' # runs
  BY <1>2 DEF StackInv, RunsOK
<1>5. ~InScript /\ InScript'
  BY <1>2, TurnOf DEF InC, InScript
<1>6. UNCHANGED Windows
  BY <1>2 DEF Windows
<1> QED BY <1>2, <1>5, <1>6 DEF Stacks!Start

LEMMA EndIsDeliver ==
  ASSUME StackInv, StackInv', Return \/ ScriptFails
  PROVE  Stacks!Deliver
<1>1. /\ InScript /\ handed' = << >> /\ UNCHANGED <<bottom, saved>>
      /\ runs # << >> /\ runs' = Front(runs)
      /\ Keeps(stk') /\ Len(stk) <= Len(stk')
      /\ \A i \in 1 .. Len(stk) : stk'[i] = stk[i]
  BY RunEnds
<1>2. ~InScript'
  <2>1. Len(runs) = Len(saved) + 1 /\ Len(saved) \in Nat
    BY <1>1, TurnOf
  <2>2. Len(runs') = Len(runs) - 1
    BY <1>1, FrontOf DEF StackInv, RunsOK
  <2> QED BY <1>1, <2>1, <2>2 DEF InScript
<1>3. Stacks!Untouched(Len(Windows) - 1, Len(Windows))
  BY <1>1, SameDepth
<1>4. /\ Len(Windows) = Len(saved) + 1 /\ Len(Windows') = Len(saved) + 1
      /\ Len(Windows[Len(saved) + 1]) = Len(stk) - bottom
      /\ Len(Windows'[Len(saved) + 1]) = Len(stk') - bottom
      /\ \A i \in 1 .. Len(stk) - bottom : Windows[Len(saved) + 1][i] = stk[bottom + i]
      /\ \A i \in 1 .. Len(stk') - bottom : Windows'[Len(saved) + 1][i] = stk'[bottom + i]
  BY <1>1, WindowsAre, WindowsAreNext DEF WindowsOK
<1>5. bottom \in Nat /\ Len(stk) \in Nat /\ bottom <= Len(stk) /\ Len(stk') \in Nat
  BY DEF StackInv, WindowsNest
<1>6. \A i \in 1 .. Len(stk) - bottom :
        i \in 1 .. Len(stk') - bottom /\ stk'[bottom + i] = stk[bottom + i]
  BY <1>1, <1>5
<1>7. /\ Len(Windows[Len(saved) + 1]) <= Len(Windows'[Len(saved) + 1])
      /\ \A i \in 1 .. Len(Windows[Len(saved) + 1]) :
           Windows'[Len(saved) + 1][i] = Windows[Len(saved) + 1][i]
  BY <1>1, <1>4, <1>5, <1>6
<1> QED BY <1>1, <1>2, <1>3, <1>4, <1>7 DEF Stacks!Deliver, Stacks!Top

LEMMA EntryIsEnter ==
  ASSUME StackInv, StackInv', EnterC
  PROVE  Stacks!Enter
<1>1. /\ InScript /\ handed' = << >> /\ UNCHANGED runs
      /\ stk' \in Seq(Things) /\ Len(stk) <= Len(stk')
      /\ \A i \in 1 .. Len(stk) : stk'[i] = stk[i]
      /\ saved' = Append(saved, [bottom |-> bottom, top |-> Len(stk)])
  BY EntryKeeps
<1>2. /\ stk \in Seq(Things) /\ Len(stk) \in Nat /\ bottom \in Nat /\ bottom <= Len(stk)
      /\ saved \in Seq([bottom : Nat, top : Nat]) /\ Len(saved) \in Nat /\ Len(stk') \in Nat
  BY SavedOrder DEF StackInv, WindowsNest
<1>3. /\ Len(saved') = Len(saved) + 1
      /\ \A i \in 1 .. Len(saved) : saved'[i] = saved[i]
      /\ saved'[Len(saved) + 1] = [bottom |-> bottom, top |-> Len(stk)]
  BY <1>1, <1>2, AppendProperties
<1>4. ~InScript'
  BY <1>1, <1>3, TurnOf DEF InScript
<1>5. /\ Windows' \in Seq(Seq(Things)) /\ Len(Windows') = Len(saved) + 2
      /\ Len(Windows) = Len(saved) + 1
      /\ Windows[Len(saved) + 1] = SubSeq(stk, bottom + 1, Len(stk))
      /\ Windows'[Len(saved) + 1]
           = SubSeq(stk', saved'[Len(saved) + 1].bottom + 1, saved'[Len(saved) + 1].top)
  <2>1. Len(saved') + 1 = Len(saved) + 2 /\ Len(saved) + 1 \in 1 .. Len(saved')
    BY <1>2, <1>3
  <2>2. /\ Windows \in Seq(Seq(Things)) /\ Len(Windows) = Len(saved) + 1
        /\ Windows[Len(saved) + 1] = SubSeq(stk, bottom + 1, Len(stk))
    BY WindowsAre DEF WindowsOK
  <2>3. /\ Windows' \in Seq(Seq(Things)) /\ Len(Windows') = Len(saved') + 1
        /\ \A i \in 1 .. Len(saved') :
             Windows'[i] = SubSeq(stk', saved'[i].bottom + 1, saved'[i].top)
    BY WindowsAreNext DEF WindowsOK
  <2> QED BY <2>1, <2>2, <2>3, Zenon
<1>6. Windows'[Len(saved) + 1] = Windows[Len(saved) + 1]
  <2>1. SubSeq(stk', bottom + 1, Len(stk)) = SubSeq(stk, bottom + 1, Len(stk))
    BY <1>1, <1>2, SamePart
  <2>2. saved'[Len(saved) + 1].bottom = bottom /\ saved'[Len(saved) + 1].top = Len(stk)
    BY <1>3
  <2> QED BY <1>5, <2>1, <2>2, Zenon
<1>7. \A i \in 1 .. Len(saved) : Windows'[i] = Windows[i]
  <2>1. \A i \in 1 .. Len(saved) :
          saved[i].top <= Len(stk') /\ \A j \in 1 .. saved[i].top : stk'[j] = stk[j]
    <3> TAKE i \in 1 .. Len(saved)
    <3>1. saved[i].top \in Nat /\ saved[i].top <= bottom
      BY SavedOrder
    <3> QED BY <1>1, <1>2, <3>1
  <2>2. Len(saved) <= Len(saved') /\ Len(saved) <= Len(saved)
    BY <1>2, <1>3
  <2> QED BY <1>1, <1>2, <1>3, <2>1, <2>2, StepIs
<1>8. \A i \in 1 .. Len(Windows) : Windows'[i] = Windows[i]
  <2>1. \A i \in 1 .. Len(saved) + 1 : i \in 1 .. Len(saved) \/ i = Len(saved) + 1
    BY <1>2
  <2> QED BY <1>5, <1>6, <1>7, <2>1, Zenon
<1>9. Len(saved) + 2 = Len(Windows) + 1
  BY <1>2, <1>5
<1> QED BY <1>1, <1>4, <1>5, <1>8, <1>9 DEF Stacks!Enter, Stacks!Untouched

LEMMA ExitIsLeave ==
  ASSUME StackInv, StackInv', LeaveC
  PROVE  Stacks!Leave
<1>1. /\ InC /\ saved # << >> /\ saved' = Front(saved) /\ UNCHANGED runs
      /\ bottom' = Last(saved).bottom
      /\ stk' \in Seq(Things) /\ Len(stk') = Last(saved).top
      /\ \A i \in 1 .. Len(stk') : stk'[i] = stk[i]
  BY ExitKeeps
<1>2. /\ stk \in Seq(Things) /\ Len(stk) \in Nat /\ bottom \in Nat /\ bottom <= Len(stk)
      /\ saved \in Seq([bottom : Nat, top : Nat])
  BY SavedOrder DEF StackInv, WindowsNest
<1>3. /\ Len(saved) \in Nat /\ Len(saved) >= 1 /\ Len(saved') = Len(saved) - 1
      /\ \A i \in 1 .. Len(saved) - 1 : saved'[i] = saved[i]
      /\ Last(saved) = saved[Len(saved)] /\ Len(saved) \in 1 .. Len(saved)
  <2>1. /\ Len(saved) \in Nat /\ Len(saved) >= 1 /\ Len(saved') = Len(saved) - 1
        /\ \A i \in 1 .. Len(saved) - 1 : saved'[i] = saved[i]
    BY <1>1, <1>2, FrontOf
  <2>2. Len(saved) \in 1 .. Len(saved)
    BY <2>1
  <2>3. Last(saved) = saved[Len(saved)]
    BY DEF Last
  <2> QED BY <2>1, <2>2, <2>3
<1>4. ~InScript /\ InScript'
  BY <1>1, <1>3, TurnOf DEF InC, InScript
<1>5. /\ Windows' \in Seq(Seq(Things)) /\ Len(Windows') = Len(saved)
      /\ Len(Windows) = Len(saved) + 1
      /\ Windows[Len(saved)] = SubSeq(stk, saved[Len(saved)].bottom + 1, saved[Len(saved)].top)
      /\ Windows'[Len(saved)] = SubSeq(stk', bottom' + 1, Len(stk'))
  <2>1. Len(saved') + 1 = Len(saved)
    BY <1>3
  <2> QED BY <1>3, <2>1, WindowsAre, WindowsAreNext DEF WindowsOK
<1>6. Windows'[Len(saved)] = Windows[Len(saved)]
  <2>1. /\ saved[Len(saved)].bottom \in Nat /\ saved[Len(saved)].top \in Nat
        /\ saved[Len(saved)].bottom <= saved[Len(saved)].top
        /\ saved[Len(saved)].top <= Len(stk)
    BY <1>2, <1>3, SavedOrder
  <2>2. bottom' = saved[Len(saved)].bottom /\ Len(stk') = saved[Len(saved)].top
    BY <1>1, <1>3, Zenon
  <2>3. bottom' \in Nat /\ Len(stk') \in Nat /\ bottom' <= Len(stk') /\ Len(stk') <= Len(stk)
    BY <2>1, <2>2
  <2>4. stk' \in Seq(Things) /\ stk \in Seq(Things) /\ Len(stk') <= Len(stk')
        /\ \A i \in 1 .. Len(stk') : stk'[i] = stk[i]
    BY <1>1, <1>2, <2>3
  <2>5. SubSeq(stk', bottom' + 1, Len(stk')) = SubSeq(stk, bottom' + 1, Len(stk'))
    BY <2>3, <2>4, SamePart, Zenon
  <2> QED BY <1>5, <2>2, <2>5, Zenon
<1>7. \A i \in 1 .. Len(saved) - 1 : Windows'[i] = Windows[i]
  <2>1. Len(saved) - 1 \in Nat /\ Len(saved) - 1 <= Len(saved) /\ Len(saved) - 1 <= Len(saved')
    BY <1>3
  <2>2. \A i \in 1 .. Len(saved) - 1 :
          saved[i].top <= Len(stk') /\ \A j \in 1 .. saved[i].top : stk'[j] = stk[j]
    <3> TAKE i \in 1 .. Len(saved) - 1
    <3>1. i \in 1 .. Len(saved) /\ i < Len(saved)
      BY <1>3
    <3>2. /\ saved[i].top \in Nat /\ saved[i].top <= saved[Len(saved)].bottom
          /\ saved[Len(saved)].bottom <= saved[Len(saved)].top
          /\ saved[Len(saved)].bottom \in Nat /\ saved[Len(saved)].top \in Nat
      BY <1>3, <3>1, SavedOrder
    <3>3. saved[i].top <= Len(stk')
      BY <1>1, <1>3, <3>2
    <3>4. Len(stk') \in Nat
      BY <1>1, LenProperties
    <3> QED BY <1>1, <3>2, <3>3, <3>4
  <2> QED BY <1>1, <1>3, <2>1, <2>2, StepIs
<1>8. \A i \in 1 .. Len(Windows) - 1 : Windows'[i] = Windows[i]
  <2>1. Len(Windows) - 1 = Len(saved)
    BY <1>3, <1>5
  <2>2. \A i \in 1 .. Len(saved) : i \in 1 .. Len(saved) - 1 \/ i = Len(saved)
    BY <1>3
  <2> QED BY <1>6, <1>7, <2>1, <2>2, Zenon
<1>9. Len(Windows) > 1 /\ Len(Windows) - 1 = Len(saved)
  BY <1>3, <1>5
<1>10. \E ret \in 0 .. Len(Stacks!Top(Windows)) :
         handed' = [i \in 1 .. Len(handed') |->
                      IF i <= ret
                      THEN Stacks!Top(Windows)[Len(Stacks!Top(Windows)) - ret + i] ELSE Nil]
  <2>1. PICK ret \in 0 .. Size, want \in 0 .. MaxWant :
          handed' = [i \in 1 .. want |->
                       IF i <= ret THEN At(stk, Size - ret + i - 1) ELSE Nil]
    BY DEF LeaveC
  <2>2. /\ Len(Stacks!Top(Windows)) = Size /\ Size \in Nat
        /\ \A i \in 1 .. Size : Stacks!Top(Windows)[i] = stk[bottom + i]
    BY <1>5, WindowsAre DEF WindowsOK, Stacks!Top, Size
  <2>3. want \in Nat
    BY <2>1, SizesAssumption
  <2>4. \A i \in 1 .. want : i <= ret =>
          At(stk, Size - ret + i - 1) = Stacks!Top(Windows)[Size - ret + i]
    <3> TAKE i \in 1 .. want
    <3> HAVE i <= ret
    <3>1. Size - ret + i \in 1 .. Size /\ bottom + (Size - ret + i - 1) + 1 = bottom + (Size - ret + i)
      BY <1>2, <2>1, <2>2, <2>3
    <3> QED BY <2>2, <3>1 DEF At
  <2>5. handed' = [i \in 1 .. want |->
                     IF i <= ret THEN Stacks!Top(Windows)[Size - ret + i] ELSE Nil]
    BY <2>1, <2>4, Zenon
  <2>6. Len(handed') = want
    BY <2>3, <2>5
  <2> QED BY <2>1, <2>2, <2>5, <2>6
<1> QED BY <1>4, <1>5, <1>8, <1>9, <1>10 DEF Stacks!Leave, Stacks!Untouched

LEMMA FailureIsCatch ==
  ASSUME StackInv, StackInv', CFails, "c_error" \notin Perils
  PROVE  Stacks!Catch
<1>1. /\ InC /\ handed' = << >> /\ UNCHANGED bottom
      /\ saved # << >> /\ saved' = Front(saved)
      /\ runs # << >> /\ runs' = Front(runs)
      /\ Keeps(stk') /\ stk' = Append(stk, Msg)
  BY FailureKeeps
<1>2. /\ stk \in Seq(Things) /\ Len(stk) \in Nat /\ bottom \in Nat /\ bottom <= Len(stk)
      /\ saved \in Seq([bottom : Nat, top : Nat]) /\ runs \in Seq(Runs)
  BY SavedOrder DEF StackInv, WindowsNest, RunsOK
<1>3. /\ Len(saved) \in Nat /\ Len(saved) >= 1 /\ Len(saved') = Len(saved) - 1
      /\ \A i \in 1 .. Len(saved) - 1 : saved'[i] = saved[i]
      /\ Len(runs') = Len(runs) - 1
  BY <1>1, <1>2, FrontOf
<1>4. ~InScript /\ ~InScript'
  BY <1>1, <1>3, TurnOf DEF InC, InScript
<1>5. /\ Windows' \in Seq(Seq(Things)) /\ Len(Windows') = Len(saved)
      /\ Len(Windows) = Len(saved) + 1
      /\ Len(Windows'[Len(saved)]) = Len(stk') - bottom
      /\ \A i \in 1 .. Len(stk') - bottom : Windows'[Len(saved)][i] = stk'[bottom + i]
  <2>1. Len(saved') + 1 = Len(saved)
    BY <1>3
  <2> QED BY <1>1, <1>3, <2>1, WindowsAre, WindowsAreNext DEF WindowsOK
<1>6. Len(stk') = Len(stk) + 1 /\ stk'[Len(stk) + 1] = Msg
  BY <1>1, PushedOne DEF Things
<1>7. Len(Windows'[Len(saved)]) > 0 /\ Windows'[Len(saved)][Len(Windows'[Len(saved)])] = Msg
  <2>1. Len(stk') - bottom \in 1 .. Len(stk') - bottom /\ bottom + (Len(stk') - bottom) = Len(stk) + 1
    BY <1>2, <1>6
  <2> QED BY <1>5, <1>6, <2>1
<1>8. \A i \in 1 .. Len(saved) - 1 : Windows'[i] = Windows[i]
  <2>1. Len(saved) - 1 \in Nat /\ Len(saved) - 1 <= Len(saved) /\ Len(saved) - 1 <= Len(saved')
    BY <1>3
  <2>2. \A i \in 1 .. Len(saved) - 1 :
          saved[i].top <= Len(stk') /\ \A j \in 1 .. saved[i].top : stk'[j] = stk[j]
    <3> TAKE i \in 1 .. Len(saved) - 1
    <3>1. i \in 1 .. Len(saved)
      BY <1>3
    <3>2. saved[i].top \in Nat /\ saved[i].top <= bottom
      BY <3>1, SavedOrder
    <3>3. bottom \in Nat /\ bottom <= Len(stk') /\ Len(stk') \in Nat
      BY <1>2, <1>6
    <3>4. \A j \in 1 .. bottom : stk'[j] = stk[j]
      BY <1>1 DEF Keeps
    <3>5. 1 .. saved[i].top \subseteq 1 .. bottom /\ saved[i].top <= Len(stk')
      BY <3>2, <3>3
    <3> QED BY <3>4, <3>5
  <2> QED BY <1>1, <1>3, <2>1, <2>2, StepIs DEF Keeps
<1>9. Len(Windows) > 1 /\ Len(Windows) - 1 = Len(saved) /\ Len(Windows) - 2 = Len(saved) - 1
  BY <1>3, <1>5
<1> QED BY <1>1, <1>4, <1>5, <1>7, <1>8, <1>9 DEF Stacks!Catch, Stacks!Untouched, Stacks!Top

LEMMA InitIsInit == Init => Stacks!Init
<1> SUFFICES ASSUME Init PROVE Stacks!Init
  OBVIOUS
<1>1. Len(<< >>) = 0
  BY EmptySeq
<1>2. SubSeq(stk, bottom + 1, Len(stk)) = << >>
  BY <1>1, SubSeqEmpty DEF Init
<1>3. Windows = << << >> >>
  <2>1. Len(saved) = 0
    BY <1>1 DEF Init
  <2>2. Windows = [i \in 1 .. 1 |-> << >>]
    <3>1. Windows = [i \in 1 .. 1 |->
                       IF i <= 0 THEN SubSeq(stk, saved[i].bottom + 1, saved[i].top)
                       ELSE << >>]
      BY <1>2, <2>1 DEF Windows
    <3> QED BY <3>1
  <2>3. [i \in 1 .. 1 |-> << >>] = << << >> >>
    OBVIOUS
  <2> QED BY <2>2, <2>3, Zenon
<1>4. ~InScript
  BY <1>1 DEF Init, InScript
<1> QED BY <1>3, <1>4 DEF Init, Stacks!Init

LEMMA StepRefines ==
  ASSUME "c_error" \notin Perils
  PROVE  StackInv /\ StackInv' /\ [Next]_vars => [Stacks!Next]_(Stacks!vars)
<1> SUFFICES ASSUME StackInv, StackInv', [Next]_vars PROVE [Stacks!Next]_(Stacks!vars)
  OBVIOUS
<1>1. CASE Works \/ LoadFails
  BY <1>1, WorkIsWork DEF Stacks!Next
<1>2. CASE Load \/ PCall \/ RequireNew
  BY <1>2, RunIsStart DEF Stacks!Next
<1>3. CASE Return \/ ScriptFails
  BY <1>3, EndIsDeliver DEF Stacks!Next
<1>4. CASE EnterC
  BY <1>4, EntryIsEnter DEF Stacks!Next
<1>5. CASE LeaveC
  BY <1>5, ExitIsLeave DEF Stacks!Next
<1>6. CASE CFails
  BY <1>6, FailureIsCatch DEF Stacks!Next
<1>7. CASE UNCHANGED vars
  BY <1>7 DEF vars, Stacks!vars, Windows, InScript
<1> QED BY <1>1, <1>2, <1>3, <1>4, <1>5, <1>6, <1>7 DEF Next, Works

(* The one stack implements a stack of its own for everybody: errors,      *)
(* nested loads and the moved bottom reach no window but the one in        *)
(* control.  Excluded is a module whose load a C function's error ends.    *)
THEOREM RefinesStacksHolds ==
  ASSUME "c_error" \notin Perils
  PROVE  Spec => RefinesStacks
<1>1. StackInv /\ StackInv' /\ [Next]_vars => [Stacks!Next]_(Stacks!vars)
  BY StepRefines
<1> QED BY InvInit, InvStep, InitIsInit, <1>1, PTL DEF Spec, RefinesStacks, Stacks!Spec

-----------------------------------------------------------------------------
(* Without the perils, a2_require registers what the load of a module      *)
(* left, for any number of loads inside each other.                        *)

(* A module that is being loaded is not registered, nobody else loads it,  *)
(* and the memory of the stack has not moved since.                        *)
Waiting ==
  \A i \in 1 .. Len(runs) : runs[i].what = "require" =>
    /\ runs[i].cap = cap
    /\ runs[i].key \in Keys
    /\ reg[runs[i].key] = None
    /\ \A j \in 1 .. Len(runs) : runs[j].key = runs[i].key => j = i

(* A run was begun at the top of the window that waits for it.             *)
Tops ==
  /\ \A i \in 1 .. Len(saved) : runs[i].top = saved[i].top - saved[i].bottom
  /\ InScript => runs[Len(runs)].top = Size

(* With StackInv, the inductive invariant.                                 *)
RegInv == reg = left /\ Waiting /\ Tops

First(t) == IF t = << >> THEN Nil ELSE t[1]

Calm == Requiring => cap' = cap

LEMMA PutCalm ==
  ASSUME Perils = {}, NEW s, Put(s)
  PROVE  stk' = s /\ Calm
BY DEF Put, Grown, Calm

(* What runs are left are as they were.                                    *)
LEMMA StillWaiting ==
  ASSUME Waiting, Calm,
         Len(runs) \in Nat, runs \in Seq(Runs), Len(runs') \in Nat, Len(runs') <= Len(runs),
         \A i \in 1 .. Len(runs') : runs'[i] = runs[i],
         \A i \in 1 .. Len(runs') :
           runs[i].what = "require" => reg'[runs[i].key] = None
  PROVE  Waiting'
<1> SUFFICES ASSUME NEW i \in 1 .. Len(runs'), runs'[i].what = "require"
             PROVE  /\ runs'[i].cap = cap'
                    /\ runs'[i].key \in Keys
                    /\ reg'[runs'[i].key] = None
                    /\ \A j \in 1 .. Len(runs') : runs'[j].key = runs'[i].key => j = i
  BY DEF Waiting
<1>1. \A j \in 1 .. Len(runs') : j \in 1 .. Len(runs)
  OBVIOUS
<1>2. i \in 1 .. Len(runs) /\ runs'[i] = runs[i] /\ runs[i].what = "require"
  BY <1>1
<1>3. cap' = cap
  <2>1. DOMAIN runs = 1 .. Len(runs)
    BY LenProperties
  <2> QED BY <1>2, <2>1 DEF Calm, Requiring
<1>4. /\ runs[i].cap = cap /\ runs[i].key \in Keys
      /\ \A j \in 1 .. Len(runs) : runs[j].key = runs[i].key => j = i
  BY <1>2 DEF Waiting
<1> QED BY <1>1, <1>2, <1>3, <1>4

(* A run ends and leaves t: a2_require finds the first of it at its old    *)
(* top and still has its key.                                              *)
LEMMA RunOver ==
  ASSUME Perils = {}, StackInv, reg = left,
         NEW t \in Seq(Things), NEW r \in Runs,
         Ended(stk \o t, r), Leaves(r, First(t)),
         r.what = "require" =>
           r.key \in Keys /\ reg[r.key] = None /\ r.cap = cap /\ r.top = Size
  PROVE  /\ Calm /\ reg' = left'
         /\ r.what # "require" => reg' = reg
         /\ r.what = "require" => reg' = [reg EXCEPT ![r.key] = First(t)]
<1>1. CASE r.what # "require"
  BY <1>1, PutCalm DEF Ended, Leaves
<1>2. CASE r.what = "require"
  <2> DEFINE s == stk \o t
  <2>1. /\ stk \in Seq(Things) /\ Len(stk) \in Nat /\ bottom \in Nat /\ bottom <= Len(stk)
        /\ Len(t) \in Nat /\ cap \in Nat
    BY LenProperties DEF StackInv, WindowsNest, RunsOK
  <2>2. s \in Seq(Things) /\ Len(s) = Len(stk) + Len(t)
        /\ \A i \in 1 .. Len(t) : s[Len(stk) + i] = t[i]
    BY <2>1, ConcatProperties
  <2>3. r.top = Len(stk) - bottom /\ r.top \in Nat
    BY <1>2, <2>1 DEF Size
  <2>4. bottom + r.top + 1 = Len(stk) + 1
    BY <2>1, <2>3
  <2>5. Len(s) < cap /\ Put(Required(s, r.top))
    BY <1>2 DEF Ended
  <2>6. Required(s, r.top) = Append(s, First(t))
    <3>1. CASE t = << >>
      <4>1. ~(Len(s) - bottom > r.top)
        BY <2>1, <2>2, <2>3, <3>1, EmptySeq
      <4> QED BY <3>1, <4>1 DEF Required, First
    <3>2. CASE t # << >>
      <4>1. Len(t) >= 1
        BY <2>1, <3>2, EmptySeq
      <4>2. Len(s) - bottom > r.top
        BY <2>1, <2>2, <2>3, <4>1
      <4>3. 1 \in 1 .. Len(t) /\ s[Len(stk) + 1] = t[1]
        BY <2>1, <2>2, <4>1
      <4> QED BY <2>4, <3>2, <4>2, <4>3 DEF Required, First, At
    <3> QED BY <3>1, <3>2
  <2>7. First(t) \in Things
    <3>1. CASE t = << >>
      BY <3>1 DEF First, Things
    <3>2. CASE t # << >>
      <4>1. 1 \in 1 .. Len(t)
        BY <2>1, <3>2, EmptySeq
      <4> QED BY <3>2, <4>1, LenProperties DEF First
    <3> QED BY <3>1, <3>2
  <2>8. /\ stk' = Append(s, First(t)) /\ Len(stk') = Len(s) + 1
        /\ \A i \in 1 .. Len(s) : stk'[i] = s[i]
        /\ stk'[Len(s) + 1] = First(t)
    <3>1. stk' = Append(s, First(t))
      BY <2>5, <2>6 DEF Put
    <3>2. /\ Len(Append(s, First(t))) = Len(s) + 1
          /\ \A i \in 1 .. Len(s) : Append(s, First(t))[i] = s[i]
          /\ Append(s, First(t))[Len(s) + 1] = First(t)
      BY <2>2, <2>7, AppendProperties
    <3> QED BY <3>1, <3>2
  <2>9. cap' = cap
    BY <2>1, <2>2, <2>5, <2>6, <2>8 DEF Put, Grown
  <2>10. r.top < Len(stk') - bottom
    BY <2>1, <2>2, <2>3, <2>8
  <2>11. At(stk', r.top) = First(t)
    <3>1. stk'[Len(stk) + 1] = First(t)
      <4>1. CASE t = << >>
        BY <2>1, <2>2, <2>8, <4>1, EmptySeq
      <4>2. CASE t # << >>
        <5>1. Len(stk) + 1 \in 1 .. Len(s) /\ 1 \in 1 .. Len(t)
          BY <2>1, <2>2, <4>2, EmptySeq
        <5> QED BY <2>2, <2>8, <4>2, <5>1 DEF First
      <4> QED BY <4>1, <4>2
    <3> QED BY <2>4, <3>1 DEF At
  <2>12. \E k \in IF cap' = r.cap THEN {r.key} ELSE Keys,
            v \in IF r.top < Len(stk') - bottom THEN {At(stk', r.top)} ELSE Things :
           reg' = [reg EXCEPT ![k] = v]
    BY <1>2 DEF Ended
  <2>13. reg' = [reg EXCEPT ![r.key] = First(t)]
    BY <1>2, <2>9, <2>10, <2>11, <2>12
  <2>14. left' = [left EXCEPT ![r.key] = First(t)]
    BY <1>2 DEF Leaves
  <2> QED BY <1>2, <2>9, <2>13, <2>14 DEF Calm
<1> QED BY <1>1, <1>2

LEMMA RegInit == Init => RegInv
<1> SUFFICES ASSUME Init PROVE RegInv
  OBVIOUS
<1>1. Len(<< >>) = 0
  BY EmptySeq
<1> QED BY <1>1 DEF Init, RegInv, Waiting, Tops, InScript

(* C code at work goes nowhere near the registry.                          *)
LEMMA WorkRegisters ==
  ASSUME Perils = {}, StackInv, RegInv, Works
  PROVE  RegInv'
<1>1. InC /\ Unmoved
  BY WorkKeeps
<1>2. Calm
  <2>1. CASE Push
    BY <2>1, PutCalm DEF Push
  <2>2. CASE PushValue
    BY <2>2, PutCalm DEF PushValue
  <2>3. CASE RequireKnown
    BY <2>3, PutCalm DEF RequireKnown
  <2> QED BY <2>1, <2>2, <2>3
        DEF Works, SetValue, Pop, Store, Get, GetMap, Calm
<1>3. Len(runs) \in Nat /\ runs \in Seq(Runs)
  BY LenProperties DEF StackInv, RunsOK
<1>4. Waiting'
  <2>1. \A i \in 1 .. Len(runs) : runs[i].what = "require" => reg[runs[i].key] = None
    BY DEF RegInv, Waiting
  <2> QED BY <1>1, <1>2, <1>3, <2>1, StillWaiting DEF RegInv, Unmoved
<1> QED BY <1>1, <1>4 DEF RegInv, Tops, InC, InScript, Unmoved

LEMMA RunRegisters ==
  ASSUME Perils = {}, StackInv, RegInv, Load \/ PCall \/ RequireNew
  PROVE  RegInv'
<1>1. PICK what \in {"load", "pcall", "require"}, key \in Keys \cup {None} :
        /\ Run(what, key)
        /\ what = "require" => key \in Unknown
        /\ what # "require" => key = None
  BY DEF Load, PCall, RequireNew, Unknown, Named
<1> DEFINE r == Begun(what, key)
           n == Len(runs)
<1>2. /\ InC /\ runs' = Append(runs, r)
      /\ UNCHANGED <<stk, cap, bottom, saved, reg>>
      /\ reg' = left'
  BY <1>1 DEF Run, RegInv
<1>3. /\ n \in Nat /\ runs \in Seq(Runs) /\ n = Len(saved)
      /\ DOMAIN runs = 1 .. n /\ Size \in Nat /\ cap \in Nat
  BY <1>2, TurnOf, LenProperties DEF StackInv, WindowsNest, RunsOK, Size
<1>4. r \in Runs /\ r.what = what /\ r.key = key /\ r.top = Size
  BY <1>3 DEF Begun, Runs
<1>5. /\ Len(runs') = n + 1 /\ runs'[n + 1] = r
      /\ \A i \in 1 .. n : runs'[i] = runs[i]
  BY <1>2, <1>3, <1>4, AppendProperties
<1>6. \A i \in 1 .. n + 1 : i \in 1 .. n \/ i = n + 1
  BY <1>3
<1>7. what = "require" => /\ r.cap = cap /\ key \in Keys /\ reg[key] = None
                          /\ \A i \in 1 .. n : runs[i].key # key
  BY <1>1, <1>3 DEF Unknown, Named, Begun
<1>8. \A i \in 1 .. n : runs[i].what = "require" =>
        /\ runs[i].cap = cap /\ runs[i].key \in Keys /\ reg[runs[i].key] = None
        /\ \A j \in 1 .. n : runs[j].key = runs[i].key => j = i
        /\ key # runs[i].key
  <2> TAKE i \in 1 .. n
  <2> HAVE runs[i].what = "require"
  <2>1. /\ runs[i].cap = cap /\ runs[i].key \in Keys /\ reg[runs[i].key] = None
        /\ \A j \in 1 .. n : runs[j].key = runs[i].key => j = i
    BY DEF RegInv, Waiting
  <2>2. key # runs[i].key
    BY <1>1, <1>7, <2>1, ThingsAssumption DEF Things
  <2> QED BY <2>1, <2>2
<1>9. Waiting'
  <2> SUFFICES ASSUME NEW i \in 1 .. n + 1, runs'[i].what = "require"
               PROVE  /\ runs'[i].cap = cap
                      /\ runs'[i].key \in Keys
                      /\ reg[runs'[i].key] = None
                      /\ \A j \in 1 .. n + 1 : runs'[j].key = runs'[i].key => j = i
    BY <1>2, <1>5 DEF Waiting
  <2>1. CASE i = n + 1
    BY <1>3, <1>4, <1>5, <1>6, <1>7, <2>1
  <2>2. CASE i \in 1 .. n
    BY <1>3, <1>4, <1>5, <1>6, <1>8, <2>2
  <2> QED BY <1>6, <2>1, <2>2
<1>10. Tops'
  <2>1. \A i \in 1 .. Len(saved) : runs'[i].top = saved[i].top - saved[i].bottom
    BY <1>3, <1>5 DEF RegInv, Tops
  <2>2. runs'[Len(runs')].top = Size'
    BY <1>2, <1>4, <1>5 DEF Size
  <2> QED BY <1>2, <2>1, <2>2 DEF Tops
<1> QED BY <1>2, <1>9, <1>10 DEF RegInv

(* The text cannot be read: a2_require registers the message.              *)
LEMMA LoadFailRegisters ==
  ASSUME Perils = {}, StackInv, RegInv, LoadFails
  PROVE  RegInv'
<1>1. InC /\ UNCHANGED <<bottom, saved, runs>>
  BY LoadFailsKeeps
<1>2. PICK r \in {Begun("load", None)} \cup {Begun("require", k) : k \in Unknown} :
        Ended(Append(stk, Msg), r) /\ Leaves(r, Msg)
  BY DEF LoadFails
<1>3. stk \o <<Msg>> = Append(stk, Msg) /\ <<Msg>> \in Seq(Things) /\ First(<<Msg>>) = Msg
  <2>1. Msg \in Things /\ stk \in Seq(Things)
    BY DEF StackInv, WindowsNest, Things
  <2>2. <<Msg>> # << >> /\ <<Msg>>[1] = Msg
    OBVIOUS
  <2> QED BY <2>1, <2>2, AppendIsConcat DEF First
<1>4. Size \in Nat /\ cap \in Nat /\ Unknown \subseteq Keys
  BY LenProperties DEF StackInv, WindowsNest, RunsOK, Size, Unknown, Named
<1>5. /\ r \in Runs
      /\ r.what = "require" => /\ r.key \in Unknown /\ r.key \in Keys
                               /\ r.cap = cap /\ r.top = Size
  BY <1>2, <1>4 DEF Begun, Runs
<1>6. r.what = "require" => /\ reg[r.key] = None
                            /\ \A i \in DOMAIN runs : runs[i].key # r.key
  BY <1>5 DEF Unknown
<1>7. /\ Calm /\ reg' = left'
      /\ r.what # "require" => reg' = reg
      /\ r.what = "require" => reg' = [reg EXCEPT ![r.key] = First(<<Msg>>)]
  BY <1>2, <1>3, <1>5, <1>6, RunOver DEF RegInv
<1>8. /\ Len(runs) \in Nat /\ runs \in Seq(Runs) /\ DOMAIN runs = 1 .. Len(runs)
      /\ reg \in [Keys -> Things \cup {None}]
  BY LenProperties DEF StackInv, RunsOK
<1>9. \A i \in 1 .. Len(runs) : runs[i].what = "require" => reg'[runs[i].key] = None
  <2> TAKE i \in 1 .. Len(runs)
  <2> HAVE runs[i].what = "require"
  <2>1. runs[i].key \in Keys /\ reg[runs[i].key] = None
    BY DEF RegInv, Waiting
  <2>2. CASE r.what # "require"
    BY <1>7, <2>1, <2>2
  <2>3. CASE r.what = "require"
    BY <1>6, <1>7, <1>8, <2>1, <2>3
  <2> QED BY <2>2, <2>3
<1>10. Waiting'
  BY <1>1, <1>7, <1>8, <1>9, StillWaiting DEF RegInv
<1>11. Tops'
  BY <1>1 DEF RegInv, Tops, InC, InScript
<1> QED BY <1>7, <1>10, <1>11 DEF RegInv

(* The chain of runs without its last.                                     *)
LEMMA Fewer ==
  ASSUME StackInv, RegInv, Calm, runs # << >>, runs' = Front(runs), reg' = left',
         \A i \in 1 .. Len(runs) - 1 :
           runs[i].what = "require" => reg'[runs[i].key] = None
  PROVE  /\ reg' = left' /\ Waiting'
         /\ Len(runs') = Len(runs) - 1
         /\ \A i \in 1 .. Len(runs) - 1 : runs'[i] = runs[i]
<1>1. /\ Len(runs) \in Nat /\ runs \in Seq(Runs) /\ Len(runs) >= 1
      /\ Len(runs') = Len(runs) - 1
      /\ \A i \in 1 .. Len(runs) - 1 : runs'[i] = runs[i]
  BY FrontOf DEF StackInv, RunsOK
<1>2. Len(runs') \in Nat /\ Len(runs') <= Len(runs)
  BY <1>1
<1>3. Waiting'
  BY <1>1, <1>2, StillWaiting DEF RegInv
<1> QED BY <1>1, <1>3

(* The last run ends, with results or with a message.                      *)
LEMMA EndRegisters ==
  ASSUME Perils = {}, StackInv, RegInv, Return \/ ScriptFails
  PROVE  RegInv'
<1> DEFINE r == Last(runs)
           n == Len(runs)
<1>1. InScript /\ UNCHANGED <<bottom, saved>> /\ runs # << >> /\ runs' = Front(runs)
  BY RunEnds
<1>2. PICK t \in Seq(Things) : Ended(stk \o t, r) /\ Leaves(r, First(t))
  <2>1. CASE Return
    <3>1. PICK results \in Some(MaxCount) :
            LET pushed == IF Len(runs) = 1 /\ Last(runs).what # "pcall"
                          THEN << >> ELSE results
            IN  /\ Ended(stk \o pushed, Last(runs))
                /\ Leaves(Last(runs), IF pushed = << >> THEN Nil ELSE pushed[1])
      BY <2>1 DEF Return
    <3>2. results \in Seq(Things) /\ << >> \in Seq(Things)
      BY <3>1, SizesAssumption, EmptySeq DEF Some, Fresh, Things
    <3> QED BY <3>1, <3>2 DEF First
  <2>2. CASE ScriptFails
    <3>1. stk \o <<Msg>> = Append(stk, Msg) /\ <<Msg>> \in Seq(Things)
      BY AppendIsConcat DEF StackInv, WindowsNest, Things
    <3>2. First(<<Msg>>) = Msg
      BY DEF First
    <3> QED BY <2>2, <3>1, <3>2 DEF ScriptFails
  <2> QED BY <2>1, <2>2
<1>3. /\ n \in Nat /\ n >= 1 /\ runs \in Seq(Runs) /\ r \in Runs /\ r = runs[n]
      /\ n = Len(saved) + 1 /\ Len(saved) \in Nat
      /\ reg \in [Keys -> Things \cup {None}]
  BY <1>1, FrontOf, TurnOf DEF StackInv, RunsOK, Last
<1>4. /\ r.top = Size
      /\ r.what = "require" =>
           /\ r.key \in Keys /\ reg[r.key] = None /\ r.cap = cap
           /\ \A j \in 1 .. n : runs[j].key = r.key => j = n
  BY <1>1, <1>3 DEF RegInv, Waiting, Tops
<1>5. /\ Calm /\ reg' = left'
      /\ r.what # "require" => reg' = reg
      /\ r.what = "require" => reg' = [reg EXCEPT ![r.key] = First(t)]
  BY <1>2, <1>3, <1>4, RunOver DEF RegInv
<1>6. \A i \in 1 .. n - 1 : runs[i].what = "require" => reg'[runs[i].key] = None
  <2> TAKE i \in 1 .. n - 1
  <2> HAVE runs[i].what = "require"
  <2>1. i \in 1 .. n /\ i # n
    BY <1>3
  <2>2. runs[i].key \in Keys /\ reg[runs[i].key] = None
    BY <2>1 DEF RegInv, Waiting
  <2>3. CASE r.what # "require"
    BY <1>5, <2>2, <2>3
  <2>4. CASE r.what = "require"
    <3>1. runs[i].key # r.key
      BY <1>4, <2>1, <2>4
    <3> QED BY <1>3, <1>4, <1>5, <2>2, <2>4, <3>1
  <2> QED BY <2>3, <2>4
<1>7. /\ reg' = left' /\ Waiting' /\ Len(runs') = n - 1
      /\ \A i \in 1 .. n - 1 : runs'[i] = runs[i]
  BY <1>1, <1>5, <1>6, Fewer
<1>8. Tops'
  <2>1. ~(Len(runs') > Len(saved))
    BY <1>3, <1>7
  <2>2. \A i \in 1 .. Len(saved) : runs'[i] = runs[i]
    BY <1>3, <1>7
  <2> QED BY <1>1, <2>1, <2>2 DEF RegInv, Tops, InScript
<1> QED BY <1>7, <1>8 DEF RegInv

(* An error of a C function ends the run that called it, never the load of *)
(* a module.                                                               *)
LEMMA FailureRegisters ==
  ASSUME Perils = {}, StackInv, RegInv, CFails
  PROVE  RegInv'
<1> DEFINE n == Len(runs)
<1>1. /\ InC /\ UNCHANGED bottom
      /\ saved # << >> /\ saved' = Front(saved)
      /\ runs # << >> /\ runs' = Front(runs)
  BY FailureKeeps
<1>2. Last(runs).what # "require" /\ Put(Append(stk, Msg)) /\ UNCHANGED <<reg, left>>
  BY DEF CFails, Ended, Leaves
<1>3. Calm /\ reg' = left'
  BY <1>2, PutCalm DEF RegInv
<1>4. /\ n \in Nat /\ n >= 1 /\ n = Len(saved)
      /\ saved \in Seq([bottom : Nat, top : Nat])
      /\ Len(saved') = n - 1 /\ \A i \in 1 .. n - 1 : saved'[i] = saved[i]
  BY <1>1, FrontOf, TurnOf DEF StackInv, WindowsNest
<1>5. \A i \in 1 .. n - 1 : runs[i].what = "require" => reg'[runs[i].key] = None
  <2> TAKE i \in 1 .. n - 1
  <2>1. i \in 1 .. n
    BY <1>4
  <2> QED BY <1>2, <2>1 DEF RegInv, Waiting
<1>6. /\ reg' = left' /\ Waiting' /\ Len(runs') = n - 1
      /\ \A i \in 1 .. n - 1 : runs'[i] = runs[i]
  BY <1>1, <1>3, <1>5, Fewer
<1>7. Tops'
  <2>1. ~(Len(runs') > Len(saved'))
    BY <1>4, <1>6
  <2>2. \A i \in 1 .. n - 1 : runs'[i].top = saved'[i].top - saved'[i].bottom
    <3> TAKE i \in 1 .. n - 1
    <3>1. i \in 1 .. Len(saved) /\ runs'[i] = runs[i] /\ saved'[i] = saved[i]
      BY <1>4, <1>6
    <3> QED BY <3>1 DEF RegInv, Tops
  <2> QED BY <1>4, <2>1, <2>2 DEF Tops, InScript
<1> QED BY <1>6, <1>7 DEF RegInv

(* A script calls a C function: the run's top is where its window ends.    *)
LEMMA EntryRegisters ==
  ASSUME Perils = {}, StackInv, RegInv, EnterC
  PROVE  RegInv'
<1>1. /\ InScript /\ UNCHANGED <<runs, reg, left>>
      /\ saved' = Append(saved, [bottom |-> bottom, top |-> Len(stk)])
  BY DEF EnterC
<1>2. Calm
  BY PutCalm DEF EnterC
<1>3. /\ Len(runs) = Len(saved) + 1 /\ Len(saved) \in Nat /\ Len(runs) \in Nat
      /\ runs \in Seq(Runs)
      /\ saved \in Seq([bottom : Nat, top : Nat])
      /\ Len(stk) \in Nat /\ bottom \in Nat
  BY <1>1, TurnOf DEF StackInv, WindowsNest, RunsOK
<1>4. /\ Len(saved') = Len(saved) + 1
      /\ \A i \in 1 .. Len(saved) : saved'[i] = saved[i]
      /\ saved'[Len(saved) + 1] = [bottom |-> bottom, top |-> Len(stk)]
  BY <1>1, <1>3, AppendProperties
<1>5. Waiting'
  <2>1. \A i \in 1 .. Len(runs) : runs[i].what = "require" => reg[runs[i].key] = None
    BY DEF RegInv, Waiting
  <2> QED BY <1>1, <1>2, <1>3, <2>1, StillWaiting DEF RegInv
<1>6. Tops'
  <2>1. ~(Len(runs') > Len(saved'))
    BY <1>1, <1>3, <1>4
  <2>2. \A i \in 1 .. Len(saved) + 1 : runs[i].top = saved'[i].top - saved'[i].bottom
    <3> TAKE i \in 1 .. Len(saved) + 1
    <3>1. CASE i \in 1 .. Len(saved)
      BY <1>4, <3>1 DEF RegInv, Tops
    <3>2. CASE i = Len(saved) + 1
      <4>1. runs[i].top = Len(stk) - bottom
        BY <1>1, <1>3, <3>2 DEF RegInv, Tops, Size
      <4> QED BY <1>4, <3>2, <4>1
    <3> QED BY <1>3, <3>1, <3>2
  <2> QED BY <1>1, <1>4, <2>1, <2>2 DEF Tops, InScript
<1> QED BY <1>1, <1>5, <1>6 DEF RegInv

LEMMA ExitRegisters ==
  ASSUME Perils = {}, StackInv, RegInv, LeaveC
  PROVE  RegInv'
<1>1. /\ InC /\ saved # << >> /\ saved' = Front(saved)
      /\ bottom' = Last(saved).bottom /\ Len(stk') = Last(saved).top
      /\ UNCHANGED <<cap, runs, reg, left>>
  BY ExitKeeps DEF LeaveC
<1>2. /\ Len(saved) \in Nat /\ Len(saved) >= 1 /\ Len(runs) = Len(saved)
      /\ Last(saved) = saved[Len(saved)]
      /\ Len(saved') = Len(saved) - 1
      /\ \A i \in 1 .. Len(saved) - 1 : saved'[i] = saved[i]
  BY <1>1, FrontOf, TurnOf DEF StackInv, WindowsNest, Last
<1>3. Waiting'
  BY <1>1 DEF RegInv, Waiting
<1>4. Tops'
  <2>1. runs[Len(runs)].top = Len(stk') - bottom'
    BY <1>1, <1>2 DEF RegInv, Tops
  <2>2. \A i \in 1 .. Len(saved) - 1 : runs[i].top = saved'[i].top - saved'[i].bottom
    <3> TAKE i \in 1 .. Len(saved) - 1
    <3>1. i \in 1 .. Len(saved) /\ saved'[i] = saved[i]
      BY <1>2
    <3> QED BY <3>1 DEF RegInv, Tops
  <2> QED BY <1>1, <1>2, <2>1, <2>2 DEF Tops, Size
<1> QED BY <1>1, <1>3, <1>4 DEF RegInv

LEMMA RegStep ==
  ASSUME Perils = {}
  PROVE  StackInv /\ RegInv /\ [Next]_vars => RegInv'
<1> SUFFICES ASSUME StackInv, RegInv, [Next]_vars PROVE RegInv'
  OBVIOUS
<1>1. CASE UNCHANGED vars
  BY <1>1 DEF vars, RegInv, Waiting, Tops, InScript, Size
<1> QED BY <1>1, WorkRegisters, RunRegisters, LoadFailRegisters, EndRegisters,
           FailureRegisters, EntryRegisters, ExitRegisters DEF Next, Works

(* A module is registered once, with what its load left first, however     *)
(* many loads and C functions go on inside of it (a2_require,              *)
(* a2_state.c:245-258), while nothing moves the memory, no module loads    *)
(* itself and no C function's error ends a load.                           *)
THEOREM RegistryTrueHolds ==
  ASSUME Perils = {}
  PROVE  Spec => []RegistryTrue
<1>1. StackInv /\ RegInv /\ [Next]_vars => RegInv'
  BY RegStep
<1>2. RegInv => RegistryTrue
  BY DEF RegInv, RegistryTrue
<1> QED BY InvInit, InvStep, RegInit, <1>1, <1>2, PTL DEF Spec

=============================================================================
