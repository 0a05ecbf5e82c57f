---------------------------- MODULE A2Heap_proofs ---------------------------
(***************************************************************************)
(* What holds of the collector of A2Gc in every run, the faults and what   *)
(* comes after them included: the types, the count of the chain, and the   *)
(* bound on the growth of the heap.                                        *)
(*                                                                         *)
(* The proofs need only know that each step does one of two things: it     *)
(* adds one object by a2_gc_add (AddsOne), or it adds and frees nothing    *)
(* (Rewrites).                                                             *)
(***************************************************************************)
EXTENDS A2Gc, FiniteSetTheorems, TLAPS

(* The threshold never falls below where it starts (a2_gc.c:70-73).        *)
ThresholdFloor == threshold >= DefThreshold

BaseInv == TypeOK /\ CountIsChain /\ ThresholdFloor

(* The part of TypeOK that a2_gc_add does not touch.                       *)
RestTyped ==
  /\ gcOpen \in BOOLEAN
  /\ regs \in [Regs -> Refs]
  /\ stale \subseteq Regs
  /\ globals \in [Globals -> Refs]
  /\ chunk \in Refs
  /\ code \subseteq Objs

(* The caller of a2_gc_add has taken the free object o into use, and has   *)
(* not changed what any other object is.                                   *)
Described(h, o) ==
  /\ h \in [Objs -> Object]
  /\ o \in FreeObjects /\ h[o].kind # "free"
  /\ \A x \in Objs \ {o} : h[x].kind = heap[x].kind

AddsOne ==
  \E o \in Objs, open \in BOOLEAN : \E h, rs, old, half, names :
    /\ Described(h, o) /\ gcOpen' = open
    /\ GcAdd(h, o, rs, old, open, half, names)

Rewrites ==
  /\ heap' \in [Objs -> Object]
  /\ \A x \in Objs : heap'[x].kind = heap[x].kind
  /\ dangling' \subseteq stale'
  /\ UNCHANGED added

-----------------------------------------------------------------------------
(* An object as NewObject makes it.                                        *)
LEMMA NewObjectFields ==
  ASSUME NEW knd \in Kinds, NEW ents \in SUBSET (Refs \X Refs), NEW junk \in Refs,
         NEW op \in Regs \cup {NoReg}
  PROVE  LET n == NewObject(knd, ents, junk, op)
         IN  /\ n \in Object
             /\ n.kind = knd /\ n.mark = "white" /\ n.entries = ents
             /\ n.meta = junk /\ n.open = op
BY DEF NewObject, Object, Marks, Refs

(* A new object in an otherwise unchanged heap.                            *)
LEMMA NewIsDescribed ==
  ASSUME TypeOK, NEW o \in Objs, o \in FreeObjects, NEW knd \in Kinds \ {"free"},
         NEW ents \in SUBSET (Refs \X Refs), NEW junk \in Refs,
         NEW op \in Regs \cup {NoReg}
  PROVE  LET h == [heap EXCEPT ![o] = NewObject(knd, ents, junk, op)]
         IN  /\ Described(h, o)
             /\ h[o] = NewObject(knd, ents, junk, op)
             /\ \A x \in Objs \ {o} : h[x] = heap[x]
<1> DEFINE n == NewObject(knd, ents, junk, op)
           h == [heap EXCEPT ![o] = n]
<1>1. n \in Object /\ n.kind = knd
  BY NewObjectFields
<1>2. heap \in [Objs -> Object]
  BY DEF TypeOK
<1> HIDE DEF n
<1>3. h \in [Objs -> Object] /\ h[o] = n /\ \A x \in Objs \ {o} : h[x] = heap[x]
  BY <1>1, <1>2
<1> HIDE DEF h
<1>4. Described(h, o)
  BY <1>1, <1>3 DEF Described
<1> QED BY <1>3, <1>4 DEF h, n

(* The constants of a function as the entries of its closure.              *)
LEMMA ConstantsTyped ==
  ASSUME NEW S \in SUBSET Objs
  PROVE  {<<NoObj, c>> : c \in S} \in SUBSET (Refs \X Refs)
BY DEF Refs

(* The effect of a2_closure_return on the heap, before it adds u.          *)
Closing(u, r) ==
  [c \in Objs |->
     IF c = u THEN NewObject("upvalue", {<<NoObj, regs[r]>>}, NoObj, NoReg)
     ELSE IF c \in Sharing(r)
     THEN [heap[c] EXCEPT !.entries = @ \cup {<<NoObj, u>>}, !.open = NoReg]
     ELSE heap[c]]

(* What it does to an object, field by field.                              *)
IsClosing(h, u, r) ==
  /\ h[u] = NewObject("upvalue", {<<NoObj, regs[r]>>}, NoObj, NoReg)
  /\ h \in [Objs -> Object]
  /\ \A c \in Objs \ {u} :
       /\ h[c].kind = heap[c].kind /\ h[c].mark = heap[c].mark
       /\ h[c].meta = heap[c].meta
       /\ c \in Sharing(r) => /\ h[c].entries = heap[c].entries \cup {<<NoObj, u>>}
                             /\ h[c].open = NoReg
       /\ c \notin Sharing(r) => h[c] = heap[c]

LEMMA ClosingFields ==
  ASSUME TypeOK, NEW u \in Objs, NEW r \in Regs
  PROVE  IsClosing(Closing(u, r), u, r)
<1> DEFINE h == Closing(u, r)
           n == NewObject("upvalue", {<<NoObj, regs[r]>>}, NoObj, NoReg)
<1>1. /\ heap \in [Objs -> Object] /\ regs[r] \in Refs
  BY DEF TypeOK
<1>2. n \in Object
  <2>1. {<<NoObj, regs[r]>>} \in SUBSET (Refs \X Refs) /\ NoObj \in Refs
    BY <1>1 DEF Refs
  <2>2. "upvalue" \in Kinds /\ NoReg \in Regs \cup {NoReg}
    BY DEF Kinds
  <2> QED BY <2>1, <2>2, NewObjectFields
<1>3. h[u] = n /\ DOMAIN h = Objs
  BY DEF Closing
<1> HIDE DEF n
<1>4. ASSUME NEW c \in Objs \ {u}
      PROVE  /\ h[c] \in Object
             /\ h[c].kind = heap[c].kind /\ h[c].mark = heap[c].mark
             /\ h[c].meta = heap[c].meta
             /\ c \in Sharing(r) => /\ h[c].entries = heap[c].entries \cup {<<NoObj, u>>}
                                   /\ h[c].open = NoReg
             /\ c \notin Sharing(r) => h[c] = heap[c]
  <2>1. CASE c \in Sharing(r)
    <3> DEFINE ents == heap[c].entries \cup {<<NoObj, u>>}
    <3>1. h[c] = [heap[c] EXCEPT !.entries = ents, !.open = NoReg]
      BY <2>1 DEF Closing
    <3>2. heap[c] \in Object
      BY <1>1
    <3>3. ents \in SUBSET (Refs \X Refs)
      BY <3>2 DEF Object, Refs
    <3> HIDE DEF ents, h
    <3>4. /\ h[c] \in Object /\ h[c].kind = heap[c].kind /\ h[c].mark = heap[c].mark
          /\ h[c].meta = heap[c].meta /\ h[c].entries = ents /\ h[c].open = NoReg
      BY <3>1, <3>2, <3>3 DEF Object
    <3> QED BY <2>1, <3>4 DEF ents
  <2>2. CASE c \notin Sharing(r)
    <3>1. h[c] = heap[c]
      BY <2>2 DEF Closing
    <3> QED BY <1>1, <2>2, <3>1
  <2> QED BY <2>1, <2>2
<1>5. \A c \in Objs : h[c] \in Object
  BY <1>2, <1>3, <1>4
<1>6. h = [c \in Objs |-> h[c]]
  BY DEF Closing
<1> HIDE DEF h
<1>7. h \in [Objs -> Object]
  BY <1>5, <1>6
<1>8. IsClosing(h, u, r)
  BY <1>3, <1>4, <1>7 DEF n, IsClosing
<1> QED BY <1>8 DEF h

(* The heap as a2_env_load leaves it before it adds the chunk o: the chunk *)
(* and its constants are blue.                                             *)
Starting(o, own) ==
  [x \in Objs |->
     IF x = o
     THEN [NewObject("closure", {<<NoObj, c>> : c \in own}, NoObj, NoReg)
             EXCEPT !.mark = "blue"]
     ELSE IF x \in own THEN [heap[x] EXCEPT !.mark = "blue"]
     ELSE heap[x]]

LEMMA StartingFields ==
  ASSUME TypeOK, NEW o \in Objs, NEW own \in SUBSET Objs
  PROVE  /\ Starting(o, own)[o] =
              [kind |-> "closure", mark |-> "blue",
               entries |-> {<<NoObj, c>> : c \in own}, meta |-> NoObj, open |-> NoReg]
         /\ Starting(o, own) \in [Objs -> Object]
         /\ \A x \in Objs \ {o} :
              /\ Starting(o, own)[x].kind = heap[x].kind
              /\ Starting(o, own)[x].mark = IF x \in own THEN "blue" ELSE heap[x].mark
              /\ Starting(o, own)[x].entries = heap[x].entries
              /\ Starting(o, own)[x].meta = heap[x].meta
              /\ x \notin own => Starting(o, own)[x] = heap[x]
<1> DEFINE h == Starting(o, own)
           ents == {<<NoObj, c>> : c \in own}
           n == [kind |-> "closure", mark |-> "blue", entries |-> ents,
                 meta |-> NoObj, open |-> NoReg]
<1>1. heap \in [Objs -> Object] /\ ents \in SUBSET (Refs \X Refs)
  BY ConstantsTyped DEF TypeOK
<1>2. h[o] = n /\ DOMAIN h = Objs
  BY DEF Starting, NewObject
<1> HIDE DEF ents
<1>3. n \in Object
  BY <1>1 DEF Object, Kinds, Marks, Refs
<1> HIDE DEF n
<1>4. ASSUME NEW x \in Objs \ {o}
      PROVE  /\ h[x] \in Object
             /\ h[x].kind = heap[x].kind
             /\ h[x].mark = IF x \in own THEN "blue" ELSE heap[x].mark
             /\ h[x].entries = heap[x].entries /\ h[x].meta = heap[x].meta
             /\ x \notin own => h[x] = heap[x]
  <2>0. heap[x] \in Object
    BY <1>1
  <2>1. CASE x \in own
    <3>1. h[x] = [heap[x] EXCEPT !.mark = "blue"]
      BY <2>1 DEF Starting
    <3> HIDE DEF h
    <3> QED BY <2>0, <2>1, <3>1 DEF Object, Marks
  <2>2. CASE x \notin own
    <3>1. h[x] = heap[x]
      BY <2>2 DEF Starting
    <3> QED BY <2>0, <2>2, <3>1
  <2> QED BY <2>1, <2>2
<1>5. \A c \in Objs : h[c] \in Object
  BY <1>2, <1>3, <1>4
<1>6. h = [c \in Objs |-> h[c]]
  BY DEF Starting
<1> HIDE DEF h
<1>7. h \in [Objs -> Object]
  BY <1>5, <1>6
<1> QED BY <1>2, <1>4, <1>7 DEF h, n, ents

-----------------------------------------------------------------------------
(* The actions that add an object.                                         *)

LEMMA ContainerIsAdded ==
  ASSUME BaseInv, NEW o \in Objs, NEW r \in Regs, NEW knd \in Containers,
         NEW junk \in Refs, NewContainer(o, r, knd, junk)
  PROVE  AddsOne /\ RestTyped'
<1> DEFINE h == [heap EXCEPT ![o] = NewObject(knd, {}, junk, NoReg)]
<1>1. /\ gcOpen' = TRUE /\ o \in FreeObjects
      /\ GcAdd(h, o, regs, stale, TRUE, {}, {})
      /\ regs' = [regs EXCEPT ![r] = o] /\ stale' = stale \ {r}
      /\ UNCHANGED <<globals, chunk, code>>
  BY DEF NewContainer, Given, BaseInv, TypeOK
<1>2. knd \in Kinds \ {"free"} /\ {} \in SUBSET (Refs \X Refs)
  BY ContainersAssumption DEF Kinds
<1>3. Described(h, o)
  BY <1>1, <1>2, NewIsDescribed DEF BaseInv
<1> HIDE DEF h
<1>4. AddsOne
  BY <1>1, <1>3 DEF AddsOne
<1> QED BY <1>1, <1>4 DEF RestTyped, BaseInv, TypeOK, Refs

LEMMA StringIsAdded ==
  ASSUME BaseInv, NEW o \in Objs, NEW r \in Regs, NEW s \in Strings,
         NewString(o, r, s)
  PROVE  AddsOne /\ RestTyped'
<1> DEFINE h == [heap EXCEPT ![o] = NewObject("string", {}, NoObj, NoReg)]
<1>1. /\ gcOpen' = TRUE /\ o \in FreeObjects
      /\ GcAdd(h, o, regs, stale, TRUE, {}, {s})
      /\ regs' = [regs EXCEPT ![r] = o] /\ stale' = stale \ {r}
      /\ UNCHANGED <<globals, chunk, code>>
  BY DEF NewString, Given, BaseInv, TypeOK
<1>2. /\ "string" \in Kinds \ {"free"} /\ {} \in SUBSET (Refs \X Refs)
      /\ NoObj \in Refs
  BY DEF Kinds, Refs
<1>3. Described(h, o)
  BY <1>1, <1>2, NewIsDescribed DEF BaseInv
<1> HIDE DEF h
<1>4. AddsOne
  BY <1>1, <1>3 DEF AddsOne
<1> QED BY <1>1, <1>4 DEF RestTyped, BaseInv, TypeOK, Refs

LEMMA ClosureIsAdded ==
  ASSUME BaseInv, NEW o \in Objs, NEW r \in Regs, NEW q \in Regs \cup {NoReg},
         NEW consts \in {{}, code}, NewClosure(o, r, q, consts)
  PROVE  AddsOne /\ RestTyped'
<1> DEFINE ents == {<<NoObj, c>> : c \in consts}
           h == [heap EXCEPT ![o] = NewObject("closure", ents, NoObj, q)]
<1>1. /\ gcOpen' = TRUE /\ o \in FreeObjects
      /\ GcAdd(h, o, [regs EXCEPT ![r] = o], stale \ {r}, TRUE, {}, {})
      /\ regs' = [regs EXCEPT ![r] = o] /\ stale' = stale \ {r}
      /\ UNCHANGED <<globals, chunk, code>>
  BY DEF NewClosure, Given, BaseInv, TypeOK
<1>2. "closure" \in Kinds \ {"free"} /\ NoObj \in Refs
  BY DEF Kinds, Refs
<1>3. ents \in SUBSET (Refs \X Refs)
  BY ConstantsTyped DEF BaseInv, TypeOK
<1> HIDE DEF ents
<1>4. Described(h, o)
  BY <1>1, <1>2, <1>3, NewIsDescribed DEF BaseInv
<1> HIDE DEF h
<1>5. AddsOne
  BY <1>1, <1>4 DEF AddsOne
<1> QED BY <1>1, <1>5 DEF RestTyped, BaseInv, TypeOK, Refs

LEMMA UpvalueIsAdded ==
  ASSUME BaseInv, NEW u \in Objs, NEW r \in Regs, NEW cls \in Objs,
         CloseUpvalue(u, r, cls)
  PROVE  AddsOne /\ RestTyped'
<1> DEFINE h == Closing(u, r)
<1>1. /\ gcOpen' = TRUE /\ u \in FreeObjects
      /\ GcAdd(h, u, regs, stale, TRUE, {cls}, {})
      /\ stale' = stale \cup {x \in {r} : regs[x] # NoObj}
      /\ UNCHANGED <<regs, globals, chunk, code>>
  BY DEF CloseUpvalue, Closing, BaseInv, TypeOK
<1>2. /\ h \in [Objs -> Object] /\ h[u].kind = "upvalue"
      /\ \A x \in Objs \ {u} : h[x].kind = heap[x].kind
  <2>1. IsClosing(h, u, r)
    BY ClosingFields DEF BaseInv
  <2> HIDE DEF h
  <2> QED BY <2>1 DEF IsClosing, NewObject
<1> HIDE DEF h
<1>3. Described(h, u)
  BY <1>1, <1>2 DEF Described
<1>4. AddsOne
  BY <1>1, <1>3 DEF AddsOne
<1> QED BY <1>1, <1>4 DEF RestTyped, BaseInv, TypeOK

LEMMA CompiledIsAdded ==
  ASSUME BaseInv, NEW o \in Objs, NEW s \in Strings, CompileString(o, s)
  PROVE  (AddsOne \/ Rewrites) /\ RestTyped'
<1>1. CASE interned[s] # NoObj
  <2>1. /\ code' = code \cup {interned[s]}
        /\ UNCHANGED <<heap, added, dangling, gcOpen, regs, stale, globals, chunk>>
    BY <1>1 DEF CompileString
  <2>2. interned[s] \in Objs
    BY <1>1 DEF BaseInv, TypeOK, Refs
  <2> QED BY <2>1, <2>2 DEF Rewrites, RestTyped, BaseInv, TypeOK
<1>2. CASE interned[s] = NoObj
  <2> DEFINE h == [heap EXCEPT ![o] = NewObject("string", {}, NoObj, NoReg)]
  <2>1. /\ gcOpen' = FALSE /\ o \in FreeObjects
        /\ GcAdd(h, o, regs, stale, FALSE, {}, {s})
        /\ code' = code \cup {o}
        /\ UNCHANGED <<regs, stale, globals, chunk>>
    BY <1>2 DEF CompileString, BaseInv, TypeOK
  <2>2. /\ "string" \in Kinds \ {"free"} /\ {} \in SUBSET (Refs \X Refs)
        /\ NoObj \in Refs
    BY DEF Kinds, Refs
  <2>3. Described(h, o)
    BY <2>1, <2>2, NewIsDescribed DEF BaseInv
  <2> HIDE DEF h
  <2>4. AddsOne
    BY <2>1, <2>3 DEF AddsOne
  <2> QED BY <2>1, <2>4 DEF RestTyped, BaseInv, TypeOK
<1> QED BY <1>1, <1>2

LEMMA ChunkIsAdded ==
  ASSUME BaseInv, NEW o \in Objs, NEW own \in SUBSET code, LoadRun(o, own)
  PROVE  AddsOne /\ RestTyped'
<1> DEFINE h == Starting(o, own)
<1>1. /\ gcOpen' = TRUE /\ o \in FreeObjects
      /\ GcAdd(h, o, regs, stale, TRUE, {}, {})
      /\ chunk' = o /\ code' \subseteq code
      /\ UNCHANGED <<regs, stale, globals>>
  BY DEF LoadRun, Starting
<1>2. own \in SUBSET Objs /\ TypeOK
  BY DEF BaseInv, TypeOK
<1>3. /\ h \in [Objs -> Object] /\ h[o].kind = "closure"
      /\ \A x \in Objs \ {o} : h[x].kind = heap[x].kind
  <2>1. /\ h[o] = [kind |-> "closure", mark |-> "blue",
                    entries |-> {<<NoObj, c>> : c \in own}, meta |-> NoObj,
                    open |-> NoReg]
        /\ h \in [Objs -> Object]
        /\ \A x \in Objs \ {o} : h[x].kind = heap[x].kind
    BY <1>2, StartingFields
  <2> HIDE DEF h
  <2> QED BY <2>1
<1> HIDE DEF h
<1>4. Described(h, o)
  BY <1>1, <1>3 DEF Described
<1>5. AddsOne
  BY <1>1, <1>4 DEF AddsOne
<1> QED BY <1>1, <1>5 DEF RestTyped, BaseInv, TypeOK, Refs

-----------------------------------------------------------------------------
(* The actions that do not.                                                *)

(* A write to one object keeps its kind.                                   *)
LEMMA WriteRewrites ==
  ASSUME BaseInv, NEW o \in Objs, NEW obj \in Object, obj.kind = heap[o].kind,
         Write(o, obj)
  PROVE  Rewrites /\ RestTyped'
<1>1. /\ heap' = [heap EXCEPT ![o] = obj]
      /\ UNCHANGED <<added, gcOpen, regs, stale, dangling, globals, chunk, code>>
  BY DEF Write
<1>2. heap \in [Objs -> Object]
  BY DEF BaseInv, TypeOK
<1>3. heap' \in [Objs -> Object] /\ \A x \in Objs : heap'[x].kind = heap[x].kind
  BY <1>1, <1>2
<1> QED BY <1>1, <1>3 DEF Rewrites, RestTyped, BaseInv, TypeOK

(* What the three writes of a script put into the object they write.       *)
LEMMA EntriesWritten ==
  ASSUME NEW b \in Object, NEW ents \in SUBSET (Refs \X Refs)
  PROVE  /\ [b EXCEPT !.entries = ents] \in Object
         /\ [b EXCEPT !.entries = ents].kind = b.kind
         /\ [b EXCEPT !.entries = ents].mark = b.mark
         /\ [b EXCEPT !.entries = ents].entries = ents
         /\ [b EXCEPT !.entries = ents].meta = b.meta
BY DEF Object

LEMMA MetaWritten ==
  ASSUME NEW b \in Object, NEW m \in Refs
  PROVE  /\ [b EXCEPT !.meta = m] \in Object
         /\ [b EXCEPT !.meta = m].kind = b.kind
         /\ [b EXCEPT !.meta = m].mark = b.mark
         /\ [b EXCEPT !.meta = m].entries = b.entries
         /\ [b EXCEPT !.meta = m].meta = m
BY DEF Object

(* All values of registers are references.                                 *)
LEMMA RegisterTyped ==
  ASSUME BaseInv, NEW r \in Regs, regs[r] # NoObj
  PROVE  /\ regs[r] \in Objs /\ heap[regs[r]] \in Object
         /\ heap[regs[r]].entries \in SUBSET (Refs \X Refs)
BY DEF BaseInv, TypeOK, Refs, Object

LEMMA MutateRewrites ==
  ASSUME BaseInv, Mutate
  PROVE  Rewrites /\ RestTyped'
<1> DEFINE Goal == Rewrites /\ RestTyped'
<1>1. ASSUME NEW r \in Regs, NEW q \in Regs, NEW k \in Refs, PutEntry(r, q, k)
      PROVE  Goal
  <2> DEFINE ents == heap[regs[r]].entries \cup {<<k, regs[q]>>}
             obj == [heap[regs[r]] EXCEPT !.entries = ents]
  <2>1. regs[r] # NoObj /\ Write(regs[r], obj)
    BY <1>1 DEF PutEntry
  <2>2. ents \in SUBSET (Refs \X Refs)
    BY <2>1, RegisterTyped DEF BaseInv, TypeOK
  <2> HIDE DEF ents
  <2>3. obj \in Object /\ obj.kind = heap[regs[r]].kind /\ regs[r] \in Objs
    BY <2>1, <2>2, RegisterTyped, EntriesWritten
  <2> HIDE DEF obj, Goal
  <2>4. Rewrites /\ RestTyped'
    BY <2>1, <2>3, WriteRewrites
  <2> QED BY <2>4 DEF Goal
<1>2. ASSUME NEW r \in Regs, NEW e \in Refs \X Refs, DropEntry(r, e)
      PROVE  Goal
  <2> DEFINE ents == heap[regs[r]].entries \ {e}
             obj == [heap[regs[r]] EXCEPT !.entries = ents]
  <2>1. regs[r] # NoObj /\ Write(regs[r], obj)
    BY <1>2 DEF DropEntry
  <2>2. ents \in SUBSET (Refs \X Refs)
    BY <2>1, RegisterTyped
  <2> HIDE DEF ents
  <2>3. obj \in Object /\ obj.kind = heap[regs[r]].kind /\ regs[r] \in Objs
    BY <2>1, <2>2, RegisterTyped, EntriesWritten
  <2> HIDE DEF obj, Goal
  <2>4. Rewrites /\ RestTyped'
    BY <2>1, <2>3, WriteRewrites
  <2> QED BY <2>4 DEF Goal
<1>3. ASSUME NEW r \in Regs, NEW q \in Regs, SetMeta(r, q)
      PROVE  Goal
  <2> DEFINE obj == [heap[regs[r]] EXCEPT !.meta = regs[q]]
  <2>1. regs[r] # NoObj /\ Write(regs[r], obj)
    BY <1>3 DEF SetMeta
  <2>2. regs[q] \in Refs
    BY DEF BaseInv, TypeOK
  <2>3. obj \in Object /\ obj.kind = heap[regs[r]].kind /\ regs[r] \in Objs
    BY <2>1, <2>2, RegisterTyped, MetaWritten
  <2> HIDE DEF obj, Goal
  <2>4. Rewrites /\ RestTyped'
    BY <2>1, <2>3, WriteRewrites
  <2> QED BY <2>4 DEF Goal
<1>4. ASSUME NEW q \in Regs, NEW v \in Refs, SetReg(q, v)
      PROVE  Goal
  <2>1. /\ regs' = [regs EXCEPT ![q] = v] /\ stale' = stale \ {q}
        /\ dangling' = dangling \ {q}
        /\ UNCHANGED <<heap, added, gcOpen, globals, chunk, code>>
    BY <1>4 DEF SetReg, Given
  <2> QED BY <2>1 DEF Rewrites, RestTyped, BaseInv, TypeOK
<1>5. ASSUME NEW g \in Globals, NEW r \in Regs, SetGlobal(g, r)
      PROVE  Goal
  BY <1>5 DEF SetGlobal, Rewrites, RestTyped, BaseInv, TypeOK
<1>6. ASSUME NEW r \in Regs, NEW s \in Strings, OldString(r, s)
      PROVE  Goal
  <2>1. /\ regs' = [regs EXCEPT ![r] = interned[s]] /\ stale' = stale \ {r}
        /\ dangling' = dangling \ {r}
        /\ UNCHANGED <<heap, added, gcOpen, globals, chunk, code>>
    BY <1>6 DEF OldString, Given
  <2> QED BY <2>1 DEF Rewrites, RestTyped, BaseInv, TypeOK
<1>7. ASSUME NEW r \in Regs, Leave(r)
      PROVE  Goal
  BY <1>7 DEF Leave, Rewrites, RestTyped, BaseInv, TypeOK
<1> QED BY <1>1, <1>2, <1>3, <1>4, <1>5, <1>6, <1>7 DEF Mutate

(* The end of a load changes marks only.                                   *)
LEMMA LoadEndFields ==
  ASSUME TypeOK, LoadEnd
  PROVE  /\ heap' \in [Objs -> Object]
         /\ \A x \in Objs : /\ heap'[x].kind = heap[x].kind
                            /\ heap'[x].entries = heap[x].entries
                            /\ heap'[x].meta = heap[x].meta
                            /\ heap'[x].open = heap[x].open
                            /\ heap'[x].mark = IF x \in Blue THEN "white"
                                               ELSE heap[x].mark
                            /\ x \notin Blue => heap'[x] = heap[x]
<1>1. heap \in [Objs -> Object]
  BY DEF TypeOK
<1>2. heap' = [o \in Objs |->
                 IF o \in Blue THEN [heap[o] EXCEPT !.mark = "white"] ELSE heap[o]]
  BY DEF LoadEnd
<1> SUFFICES ASSUME NEW x \in Objs
             PROVE  /\ heap'[x] \in Object
                    /\ heap'[x].kind = heap[x].kind
                    /\ heap'[x].entries = heap[x].entries
                    /\ heap'[x].meta = heap[x].meta
                    /\ heap'[x].open = heap[x].open
                    /\ heap'[x].mark = IF x \in Blue THEN "white" ELSE heap[x].mark
                    /\ x \notin Blue => heap'[x] = heap[x]
  BY <1>2
<1>3. heap[x] \in Object
  BY <1>1
<1>4. CASE x \in Blue
  <2>1. heap'[x] = [heap[x] EXCEPT !.mark = "white"]
    BY <1>2, <1>4
  <2> QED BY <1>3, <1>4, <2>1 DEF Object, Marks
<1>5. CASE x \notin Blue
  <2>1. heap'[x] = heap[x]
    BY <1>2, <1>5
  <2> QED BY <1>3, <1>5, <2>1
<1> QED BY <1>4, <1>5

LEMMA LoadRewrites ==
  ASSUME BaseInv, LoadBegin \/ LoadFail \/ LoadEnd
  PROVE  Rewrites /\ RestTyped'
<1>1. CASE LoadBegin
  BY <1>1 DEF LoadBegin, Rewrites, RestTyped, BaseInv, TypeOK
<1>2. CASE LoadFail
  BY <1>2 DEF LoadFail, Rewrites, RestTyped, BaseInv, TypeOK
<1>3. CASE LoadEnd
  <2>1. heap' \in [Objs -> Object] /\ \A x \in Objs : heap'[x].kind = heap[x].kind
    BY <1>3, LoadEndFields DEF BaseInv
  <2>2. /\ chunk' = NoObj /\ code' = {}
        /\ UNCHANGED <<added, gcOpen, regs, stale, dangling, globals>>
    BY <1>3 DEF LoadEnd
  <2> QED BY <2>1, <2>2 DEF Rewrites, RestTyped, BaseInv, TypeOK, Refs
<1> QED BY <1>1, <1>2, <1>3

(* Every step is of one of the two kinds.                                  *)
LEMMA StepKinds ==
  ASSUME BaseInv, [Next]_vars
  PROVE  (AddsOne \/ Rewrites) /\ RestTyped'
<1>1. CASE Create
  BY <1>1, ContainerIsAdded, StringIsAdded, ClosureIsAdded, UpvalueIsAdded DEF Create
<1>2. CASE Mutate
  BY <1>2, MutateRewrites
<1>3. CASE Load
  BY <1>3, LoadRewrites, CompiledIsAdded, ChunkIsAdded DEF Load
<1>4. CASE UNCHANGED vars
  BY <1>4 DEF vars, added, Rewrites, RestTyped, BaseInv, TypeOK
<1> QED BY <1>1, <1>2, <1>3, <1>4 DEF Next

-----------------------------------------------------------------------------
(* What an addition does to the chain and the counts, where dead are the   *)
(* objects that a collection in it frees.                                  *)

(* The counts after some objects left the chain and another one joined it. *)
LEMMA ChainCounts ==
  ASSUME NEW L, IsFiniteSet(L), NEW D \in SUBSET L, NEW o, o \notin L
  PROVE  /\ Cardinality(L) - Cardinality(D) \in Nat
         /\ Cardinality((L \ D) \cup {o}) = Cardinality(L) - Cardinality(D) + 1
         /\ IsFiniteSet(D)
<1>1. IsFiniteSet(D) /\ IsFiniteSet(L \ D)
  BY FS_Subset, FS_Difference
<1>2. Cardinality(L \ D) = Cardinality(L) - Cardinality(L \cap D)
  BY FS_Difference
<1>3. L \cap D = D
  OBVIOUS
<1>4. Cardinality(L \ D) \in Nat /\ Cardinality(L) \in Nat /\ Cardinality(D) \in Nat
  BY <1>1, FS_CardinalityType
<1>5. Cardinality((L \ D) \cup {o}) = Cardinality(L \ D) + 1
  BY <1>1, FS_AddElement
<1> QED BY <1>1, <1>2, <1>3, <1>4, <1>5

(* A collection of h, where marking has reached the given objects, leaves  *)
(* objects, and frees exactly the dead ones.                               *)
LEMMA CollectedKinds ==
  ASSUME NEW h \in [Objs -> Object], NEW reached
  PROVE  /\ Collected(h, reached) \in [Objs -> Object]
         /\ \A x \in Objs : Collected(h, reached)[x].kind =
                              IF x \in Dead(h, reached) THEN "free" ELSE h[x].kind
<1> DEFINE c == Collected(h, reached)
<1>1. Free \in Object /\ Free.kind = "free"
  BY DEF Free, Object, Kinds, Marks, Refs
<1>2. ASSUME NEW x \in Objs
      PROVE  /\ c[x] \in Object
             /\ c[x].kind = IF x \in Dead(h, reached) THEN "free" ELSE h[x].kind
  <2>1. h[x] \in Object /\ MarkAfter(h, reached, x) \in Marks
    BY DEF MarkAfter, Marks, Object
  <2>2. CASE x \in Dead(h, reached)
    <3>1. c[x] = Free
      BY <2>2 DEF Collected
    <3> QED BY <1>1, <2>2, <3>1
  <2>3. CASE x \notin Dead(h, reached)
    <3>1. PICK m \in Marks : c[x] = [h[x] EXCEPT !.mark = m]
      <4>1. CASE x \in linked /\ MarkAfter(h, reached, x) = "black"
        <5>1. c[x] = [h[x] EXCEPT !.mark = "white"]
          BY <2>3, <4>1 DEF Collected
        <5> QED BY <5>1 DEF Marks
      <4>2. CASE ~(x \in linked /\ MarkAfter(h, reached, x) = "black")
        <5>1. c[x] = [h[x] EXCEPT !.mark = MarkAfter(h, reached, x)]
          BY <2>3, <4>2 DEF Collected
        <5> QED BY <2>1, <5>1
      <4> QED BY <4>1, <4>2
    <3> HIDE DEF c
    <3> QED BY <2>1, <2>3, <3>1 DEF Object
  <2> QED BY <2>2, <2>3
<1>3. c = [x \in Objs |-> c[x]]
  BY DEF Collected
<1> HIDE DEF c
<1> QED BY <1>2, <1>3 DEF c

(* The parts of an addition that matter here.                              *)
Counted(o, open, dead) ==
  /\ dead \subseteq linked /\ o \notin linked
  /\ linked' = (linked \ dead) \cup {o}
  /\ heap' \in [Objs -> Object]
  /\ \A x \in Objs : heap'[x].kind = "free" <=>
                       x \in dead \/ (x # o /\ heap[x].kind = "free")
  /\ count - Cardinality(dead) \in Nat
  /\ count' = count - Cardinality(dead) + 1
  /\ count' = Cardinality(linked')
  /\ threshold' = IF Due(open)
                  THEN Larger(2 * (count - Cardinality(dead)), DefThreshold)
                  ELSE threshold
  /\ Due(open) \/ dead = {}
  /\ interned' \in [Strings -> Refs]
  /\ dangling' \subseteq stale' /\ wild' \in BOOLEAN
  /\ faults \subseteq faults' /\ faults' \subseteq AllFaults

LEMMA AddIsCounted ==
  ASSUME BaseInv, NEW o \in Objs, NEW open \in BOOLEAN, NEW h, NEW rs, NEW old,
         NEW half, NEW names, Described(h, o),
         GcAdd(h, o, rs, old, open, half, names)
  PROVE  \E dead : Counted(o, open, dead)
<1>1. PICK fresh \in SUBSET old, lost \in SUBSET Strings :
        LET roots   == RootsOf(rs, globals, (Regs \ old) \cup fresh)
            reached == Reached(h, roots)
            dead    == IF Due(open) THEN Dead(h, reached) ELSE {}
            left    == count - Cardinality(dead)
        IN  /\ heap' = IF Due(open) THEN Collected(h, reached) ELSE h
            /\ linked' = (linked \ dead) \cup {o}
            /\ count' = left + 1
            /\ threshold' = IF Due(open) THEN Larger(2 * left, DefThreshold)
                            ELSE threshold
            /\ interned' = [s \in Strings |->
                              IF s \in names THEN o
                              ELSE IF s \in lost \/ interned[s] \in dead THEN NoObj
                              ELSE interned[s]]
            /\ dangling' = {r \in stale' : r \in dangling \/ regs[r] \in dead}
            /\ wild' = (wild \/ (Due(open) /\ RunsWild(h, reached, half)))
            /\ faults' = faults
                 \cup (IF Due(open)
                       THEN Struck(h, o, roots, half, fresh, reached, dead) ELSE {})
                 \cup (IF lost # {} THEN {"name"} ELSE {})
                 \cup (IF h[o].meta # NoObj THEN {"meta"} ELSE {})
  BY Zenon DEF GcAdd
<1> DEFINE roots   == RootsOf(rs, globals, (Regs \ old) \cup fresh)
           reached == Reached(h, roots)
           dead    == IF Due(open) THEN Dead(h, reached) ELSE {}
<1>2. /\ heap' = IF Due(open) THEN Collected(h, reached) ELSE h
      /\ linked' = (linked \ dead) \cup {o}
      /\ count' = count - Cardinality(dead) + 1
      /\ threshold' = IF Due(open)
                      THEN Larger(2 * (count - Cardinality(dead)), DefThreshold)
                      ELSE threshold
      /\ interned' = [s \in Strings |->
                        IF s \in names THEN o
                        ELSE IF s \in lost \/ interned[s] \in dead THEN NoObj
                        ELSE interned[s]]
      /\ dangling' = {r \in stale' : r \in dangling \/ regs[r] \in dead}
      /\ wild' = (wild \/ (Due(open) /\ RunsWild(h, reached, half)))
      /\ faults' = faults
           \cup (IF Due(open)
                 THEN Struck(h, o, roots, half, fresh, reached, dead) ELSE {})
           \cup (IF lost # {} THEN {"name"} ELSE {})
           \cup (IF h[o].meta # NoObj THEN {"meta"} ELSE {})
  BY <1>1, Zenon
<1>3. dead \subseteq linked
  BY DEF Dead
<1>4. dead = {} \/ Due(open)
  OBVIOUS
<1>5. /\ h \in [Objs -> Object] /\ o \in FreeObjects /\ h[o].kind # "free"
      /\ \A x \in Objs \ {o} : h[x].kind = heap[x].kind
  BY DEF Described
<1>6. /\ linked \subseteq Objs /\ count = Cardinality(linked)
      /\ linked = {x \in Objs : heap[x].kind # "free"}
      /\ interned \in [Strings -> Refs] /\ wild \in BOOLEAN
      /\ faults \subseteq AllFaults
  BY DEF BaseInv, TypeOK, CountIsChain
<1>7. o \notin linked
  BY <1>5, <1>6 DEF FreeObjects
<1>8. /\ heap' \in [Objs -> Object]
      /\ \A x \in Objs : heap'[x].kind = IF x \in dead THEN "free" ELSE h[x].kind
  <2>1. CASE Due(open)
    <3>1. heap' = Collected(h, reached) /\ dead = Dead(h, reached)
      BY <1>2, <2>1
    <3> HIDE DEF reached, dead
    <3> QED BY <1>5, <3>1, CollectedKinds
  <2>2. CASE ~Due(open)
    <3>1. heap' = h /\ dead = {}
      BY <1>2, <2>2
    <3> HIDE DEF dead
    <3> QED BY <1>5, <3>1
  <2> QED BY <2>1, <2>2
<1>9. /\ wild' \in BOOLEAN /\ faults \subseteq faults'
  BY <1>2
<1>10. faults' \subseteq AllFaults
  <2>1. Struck(h, o, roots, half, fresh, reached, dead) \subseteq AllFaults
    BY DEF Struck
  <2>2. {"name", "meta"} \subseteq AllFaults
    BY DEF AllFaults
  <2> HIDE DEF roots, reached, dead
  <2> QED BY <1>2, <1>6, <2>1, <2>2
<1> HIDE DEF dead
<1>11. interned' \in [Strings -> Refs]
  BY <1>2, <1>6 DEF Refs
<1>12. \A x \in Objs : heap'[x].kind = "free" <=>
                         x \in dead \/ (x # o /\ heap[x].kind = "free")
  BY <1>3, <1>5, <1>7, <1>8
<1>13. dangling' \subseteq stale'
  BY <1>2
<1>14. IsFiniteSet(linked)
  BY <1>6, FiniteAssumption, FS_Subset
<1>15. /\ count - Cardinality(dead) \in Nat
       /\ count - Cardinality(dead) + 1 = Cardinality((linked \ dead) \cup {o})
  BY <1>3, <1>6, <1>7, <1>14, ChainCounts
<1>16. count' = Cardinality(linked')
  BY <1>2, <1>15
<1>17. Counted(o, open, dead)
  BY <1>2, <1>3, <1>4, <1>7, <1>8, <1>9, <1>10, <1>11, <1>12, <1>13, <1>15, <1>16
     DEF Counted
<1> QED BY <1>17

-----------------------------------------------------------------------------
(* The invariant.                                                          *)

LEMMA InitBaseInv ==
  ASSUME Init
  PROVE  BaseInv
<1>1. Cardinality({}) = 0
  BY FS_EmptySet
<1>2. Free \in Object /\ Free.kind = "free"
  BY DEF Free, Object, Kinds, Marks, Refs
<1>3. TypeOK
  BY <1>2, ThresholdAssumption DEF Init, TypeOK, Refs
<1>4. CountIsChain
  BY <1>1, <1>2 DEF Init, CountIsChain
<1>5. ThresholdFloor
  BY ThresholdAssumption DEF Init, ThresholdFloor
<1> QED BY <1>3, <1>4, <1>5 DEF BaseInv

(* The next threshold is twice what survives or the least there is.        *)
LEMMA FloorStays ==
  ASSUME BaseInv, NEW o, NEW open, NEW dead, Counted(o, open, dead)
  PROVE  threshold' \in Nat /\ ThresholdFloor'
<1> DEFINE left == count - Cardinality(dead)
<1>1. /\ left \in Nat
      /\ threshold' = IF Due(open) THEN Larger(2 * left, DefThreshold) ELSE threshold
  BY DEF Counted
<1>2. threshold \in Nat /\ threshold >= DefThreshold
  BY DEF BaseInv, TypeOK, ThresholdFloor
<1> HIDE DEF left
<1> QED BY <1>1, <1>2, ThresholdAssumption DEF Larger, ThresholdFloor

LEMMA NextBaseInv ==
  ASSUME BaseInv, [Next]_vars
  PROVE  BaseInv' /\ faults \subseteq faults'
<1>1. RestTyped'
  BY StepKinds
<1>2. CASE AddsOne
  <2>1. PICK o \in Objs, open \in BOOLEAN : \E dead : Counted(o, open, dead)
    BY <1>2, AddIsCounted DEF AddsOne
  <2>2. PICK dead : Counted(o, open, dead)
    BY <2>1
  <2>3. threshold' \in Nat /\ ThresholdFloor'
    BY <2>2, FloorStays
  <2>4. /\ linked \subseteq Objs
        /\ linked = {x \in Objs : heap[x].kind # "free"}
    BY DEF BaseInv, TypeOK, CountIsChain
  <2>5. /\ linked' = (linked \ dead) \cup {o} /\ o \notin linked
        /\ \A x \in Objs : heap'[x].kind = "free" <=>
                             x \in dead \/ (x # o /\ heap[x].kind = "free")
        /\ dead \subseteq linked
        /\ count' = Cardinality(linked')
    BY <2>2 DEF Counted
  <2>6. CountIsChain'
    BY <2>4, <2>5 DEF CountIsChain
  <2>7. count' \in Nat /\ faults \subseteq faults'
    BY <2>2 DEF Counted
  <2>8. TypeOK'
    <3>1. linked' \subseteq Objs
      BY <2>4, <2>5
    <3> QED BY <1>1, <2>2, <2>3, <2>7, <3>1 DEF TypeOK, RestTyped, Counted
  <2> QED BY <2>3, <2>6, <2>7, <2>8 DEF BaseInv
<1>3. CASE Rewrites
  <2>1. /\ heap' \in [Objs -> Object]
        /\ \A x \in Objs : heap'[x].kind = heap[x].kind
        /\ dangling' \subseteq stale'
        /\ UNCHANGED <<linked, count, threshold, interned, wild, faults>>
    BY <1>3 DEF Rewrites, added
  <2>2. TypeOK'
    BY <1>1, <2>1 DEF BaseInv, TypeOK, RestTyped
  <2>3. CountIsChain' /\ ThresholdFloor'
    BY <2>1 DEF BaseInv, CountIsChain, ThresholdFloor
  <2> QED BY <2>1, <2>2, <2>3 DEF BaseInv
<1> QED BY <1>2, <1>3, StepKinds

THEOREM BaseInvariance == Spec => []BaseInv
<1>1. Init => BaseInv
  BY InitBaseInv
<1>2. BaseInv /\ [Next]_vars => BaseInv'
  BY NextBaseInv
<1> QED BY <1>1, <1>2, PTL DEF Spec

(* The collector's variables are of their types: in particular no count    *)
(* falls below zero, however much a collection frees (a2_gc.c:74-76).      *)
THEOREM GcTypesHold == Spec => []TypeOK
<1>1. BaseInv => TypeOK
  BY DEF BaseInv
<1> QED BY <1>1, BaseInvariance, PTL

(* gc_count counts the chain, and the chain holds exactly the objects in   *)
(* use: nothing is freed twice, lost, or counted wrong, even after a fault *)
(* (a2_gc.c:74-76, 236-245).                                               *)
THEOREM ChainIsCounted == Spec => []CountIsChain
<1>1. BaseInv => CountIsChain
  BY DEF BaseInv
<1> QED BY <1>1, BaseInvariance, PTL

(* One step obeys GrowthBounded: a due collection sets the threshold from  *)
(* what it left, and without one the heap was within the threshold.        *)
LEMMA StepGrowth ==
  ASSUME BaseInv, [Next]_vars, linked' \ linked # {}, gcOpen'
  PROVE  /\ count' <= threshold' + 1
         /\ threshold' > threshold => threshold' <= 2 * (count' - 1)
<1>1. AddsOne
  <2>1. Rewrites => linked' = linked
    BY DEF Rewrites, added
  <2> QED BY <2>1, StepKinds
<1>2. PICK o \in Objs, open \in BOOLEAN :
        /\ gcOpen' = open
        /\ \E h, rs, old, half, names :
             Described(h, o) /\ GcAdd(h, o, rs, old, open, half, names)
  BY <1>1 DEF AddsOne
<1>3. PICK dead : Counted(o, open, dead)
  BY <1>2, AddIsCounted
<1>4. /\ count \in Nat /\ threshold \in Nat /\ threshold >= DefThreshold
      /\ DefThreshold \in Nat
  BY ThresholdAssumption DEF BaseInv, ThresholdFloor, TypeOK
<1>5. Due(open) <=> count > threshold
  BY <1>2 DEF Due
<1> DEFINE left == count - Cardinality(dead)
<1>6. left \in Nat /\ count' = left + 1
  BY <1>3 DEF Counted
<1>7. CASE Due(open)
  <2>1. threshold' = Larger(2 * left, DefThreshold)
    BY <1>3, <1>7 DEF Counted
  <2> HIDE DEF left
  <2> QED BY <1>4, <1>6, <2>1 DEF Larger
<1>8. CASE ~Due(open)
  <2>1. dead = {} /\ threshold' = threshold
    BY <1>3, <1>8 DEF Counted
  <2>2. Cardinality(dead) = 0
    BY <2>1, FS_EmptySet
  <2>3. count' = count + 1
    BY <1>4, <1>6, <2>2
  <2> QED BY <1>4, <1>5, <1>8, <2>1, <2>3
<1> QED BY <1>7, <1>8

(* While the collector is open the heap stays proportional to what is      *)
(* alive, however long the script runs (a2_gc.c:65-76, 236-245).           *)
THEOREM GrowthStaysBounded == Spec => GrowthBounded
<1>1. BaseInv /\ [Next]_vars =>
        [linked' \ linked # {} /\ gcOpen' =>
           /\ count' <= threshold' + 1
           /\ threshold' > threshold => threshold' <= 2 * (count' - 1)]_vars
  BY StepGrowth
<1> QED BY <1>1, BaseInvariance, PTL DEF Spec, GrowthBounded

=============================================================================
