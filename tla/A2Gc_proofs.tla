---------------------------- MODULE A2Gc_proofs -----------------------------
(***************************************************************************)
(* Proofs about the collector of A2Gc: for any number of objects,          *)
(* registers, globals and strings, nothing goes wrong in any run until one *)
(* of the faults of A2Gc strikes.  Nothing else is assumed: the scripts of *)
(* these runs have string constants, string keys, closures with upvalues,  *)
(* meta tables, and registers that are left stale.                         *)
(*                                                                         *)
(* The argument is the inductive invariant GcInv.  A collection marks the  *)
(* least set that contains the roots and is closed under Traced at         *)
(* unmarked objects.  Because every mark in the chain is clean when a      *)
(* collection begins, and the blue objects refer to blue ones only, every  *)
(* reference of a survivor leads to a survivor, unless it is a key.        *)
(***************************************************************************)
EXTENDS A2Heap_proofs

(* What is not in the chain has been freed or never used.                  *)
FreeIsFree == \A x \in Objs \ linked : heap[x] = Free

MarksAreClean ==
  \A o \in linked : heap[o].mark = IF o \in Blue THEN "blue" ELSE "white"

(* The running chunk refers to strings only, and strings to nothing.       *)
ChunkIsFlat ==
  chunk # NoObj => /\ heap[chunk].kind = "closure" /\ heap[chunk].open = NoReg
                   /\ \A x \in Held(heap, chunk) : heap[x].kind = "string"

StringsAreBare ==
  \A o \in linked : heap[o].kind = "string" => heap[o].entries = {}

CodeIsStrings == \A c \in code : heap[c].kind = "string"

MetaLeadsToMap ==
  \A o \in linked : heap[o].kind = "map" /\ heap[o].meta # NoObj =>
    heap[heap[o].meta].kind = "map"

(* What a closure shares with a frame is not stale.                        *)
SharedAreWritten ==
  \A c \in linked : heap[c].kind = "closure" => heap[c].open \notin stale

(* A compile and a chunk exclude each other.                               *)
CompileApart == ~gcOpen => chunk = NoObj

LiveInv ==
  /\ RootsAlive /\ RefsAlive
  /\ FreeIsFree
  /\ MarksAreClean
  /\ ChunkIsFlat /\ StringsAreBare /\ CodeIsStrings
  /\ Interned
  /\ MetaLeadsToMap
  /\ SharedAreWritten
  /\ MarksInHeap
  /\ CompileApart

GcInv == BaseInv /\ (Sound => LiveInv)

-----------------------------------------------------------------------------
(* Marking.                                                                *)

(* Marking reaches the roots and goes on from every unmarked object it     *)
(* reaches.                                                                *)
LEMMA ReachedIsClosed ==
  ASSUME NEW h \in [Objs -> Object], NEW roots \in SUBSET Objs
  PROVE  /\ roots \subseteq Reached(h, roots)
         /\ Reached(h, roots) \subseteq Objs
         /\ TraceClosed(h, Reached(h, roots))
<1> DEFINE R == Reached(h, roots)
<1>1. roots \subseteq R /\ R \subseteq Objs
  BY DEF Reached
<1>2. ASSUME NEW o \in R, GoesOn(h, o) PROVE Traced(h, o) \subseteq R
  <2>1. Traced(h, o) \subseteq Objs
    BY <1>1, NoneAssumption DEF Traced, Object, Refs
  <2>2. ASSUME NEW S \in SUBSET Objs, roots \subseteq S, TraceClosed(h, S)
        PROVE  Traced(h, o) \subseteq S
    <3>1. o \in S
      BY <2>2 DEF Reached
    <3> QED BY <3>1, <2>2, <1>2 DEF TraceClosed
  <2> QED BY <2>1, <2>2 DEF Reached
<1> QED BY <1>1, <1>2 DEF TraceClosed

(* Marking reaches nothing outside a set that is closed in that way.       *)
LEMMA ReachedIsLeast ==
  ASSUME NEW h, NEW roots, NEW S \in SUBSET Objs,
         roots \subseteq S, TraceClosed(h, S)
  PROVE  Reached(h, roots) \subseteq S
BY DEF Reached

(* The objects that a mark goes on to are referred to.                     *)
LEMMA TracedIsHeld ==
  ASSUME NEW h, NEW x
  PROVE  /\ Traced(h, x) \subseteq Held(h, x)
         /\ Held(h, x) \subseteq Traced(h, x) \cup {e[1] : e \in h[x].entries}
BY DEF Traced, Held

-----------------------------------------------------------------------------
(* The heap h refers to nothing outside the chain, and its marks are white *)
(* but for the blue objects, which refer to each other only.               *)
Collectable(h, blue) ==
  /\ \A x \in linked : /\ h[x].mark = IF x \in blue THEN "blue" ELSE "white"
                       /\ Held(h, x) \subseteq linked
  /\ \A x \in blue \cap linked : /\ h[x].kind \in {"string", "closure"}
                                 /\ Held(h, x) \subseteq blue \cap linked

(* No key of a survivor is freed and no mark taken off a blue string.      *)
Spares(h, reached, dead) ==
  /\ \A x \in linked \ dead : \A e \in h[x].entries : e[1] \notin dead
  /\ \A x \in reached : ~(h[x].kind = "string" /\ h[x].mark = "blue")

(* One collection of such a heap that spares keys and marks.               *)
LEMMA CollectionIsSafe ==
  ASSUME linked \subseteq Objs,
         NEW h \in [Objs -> Object], NEW roots \in SUBSET linked, NEW blue,
         Collectable(h, blue),
         NEW reached, reached = Reached(h, roots),
         NEW dead, dead = Dead(h, reached), Spares(h, reached, dead)
  PROVE  /\ reached \subseteq linked
         /\ roots \subseteq linked \ dead
         /\ linked \ dead = (reached \cup blue) \cap linked
         /\ \A x \in linked \ dead : Held(h, x) \subseteq linked \ dead
         /\ \A x \in linked \ dead : Collected(h, reached)[x] = h[x]
         /\ \A x \in Objs \ linked : Collected(h, reached)[x] = h[x]
         /\ \A x \in dead : Collected(h, reached)[x] = Free
<1> DEFINE c == Collected(h, reached)
<1> USE DEF Collectable, Spares
<1>1. /\ roots \subseteq reached /\ reached \subseteq Objs
      /\ \A o \in reached : GoesOn(h, o) => Traced(h, o) \subseteq reached
  <2>1. roots \in SUBSET Objs
    OBVIOUS
  <2> QED BY <2>1, ReachedIsClosed DEF TraceClosed
<1>2. reached \subseteq linked
  <2>1. TraceClosed(h, linked)
    BY TracedIsHeld DEF TraceClosed
  <2>2. linked \in SUBSET Objs
    OBVIOUS
  <2> QED BY <2>1, <2>2, ReachedIsLeast
<1>3. ASSUME NEW x \in linked
      PROVE  MarkAfter(h, reached, x) = IF x \in blue THEN "blue"
                                        ELSE IF x \in reached THEN "black" ELSE "white"
  <2>1. CASE x \in blue
    <3>1. h[x].mark = "blue"
      BY <2>1
    <3>2. ~(x \in reached /\ GoesOn(h, x))
      BY <2>1, <3>1 DEF GoesOn, Container
    <3> QED BY <2>1, <3>1, <3>2 DEF MarkAfter
  <2>2. CASE x \notin blue
    <3>1. h[x].mark = "white"
      BY <2>2
    <3> QED BY <2>2, <3>1 DEF MarkAfter, GoesOn
  <2> QED BY <2>1, <2>2
<1>4. linked \ dead = (reached \cup blue) \cap linked /\ dead \subseteq linked
  BY <1>3 DEF Dead
<1>5. roots \subseteq linked \ dead
  BY <1>1, <1>4
<1>6. ASSUME NEW x \in linked \ dead PROVE Held(h, x) \subseteq linked \ dead
  <2>1. CASE x \in blue
    BY <1>4, <2>1
  <2>2. CASE x \notin blue
    <3>1. x \in reached /\ h[x].mark = "white"
      BY <1>4, <2>2
    <3>2. Traced(h, x) \subseteq reached
      BY <1>1, <3>1 DEF GoesOn
    <3>3. \A e \in h[x].entries : e[1] \notin dead
      OBVIOUS
    <3>4. Held(h, x) \subseteq Traced(h, x) \cup {e[1] : e \in h[x].entries}
      BY TracedIsHeld
    <3>5. Held(h, x) \subseteq linked
      OBVIOUS
    <3> QED BY <1>4, <3>2, <3>3, <3>4, <3>5
  <2> QED BY <2>1, <2>2
<1>7. ASSUME NEW x \in linked \ dead PROVE c[x] = h[x]
  <2>0. h[x] \in Object /\ x \in Objs
    OBVIOUS
  <2>1. CASE x \in blue
    <3>1. c[x] = [h[x] EXCEPT !.mark = "blue"] /\ h[x].mark = "blue"
      BY <1>3, <2>0, <2>1 DEF Collected
    <3> HIDE DEF c
    <3> QED BY <2>0, <3>1 DEF Object
  <2>2. CASE x \notin blue
    <3>1. MarkAfter(h, reached, x) = "black" /\ h[x].mark = "white"
      BY <1>3, <1>4, <2>2
    <3>2. c[x] = [h[x] EXCEPT !.mark = "white"]
      BY <2>0, <3>1 DEF Collected
    <3> HIDE DEF c
    <3> QED BY <2>0, <3>1, <3>2 DEF Object
  <2> QED BY <2>1, <2>2
<1>8. ASSUME NEW x \in Objs \ linked PROVE c[x] = h[x]
  <2>1. MarkAfter(h, reached, x) = h[x].mark
    BY <1>2 DEF MarkAfter
  <2>2. c[x] = [h[x] EXCEPT !.mark = h[x].mark]
    BY <1>4, <2>1 DEF Collected
  <2> HIDE DEF c
  <2> QED BY <2>2 DEF Object
<1>9. ASSUME NEW x \in dead PROVE c[x] = Free
  BY <1>4 DEF Collected
<1> QED BY <1>2, <1>4, <1>5, <1>6, <1>7, <1>8, <1>9

-----------------------------------------------------------------------------
(* a2_gc_add.                                                              *)

(* What a caller of a2_gc_add may have written into the heap before, where *)
(* blue are the objects it wants blue.  It may have changed the references *)
(* of other objects, or given o some that are not blue, only if no         *)
(* collection is due.                                                      *)
SafeToAdd(h, o, rs, old, open, half, blue) ==
  /\ Described(h, o)
  /\ h[o].mark = IF o \in blue THEN "blue" ELSE "white"
  /\ h[o].meta = NoObj
  /\ \A x \in Objs \ linked : x # o => h[x] = Free
  /\ \A x \in linked : /\ h[x].meta = heap[x].meta
                       /\ h[x].mark = IF x \in blue THEN "blue" ELSE "white"
                       /\ Held(h, x) \subseteq linked \cup {o}
  /\ \A x \in linked \cup {o} : h[x].kind = "string" => h[x].entries = {}
  /\ Held(h, o) \subseteq linked
  /\ \A x \in blue \cap linked : /\ h[x].kind \in {"string", "closure"}
                                 /\ Held(h, x) \subseteq blue \cap linked
  /\ Due(open) => /\ rs = regs /\ old = stale /\ half = {}
                  /\ Held(h, o) \subseteq blue
                  /\ \A x \in linked : Held(h, x) = Held(heap, x)

(* What it can rely on afterwards.                                         *)
SafelyAdded(h, o, open, names, blue) ==
  /\ o \notin linked /\ o \in linked' /\ linked' \subseteq linked \cup {o}
  /\ ~Due(open) => linked \subseteq linked'
  /\ RefsAlive' /\ MarksInHeap'
  /\ \A x \in linked' : heap'[x] = h[x]
  /\ FreeIsFree'
  /\ (blue \cup code') \cap linked \subseteq linked'
  /\ \A g \in Globals : globals[g] \in linked' \cup {NoObj}
  /\ \A r \in Regs \ stale : regs[r] \in linked' \cup {NoObj}
  /\ \A r \in (stale' \ dangling') \cap Regs : regs[r] \in linked' \cup {NoObj}
  /\ interned' = [s \in Strings |->
                    IF s \in names THEN o
                    ELSE IF interned[s] \in linked' THEN interned[s] ELSE NoObj]
  /\ Due(open) => \A S \in SUBSET Objs :
       /\ RootsOf(regs, globals, Regs) \cup blue \subseteq S
       /\ \A x \in S : Held(heap, x) \subseteq S
       => linked' \cap linked \subseteq S

(* The pieces of GcAdd in a step without a new fault.                      *)
FaultFree(h, o, open, half, names, roots, reached, dead) ==
  /\ heap' = IF Due(open) THEN Collected(h, reached) ELSE h
  /\ linked' = (linked \ dead) \cup {o}
  /\ interned' = [s \in Strings |->
                    IF s \in names THEN o
                    ELSE IF interned[s] \in dead THEN NoObj ELSE interned[s]]
  /\ dangling' = {r \in stale' : r \in dangling \/ regs[r] \in dead}
  /\ wild' = (wild \/ (Due(open) /\ RunsWild(h, reached, half)))
  /\ Due(open) =>
       /\ Spares(h, reached, dead)
       /\ code' \cap dead = {}

LEMMA AddIsFaultFree ==
  ASSUME NEW h, NEW o, NEW rs, NEW old, NEW open, NEW half, NEW names,
         GcAdd(h, o, rs, old, open, half, names), faults' = {}
  PROVE  \E fresh \in SUBSET old :
           LET roots   == RootsOf(rs, globals, (Regs \ old) \cup fresh)
               reached == Reached(h, roots)
               dead    == IF Due(open) THEN Dead(h, reached) ELSE {}
           IN  /\ FaultFree(h, o, open, half, names, roots, reached, dead)
               /\ Due(open) => fresh \cap dangling = {} /\ o \notin roots /\ half = {}
               /\ h[o].meta = NoObj
<1>1. PICK fresh \in SUBSET old, lost \in SUBSET Strings :
        LET roots   == RootsOf(rs, globals, (Regs \ old) \cup fresh)
            reached == Reached(h, roots)
            dead    == IF Due(open) THEN Dead(h, reached) ELSE {}
        IN  /\ heap' = IF Due(open) THEN Collected(h, reached) ELSE h
            /\ linked' = (linked \ dead) \cup {o}
            /\ interned' = [s \in Strings |->
                              IF s \in names THEN o
                              ELSE IF s \in lost \/ interned[s] \in dead THEN NoObj
                              ELSE interned[s]]
            /\ dangling' = {r \in stale' : r \in dangling \/ regs[r] \in dead}
            /\ wild' = (wild \/ (Due(open) /\ RunsWild(h, reached, half)))
            /\ faults' = faults
                 \cup (IF Due(open)
                       THEN Struck(h, o, roots, half, fresh, reached, dead) ELSE {})
                 \cup (IF lost # {} THEN {"name"} ELSE {})
                 \cup (IF h[o].meta # NoObj THEN {"meta"} ELSE {})
  BY Zenon DEF GcAdd
<1> DEFINE roots   == RootsOf(rs, globals, (Regs \ old) \cup fresh)
           reached == Reached(h, roots)
           dead    == IF Due(open) THEN Dead(h, reached) ELSE {}
           struck  == Struck(h, o, roots, half, fresh, reached, dead)
<1>2. /\ heap' = IF Due(open) THEN Collected(h, reached) ELSE h
      /\ linked' = (linked \ dead) \cup {o}
      /\ interned' = [s \in Strings |->
                        IF s \in names THEN o
                        ELSE IF s \in lost \/ interned[s] \in dead THEN NoObj
                        ELSE interned[s]]
      /\ dangling' = {r \in stale' : r \in dangling \/ regs[r] \in dead}
      /\ wild' = (wild \/ (Due(open) /\ RunsWild(h, reached, half)))
      /\ faults' = faults
           \cup (IF Due(open) THEN struck ELSE {})
           \cup (IF lost # {} THEN {"name"} ELSE {})
           \cup (IF h[o].meta # NoObj THEN {"meta"} ELSE {})
  BY <1>1, Zenon
<1> HIDE DEF struck
<1>3. lost = {} /\ h[o].meta = NoObj /\ (Due(open) => struck = {})
  <2> HIDE DEF roots, reached, dead
  <2> QED BY <1>2
<1> HIDE DEF dead
<1>4. interned' = [s \in Strings |->
                     IF s \in names THEN o
                     ELSE IF interned[s] \in dead THEN NoObj ELSE interned[s]]
  BY <1>2, <1>3
<1> HIDE DEF roots, reached
<1>5. ASSUME Due(open)
      PROVE  /\ Spares(h, reached, dead)
             /\ code' \cap dead = {}
             /\ fresh \cap dangling = {} /\ o \notin roots /\ half = {}
  <2>1. \A f \in AllFaults : f \notin struck
    BY <1>3, <1>5
  <2>2. {"key", "code", "blue", "creation", "closing", "register"} \subseteq AllFaults
    BY DEF AllFaults
  <2> QED BY <2>1, <2>2 DEF struck, Struck, Spares
<1>6. FaultFree(h, o, open, half, names, roots, reached, dead)
  BY <1>2, <1>4, <1>5 DEF FaultFree
<1> QED BY <1>3, <1>5, <1>6 DEF roots, reached, dead

(* What such a step rules out.                                             *)
LEMMA AddRulesOut ==
  ASSUME NEW h, NEW o, NEW rs, NEW old, NEW open, NEW half, NEW names,
         GcAdd(h, o, rs, old, open, half, names), faults' = {}
  PROVE  /\ h[o].meta = NoObj
         /\ Due(open) => half = {} /\ o \notin RootsOf(rs, globals, Regs \ old)
<1>1. PICK fresh \in SUBSET old :
        LET roots   == RootsOf(rs, globals, (Regs \ old) \cup fresh)
            reached == Reached(h, roots)
            dead    == IF Due(open) THEN Dead(h, reached) ELSE {}
        IN  /\ FaultFree(h, o, open, half, names, roots, reached, dead)
            /\ Due(open) => fresh \cap dangling = {} /\ o \notin roots /\ half = {}
            /\ h[o].meta = NoObj
  BY AddIsFaultFree, Zenon
<1>2. /\ h[o].meta = NoObj
      /\ Due(open) => /\ o \notin RootsOf(rs, globals, (Regs \ old) \cup fresh)
                      /\ half = {}
  BY <1>1, Zenon
<1>3. RootsOf(rs, globals, Regs \ old)
        \subseteq RootsOf(rs, globals, (Regs \ old) \cup fresh)
  BY DEF RootsOf
<1> QED BY <1>2, <1>3

(* Adding o, described in the new heap h, without a new fault.             *)
LEMMA AddIsSafe ==
  ASSUME BaseInv, LiveInv, NEW o \in Objs, NEW h, NEW rs, NEW old,
         NEW open \in BOOLEAN, NEW half, NEW names, NEW blue,
         SafeToAdd(h, o, rs, old, open, half, blue),
         GcAdd(h, o, rs, old, open, half, names), faults' = {}
  PROVE  SafelyAdded(h, o, open, names, blue)
<1>1. PICK fresh \in SUBSET old :
        LET roots   == RootsOf(rs, globals, (Regs \ old) \cup fresh)
            reached == Reached(h, roots)
            dead    == IF Due(open) THEN Dead(h, reached) ELSE {}
        IN  /\ FaultFree(h, o, open, half, names, roots, reached, dead)
            /\ Due(open) => fresh \cap dangling = {} /\ o \notin roots /\ half = {}
            /\ h[o].meta = NoObj
  BY AddIsFaultFree, Zenon
<1> DEFINE roots   == RootsOf(rs, globals, (Regs \ old) \cup fresh)
           reached == Reached(h, roots)
           dead    == IF Due(open) THEN Dead(h, reached) ELSE {}
<1>2. /\ FaultFree(h, o, open, half, names, roots, reached, dead)
      /\ Due(open) => fresh \cap dangling = {}
  BY <1>1, Zenon
<1>3. dead \subseteq linked /\ (~Due(open) => dead = {})
  BY DEF Dead
<1>4. /\ linked \subseteq Objs /\ heap \in [Objs -> Object]
      /\ regs \in [Regs -> Refs] /\ dangling \subseteq stale /\ stale \subseteq Regs
      /\ interned \in [Strings -> Refs] /\ globals \in [Globals -> Refs]
      /\ linked = {x \in Objs : heap[x].kind # "free"}
  BY DEF BaseInv, TypeOK, CountIsChain
<1>5. /\ h \in [Objs -> Object] /\ h[o].kind # "free" /\ o \notin linked
      /\ \A x \in Objs \ {o} : h[x].kind = heap[x].kind
  BY <1>4 DEF SafeToAdd, Described, FreeObjects
<1>6. /\ \A g \in Globals : globals[g] \in linked \cup {NoObj}
      /\ \A r \in Regs \ dangling : regs[r] \in linked \cup {NoObj}
      /\ \A x \in linked : Held(heap, x) \subseteq linked
      /\ NoObj \notin Objs /\ ~wild
  BY NoneAssumption DEF LiveInv, RootsAlive, RefsAlive, RootsOf, MarksInHeap
<1>7. ASSUME Due(open)
      PROVE  /\ rs = regs /\ old = stale /\ half = {} /\ roots \subseteq linked
             /\ \A x \in linked : Held(h, x) = Held(heap, x)
             /\ Held(h, o) \subseteq blue \cap linked
  <2>1. /\ rs = regs /\ old = stale /\ half = {} /\ Held(h, o) \subseteq blue \cap linked
        /\ \A x \in linked : Held(h, x) = Held(heap, x)
    BY <1>7 DEF SafeToAdd
  <2>2. (Regs \ old) \cup fresh \subseteq Regs \ dangling
    BY <1>2, <1>4, <1>7, <2>1
  <2>3. roots \subseteq linked
    BY <1>6, <2>1, <2>2 DEF RootsOf
  <2> QED BY <2>1, <2>3
<1> HIDE DEF roots
<1>8. ASSUME Due(open)
      PROVE  /\ reached \subseteq linked
             /\ roots \subseteq linked \ dead
             /\ linked \ dead = (reached \cup blue) \cap linked
             /\ \A x \in linked \ dead : Held(h, x) \subseteq linked \ dead
             /\ \A x \in linked \ dead : heap'[x] = h[x]
             /\ \A x \in Objs \ linked : heap'[x] = h[x]
             /\ \A x \in dead : heap'[x] = Free
  <2>1. heap' = Collected(h, reached) /\ Spares(h, reached, dead)
    BY <1>2, <1>8 DEF FaultFree
  <2>2. dead = Dead(h, reached) /\ reached = Reached(h, roots)
    BY <1>8
  <2>3. roots \in SUBSET linked
    BY <1>7, <1>8
  <2>4. \A x \in linked : Held(h, x) \subseteq linked
    BY <1>6, <1>7, <1>8
  <2>5. Collectable(h, blue)
    BY <2>4 DEF Collectable, SafeToAdd
  <2> HIDE DEF dead, reached
  <2>6. /\ reached \subseteq linked
        /\ roots \subseteq linked \ dead
        /\ linked \ dead = (reached \cup blue) \cap linked
        /\ \A x \in linked \ dead : Held(h, x) \subseteq linked \ dead
        /\ \A x \in linked \ dead : Collected(h, reached)[x] = h[x]
        /\ \A x \in Objs \ linked : Collected(h, reached)[x] = h[x]
        /\ \A x \in dead : Collected(h, reached)[x] = Free
    BY <1>4, <1>5, <2>1, <2>2, <2>3, <2>5, CollectionIsSafe
  <2> QED BY <2>1, <2>6
<1> HIDE DEF dead, reached
<1>9. linked' = (linked \ dead) \cup {o}
  BY <1>2 DEF FaultFree
<1>10. ~Due(open) => heap' = h
  BY <1>2 DEF FaultFree
<1>11. \A x \in linked' : heap'[x] = h[x]
  <2>1. \A x \in linked' : x \in linked \ dead \/ x = o
    BY <1>9
  <2>2. CASE Due(open)
    BY <1>5, <1>8, <2>1, <2>2
  <2>3. CASE ~Due(open)
    BY <1>10, <2>3
  <2> QED BY <2>2, <2>3
<1>12. FreeIsFree'
  <2>1. \A x \in Objs \ linked : x # o => h[x] = Free
    BY DEF SafeToAdd
  <2>2. \A x \in Objs \ linked' : heap'[x] = Free
    <3>1. CASE Due(open)
      BY <1>8, <1>9, <2>1, <3>1
    <3>2. CASE ~Due(open)
      BY <1>3, <1>9, <1>10, <2>1, <3>2
    <3> QED BY <3>1, <3>2
  <2> QED BY <2>2 DEF FreeIsFree
<1>13. RefsAlive'
  <2>1. ASSUME NEW x \in linked' PROVE Held(h, x) \subseteq linked'
    <3>1. CASE x = o
      <4>1. Held(h, o) \subseteq linked
        BY DEF SafeToAdd
      <4>2. CASE Due(open)
        BY <1>7, <1>8, <1>9, <3>1, <4>2
      <4>3. CASE ~Due(open)
        BY <1>3, <1>9, <3>1, <4>1, <4>3
      <4> QED BY <4>2, <4>3
    <3>2. CASE x # o
      <4>1. x \in linked \ dead
        BY <1>9, <3>2
      <4>2. Held(h, x) \subseteq linked \cup {o}
        BY <4>1 DEF SafeToAdd
      <4>3. CASE Due(open)
        BY <1>8, <1>9, <4>1, <4>3
      <4>4. CASE ~Due(open)
        BY <1>3, <1>9, <4>2, <4>4
      <4> QED BY <4>3, <4>4
    <3> QED BY <3>1, <3>2
  <2>2. \A x \in linked' : Held(heap', x) = Held(h, x)
    BY <1>11 DEF Held
  <2> QED BY <2>1, <2>2 DEF RefsAlive
<1>14. MarksInHeap'
  <2>1. wild' = (wild \/ (Due(open) /\ RunsWild(h, reached, half)))
    BY <1>2 DEF FaultFree
  <2>2. ASSUME Due(open) PROVE ~RunsWild(h, reached, half)
    <3>1. half = {} /\ \A x \in reached : h[x].kind # "free"
      BY <1>4, <1>5, <1>7, <1>8, <2>2
    <3> QED BY <3>1 DEF RunsWild
  <2> QED BY <1>6, <2>1, <2>2 DEF MarksInHeap
<1>15. blue \cap linked \subseteq linked' /\ code' \cap linked \subseteq linked'
  <2>1. CASE Due(open)
    <3>1. code' \cap dead = {}
      BY <1>2, <2>1 DEF FaultFree
    <3> QED BY <1>8, <1>9, <2>1, <3>1
  <2>2. CASE ~Due(open)
    BY <1>3, <1>9, <2>2
  <2> QED BY <2>1, <2>2
<1>16. /\ \A g \in Globals : globals[g] \in linked' \cup {NoObj}
       /\ \A r \in Regs \ stale : regs[r] \in linked' \cup {NoObj}
  <2>1. CASE Due(open)
    <3>1. /\ \A g \in Globals : globals[g] # NoObj => globals[g] \in roots
          /\ \A r \in Regs \ stale : regs[r] # NoObj => regs[r] \in roots
      BY <1>7, <2>1 DEF roots, RootsOf
    <3>2. roots \subseteq linked \ dead
      BY <1>8, <2>1
    <3> QED BY <1>9, <3>1, <3>2
  <2>2. CASE ~Due(open)
    BY <1>3, <1>4, <1>6, <1>9, <2>2
  <2> QED BY <2>1, <2>2
<1>17. \A r \in (stale' \ dangling') \cap Regs : regs[r] \in linked' \cup {NoObj}
  <2>1. dangling' = {r \in stale' : r \in dangling \/ regs[r] \in dead}
    BY <1>2 DEF FaultFree
  <2> QED BY <1>6, <1>9, <2>1
<1>18. interned' = [s \in Strings |->
                      IF s \in names THEN o
                      ELSE IF interned[s] \in linked' THEN interned[s] ELSE NoObj]
  <2>1. interned' = [s \in Strings |->
                       IF s \in names THEN o
                       ELSE IF interned[s] \in dead THEN NoObj ELSE interned[s]]
    BY <1>2 DEF FaultFree
  <2>2. \A s \in Strings : interned[s] \in linked \cup {NoObj}
    BY DEF LiveInv, Interned
  <2>3. ASSUME NEW s \in Strings
        PROVE  interned[s] \in linked' <=>
                 interned[s] \notin dead /\ interned[s] # NoObj
    <3>1. interned[s] \in linked \cup {NoObj} /\ NoObj \notin linked /\ o # NoObj
      BY <1>4, <1>6, <2>2
    <3>2. interned[s] # o
      BY <1>5, <3>1
    <3> QED BY <1>3, <1>9, <3>1, <3>2
  <2>4. \A s \in Strings :
          (IF interned[s] \in dead THEN NoObj ELSE interned[s])
            = IF interned[s] \in linked' THEN interned[s] ELSE NoObj
    BY <2>3
  <2> QED BY <2>1, <2>4
<1>19. ASSUME Due(open), NEW S \in SUBSET Objs,
              RootsOf(regs, globals, Regs) \cup blue \subseteq S,
              \A x \in S : Held(heap, x) \subseteq S
       PROVE  linked' \cap linked \subseteq S
  <2> DEFINE T == S \cap linked
  <2>1. roots \subseteq RootsOf(regs, globals, Regs)
    <3>1. (Regs \ old) \cup fresh \subseteq Regs /\ rs = regs
      BY <1>4, <1>7, <1>19
    <3> QED BY <3>1 DEF roots, RootsOf
  <2>2. roots \subseteq T /\ T \in SUBSET Objs
    BY <1>4, <1>7, <1>19, <2>1
  <2>3. TraceClosed(h, T)
    <3>1. ASSUME NEW x \in T PROVE Traced(h, x) \subseteq T
      <4>1. Traced(h, x) \subseteq Held(heap, x)
        BY <1>7, <1>19, TracedIsHeld
      <4>2. Held(heap, x) \subseteq T
        BY <1>6, <1>19
      <4> QED BY <4>1, <4>2
    <3> QED BY <3>1 DEF TraceClosed
  <2> HIDE DEF T
  <2>4. reached \subseteq T
    BY <2>2, <2>3, ReachedIsLeast DEF reached
  <2>5. linked \ dead = (reached \cup blue) \cap linked
    BY <1>8, <1>19
  <2> QED BY <1>5, <1>9, <1>19, <2>4, <2>5 DEF T
<1>20. ~Due(open) => linked \subseteq linked'
  BY <1>3, <1>9
<1>21. o \in linked' /\ linked' \subseteq linked \cup {o}
  BY <1>9
<1>22. (blue \cup code') \cap linked \subseteq linked'
  BY <1>15
<1> QED BY <1>5, <1>11, <1>12, <1>13, <1>14, <1>16, <1>17, <1>18, <1>19, <1>20,
           <1>21, <1>22 DEF SafelyAdded

-----------------------------------------------------------------------------
(* What a step without a new fault does.                                   *)

(* The body of FreesExactlyGarbage.                                        *)
FreesGarbage ==
  IF Collects
  THEN LiveBy(Regs \ stale) \cap linked \subseteq linked'
         /\ linked' \cap linked \subseteq LiveBy(Regs)
  ELSE linked \subseteq linked'

StepIsSafe == LiveInv' /\ FreesGarbage

(* The next chunk, with its constants, is what h has blue.                 *)
ChunkIn(h, o, blue) ==
  IF chunk' = NoObj THEN blue = {}
  ELSE /\ chunk' \in linked \cup {o}
       /\ h[chunk'].kind = "closure" /\ h[chunk'].open = NoReg
       /\ blue = {chunk'} \cup Held(h, chunk')
       /\ \A x \in Held(h, chunk') : h[x].kind = "string"

(* What else a step does that adds o.                                      *)
Around(h, o, open, names, blue) ==
  /\ RestTyped' /\ gcOpen' = open /\ globals' = globals
  /\ \A r \in Regs : \/ regs'[r] = o /\ r \notin stale'
                     \/ regs'[r] = regs[r] /\ (r \in stale => r \in stale')
  /\ ChunkIn(h, o, blue)
  /\ ~gcOpen' => chunk' = NoObj
  /\ code' \subseteq linked \cup {o} /\ \A c \in code' : h[c].kind = "string"
  /\ \A c \in linked \cup {o} : h[c].kind = "closure" => h[c].open \notin stale'
  /\ \/ h[o].kind = "string" /\ \E s \in Strings : names = {s} /\ interned[s] = NoObj
     \/ h[o].kind # "string" /\ names = {}

(* What is blue next.                                                      *)
LEMMA NextBlue ==
  ASSUME NEW o, NEW h, NEW open, NEW names, NEW blue,
         SafelyAdded(h, o, open, names, blue), ChunkIn(h, o, blue)
  PROVE  /\ Blue' = blue /\ blue \subseteq linked' /\ ({chunk'} \ {NoObj}) \subseteq linked'
         /\ chunk' # NoObj => /\ chunk' \in linked' /\ heap'[chunk'] = h[chunk']
                              /\ Held(heap', chunk') = Held(h, chunk')
<1>1. CASE chunk' = NoObj
  BY <1>1 DEF ChunkIn, Blue
<1>2. CASE chunk' # NoObj
  <2>1. chunk' \in linked \cup {o} /\ blue = {chunk'} \cup Held(h, chunk')
    BY <1>2 DEF ChunkIn
  <2>2. o \in linked' /\ blue \cap linked \subseteq linked' /\ RefsAlive'
        /\ \A x \in linked' : heap'[x] = h[x]
    BY DEF SafelyAdded
  <2>3. chunk' \in linked' /\ heap'[chunk'] = h[chunk']
    BY <2>1, <2>2
  <2>4. Held(heap', chunk') = Held(h, chunk')
    BY <2>3 DEF Held
  <2>5. Held(h, chunk') \subseteq linked'
    BY <2>2, <2>3, <2>4 DEF RefsAlive
  <2>6. Blue' = {chunk'} \cup Held(heap', chunk')
    BY <1>2 DEF Blue
  <2> QED BY <2>1, <2>3, <2>4, <2>5, <2>6
<1> QED BY <1>1, <1>2

(* A new string is entered under a content that had no string; a string    *)
(* that is freed leaves the table with it.                                 *)
LEMMA NextInterned ==
  ASSUME BaseInv, LiveInv, NEW o \in Objs, NEW h, NEW open, NEW names, NEW blue,
         SafelyAdded(h, o, open, names, blue),
         \A x \in Objs \ {o} : h[x].kind = heap[x].kind,
         \/ h[o].kind = "string" /\ \E s \in Strings : names = {s} /\ interned[s] = NoObj
         \/ h[o].kind # "string" /\ names = {}
  PROVE  Interned'
<1>1. /\ o \notin linked /\ o \in linked' /\ linked' \subseteq linked \cup {o}
      /\ \A x \in linked' : heap'[x] = h[x]
      /\ interned' = [s \in Strings |->
                        IF s \in names THEN o
                        ELSE IF interned[s] \in linked' THEN interned[s] ELSE NoObj]
  BY DEF SafelyAdded
<1>2. linked \subseteq Objs /\ o # NoObj /\ NoObj \notin linked
  BY NoneAssumption DEF BaseInv, TypeOK
<1>3. /\ \A s \in Strings : interned[s] # NoObj =>
           interned[s] \in linked /\ heap[interned[s]].kind = "string"
      /\ \A x \in linked : heap[x].kind = "string" =>
           \E s \in Strings : /\ interned[s] = x
                              /\ \A t \in Strings \ {s} : interned[t] # x
  BY DEF LiveInv, Interned
<1>4. \A x \in linked' \ {o} : x \in linked /\ heap'[x].kind = heap[x].kind
  BY <1>1, <1>2
<1>5. ASSUME NEW s \in Strings, interned'[s] # NoObj
      PROVE  interned'[s] \in linked' /\ heap'[interned'[s]].kind = "string"
  <2>1. CASE s \in names
    <3>1. h[o].kind = "string" /\ interned'[s] = o
      BY <1>1, <2>1
    <3> QED BY <1>1, <3>1
  <2>2. CASE s \notin names
    <3>1. interned'[s] = interned[s] /\ interned[s] \in linked'
      BY <1>1, <1>5, <2>2
    <3>2. interned[s] \in linked /\ heap[interned[s]].kind = "string"
      BY <1>3, <1>5, <3>1
    <3> QED BY <1>1, <1>4, <3>1, <3>2
  <2> QED BY <2>1, <2>2
<1>6. ASSUME NEW x \in linked', heap'[x].kind = "string"
      PROVE  \E s \in Strings : /\ interned'[s] = x
                                /\ \A t \in Strings \ {s} : interned'[t] # x
  <2>1. CASE x = o
    <3>1. PICK s \in Strings : names = {s}
      BY <1>1, <1>6, <2>1
    <3>2. interned'[s] = o
      BY <1>1, <3>1
    <3>3. \A t \in Strings \ {s} : interned'[t] \in {NoObj, interned[t]}
      BY <1>1, <3>1
    <3>4. \A t \in Strings : interned[t] # o
      BY <1>1, <1>2, <1>3
    <3> QED BY <1>2, <2>1, <3>2, <3>3, <3>4
  <2>2. CASE x # o
    <3>1. x \in linked /\ heap[x].kind = "string" /\ x # NoObj
      BY <1>2, <1>4, <1>6, <2>2
    <3>2. PICK s \in Strings : /\ interned[s] = x
                               /\ \A t \in Strings \ {s} : interned[t] # x
      BY <1>3, <3>1
    <3>3. s \notin names
      BY <3>1, <3>2
    <3>4. interned'[s] = x
      BY <1>1, <3>1, <3>2, <3>3
    <3>5. \A t \in Strings \ {s} : interned'[t] \in {o, NoObj, interned[t]}
      BY <1>1
    <3> QED BY <2>2, <3>1, <3>2, <3>4, <3>5
  <2> QED BY <2>1, <2>2
<1> QED BY <1>5, <1>6 DEF Interned

(* Adding an object keeps the invariant, and frees garbage only.           *)
LEMMA AdditionIsSafe ==
  ASSUME BaseInv, LiveInv, NEW o \in Objs, NEW h, NEW rs, NEW old,
         NEW open \in BOOLEAN, NEW half, NEW names, NEW blue,
         SafeToAdd(h, o, rs, old, open, half, blue),
         GcAdd(h, o, rs, old, open, half, names), faults' = {},
         Around(h, o, open, names, blue)
  PROVE  StepIsSafe
<1>1. SafelyAdded(h, o, open, names, blue)
  BY AddIsSafe
<1>2. /\ Blue' = blue /\ blue \subseteq linked' /\ ({chunk'} \ {NoObj}) \subseteq linked'
      /\ chunk' # NoObj => /\ chunk' \in linked' /\ heap'[chunk'] = h[chunk']
                           /\ Held(heap', chunk') = Held(h, chunk')
  BY <1>1, NextBlue DEF Around
<1>3. /\ o \notin linked /\ o \in linked' /\ linked' \subseteq linked \cup {o}
      /\ ~Due(open) => linked \subseteq linked'
      /\ RefsAlive' /\ MarksInHeap' /\ FreeIsFree'
      /\ \A x \in linked' : heap'[x] = h[x]
      /\ code' \cap linked \subseteq linked'
  BY <1>1 DEF SafelyAdded
<1>4. /\ linked \subseteq Objs /\ dangling \subseteq stale
  BY DEF BaseInv, TypeOK
<1>5. \A x \in Objs \ {o} : h[x].kind = heap[x].kind
  BY DEF SafeToAdd, Described
<1>6. RootsAlive'
  <2>1. ASSUME NEW r \in Regs \ dangling'
        PROVE  regs'[r] \in linked' \cup {NoObj}
    <3>1. CASE regs'[r] = o
      BY <1>3, <3>1
    <3>2. CASE regs'[r] = regs[r] /\ r \in stale'
      BY <1>1, <3>2 DEF SafelyAdded
    <3>3. CASE regs'[r] = regs[r] /\ r \notin stale
      BY <1>1, <3>3 DEF SafelyAdded
    <3> QED BY <3>1, <3>2, <3>3 DEF Around
  <2>2. \A g \in Globals : globals'[g] \in linked' \cup {NoObj}
    BY <1>1 DEF SafelyAdded, Around
  <2>3. RootsOf(regs', globals', Regs \ dangling') \subseteq linked'
    BY <2>1, <2>2 DEF RootsOf
  <2>4. code' \subseteq linked'
    BY <1>3 DEF Around
  <2> QED BY <1>2, <2>3, <2>4 DEF RootsAlive
<1>7. MarksAreClean'
  <2>1. ASSUME NEW x \in linked'
        PROVE  heap'[x].mark = IF x \in blue THEN "blue" ELSE "white"
    <3>1. h[x].mark = IF x \in blue THEN "blue" ELSE "white"
      BY <1>3 DEF SafeToAdd
    <3> QED BY <1>3, <3>1
  <2> QED BY <1>2, <2>1 DEF MarksAreClean
<1>8. ChunkIsFlat'
  <2> SUFFICES ASSUME chunk' # NoObj
               PROVE  /\ heap'[chunk'].kind = "closure" /\ heap'[chunk'].open = NoReg
                      /\ \A x \in Held(heap', chunk') : heap'[x].kind = "string"
    BY DEF ChunkIsFlat
  <2>1. /\ h[chunk'].kind = "closure" /\ h[chunk'].open = NoReg
        /\ blue = {chunk'} \cup Held(h, chunk')
        /\ \A x \in Held(h, chunk') : h[x].kind = "string"
    BY DEF Around, ChunkIn
  <2>2. \A x \in Held(h, chunk') : heap'[x] = h[x]
    BY <1>2, <1>3, <2>1
  <2> QED BY <1>2, <2>1, <2>2
<1>9. StringsAreBare'
  <2>1. \A x \in linked \cup {o} : h[x].kind = "string" => h[x].entries = {}
    BY DEF SafeToAdd
  <2> QED BY <1>3, <2>1 DEF StringsAreBare
<1>10. CodeIsStrings'
  <2>1. code' \subseteq linked' /\ \A c \in code' : h[c].kind = "string"
    BY <1>3 DEF Around
  <2> QED BY <1>3, <2>1 DEF CodeIsStrings
<1>11. Interned'
  <2>1. \/ h[o].kind = "string" /\ \E s \in Strings : names = {s} /\ interned[s] = NoObj
        \/ h[o].kind # "string" /\ names = {}
    BY DEF Around
  <2> QED BY <1>1, <1>5, <2>1, NextInterned
<1>12. MetaLeadsToMap'
  <2> SUFFICES ASSUME NEW x \in linked', heap'[x].kind = "map", heap'[x].meta # NoObj
               PROVE  heap'[heap'[x].meta].kind = "map"
    BY DEF MetaLeadsToMap
  <2>1. h[o].meta = NoObj /\ \A y \in linked : h[y].meta = heap[y].meta
    BY DEF SafeToAdd
  <2>2. /\ x \in linked /\ heap[x].kind = "map"
        /\ heap'[x].meta = heap[x].meta
    BY <1>3, <1>4, <1>5, <2>1
  <2> DEFINE m == heap[x].meta
  <2>3. m \in Held(heap, x) /\ m \in Held(heap', x)
    BY <2>2 DEF Held
  <2>4. m \in linked /\ heap[m].kind = "map" /\ m \in linked'
    BY <1>3, <2>2, <2>3 DEF LiveInv, RefsAlive, MetaLeadsToMap
  <2> HIDE DEF m
  <2>5. m \in Objs \ {o} /\ heap'[m] = h[m]
    BY <1>3, <1>4, <2>4
  <2>6. heap'[m].kind = "map"
    BY <1>5, <2>4, <2>5
  <2> QED BY <2>2, <2>6 DEF m
<1>13. CompileApart' /\ SharedAreWritten'
  BY <1>3 DEF Around, CompileApart, SharedAreWritten
<1>14. FreesGarbage
  <2>1. CASE Collects
    <3>1. Due(open)
      BY <2>1 DEF Collects, Due, Around
    <3>2. \A x \in linked : Held(h, x) = Held(heap, x)
      BY <3>1 DEF SafeToAdd
    <3>3. RootsOf(regs, globals, Regs \ stale) \cup Blue' \subseteq linked'
      BY <1>1, <1>2 DEF SafelyAdded, RootsOf
    <3>4. ASSUME NEW x \in linked' PROVE Held(heap, x) \subseteq linked'
      <4>1. CASE x = o
        <5>1. heap[o] = Free
          BY <1>3 DEF LiveInv, FreeIsFree
        <5> QED BY <4>1, <5>1 DEF Held, Free
      <4>2. CASE x # o
        <5>1. Held(heap', x) = Held(h, x) /\ x \in linked
          BY <1>3, <4>2 DEF Held
        <5> QED BY <1>3, <3>2, <5>1 DEF RefsAlive
      <4> QED BY <4>1, <4>2
    <3>5. linked' \in SUBSET Objs
      BY <1>3, <1>4
    <3>6. LiveBy(Regs \ stale) \subseteq linked'
      BY <3>3, <3>4, <3>5 DEF LiveBy, Live
    <3>7. linked' \cap linked \subseteq LiveBy(Regs)
      <4>1. \A S \in SUBSET Objs :
              /\ RootsOf(regs, globals, Regs) \cup Blue' \subseteq S
              /\ \A x \in S : Held(heap, x) \subseteq S
              => linked' \cap linked \subseteq S
        BY <1>1, <1>2, <3>1 DEF SafelyAdded
      <4> QED BY <1>4, <4>1 DEF LiveBy, Live
    <3> QED BY <2>1, <3>6, <3>7 DEF FreesGarbage
  <2>2. CASE ~Collects
    <3>1. ~Due(open)
      BY <1>3, <2>2 DEF Collects, Due, Around
    <3> QED BY <1>3, <2>2, <3>1 DEF FreesGarbage
  <2> QED BY <2>1, <2>2
<1> QED BY <1>3, <1>6, <1>7, <1>8, <1>9, <1>10, <1>11, <1>12, <1>13, <1>14
        DEF LiveInv, StepIsSafe

-----------------------------------------------------------------------------
(* The actions that create an object.                                      *)

(* The blue objects are in the chain, of the two kinds, and refer to each  *)
(* other only.                                                             *)
LEMMA BlueIsAlive ==
  ASSUME BaseInv, LiveInv
  PROVE  /\ Blue \subseteq linked
         /\ \A x \in Blue : /\ heap[x].kind \in {"string", "closure"}
                            /\ heap[x].open = NoReg \/ heap[x].kind = "string"
                            /\ Held(heap, x) \subseteq Blue
<1>1. CASE chunk = NoObj
  BY <1>1 DEF Blue
<1>2. CASE chunk # NoObj
  <2>1. Blue = {chunk} \cup Held(heap, chunk)
    BY <1>2 DEF Blue
  <2>2. chunk \in linked /\ Held(heap, chunk) \subseteq linked
    BY <1>2 DEF LiveInv, RootsAlive, RefsAlive
  <2>3. /\ heap[chunk].kind = "closure" /\ heap[chunk].open = NoReg
        /\ \A x \in Held(heap, chunk) : heap[x].kind = "string"
    BY <1>2 DEF LiveInv, ChunkIsFlat
  <2>4. \A x \in Held(heap, chunk) : heap[x].entries = {}
    BY <2>2, <2>3 DEF LiveInv, StringsAreBare
  <2>5. \A x \in Held(heap, chunk) : Held(heap, x) = {}
    BY <2>3, <2>4 DEF Held
  <2> QED BY <2>1, <2>2, <2>3, <2>5
<1> QED BY <1>1, <1>2

(* A chunk goes on while something else is added.                          *)
LEMMA ChunkStays ==
  ASSUME BaseInv, LiveInv, NEW o \in Objs, NEW h, chunk' = chunk,
         chunk # NoObj => h[chunk] = heap[chunk],
         \A x \in Blue : h[x].kind = heap[x].kind
  PROVE  ChunkIn(h, o, Blue)
<1>1. CASE chunk = NoObj
  BY <1>1 DEF ChunkIn, Blue
<1>2. CASE chunk # NoObj
  <2>1. Blue = {chunk} \cup Held(heap, chunk) /\ Held(h, chunk) = Held(heap, chunk)
    BY <1>2 DEF Blue, Held
  <2>2. /\ heap[chunk].kind = "closure" /\ heap[chunk].open = NoReg
        /\ \A x \in Held(heap, chunk) : heap[x].kind = "string"
    BY <1>2 DEF LiveInv, ChunkIsFlat
  <2>3. chunk \in linked
    BY <1>2 DEF LiveInv, RootsAlive
  <2> QED BY <1>2, <2>1, <2>2, <2>3 DEF ChunkIn
<1> QED BY <1>1, <1>2

(* The heap with a new object o that has S as its constants.               *)
WithNew(o, knd, S, op) ==
  [heap EXCEPT ![o] = NewObject(knd, {<<NoObj, c>> : c \in S}, NoObj, op)]

(* A new object refers to live ones; where a collection is due, to none.   *)
NewFits(o, knd, S, op, rs, old, open) ==
  /\ o \in FreeObjects /\ knd \in Kinds \ {"free"} /\ S \subseteq linked
  /\ op \in Regs \cup {NoReg}
  /\ knd = "string" => S = {}
  /\ Due(open) => rs = regs /\ old = stale /\ S = {}

(* It can be added to a heap that is otherwise unchanged.                  *)
LEMMA NewIsSafe ==
  ASSUME BaseInv, LiveInv, NEW o \in Objs, NEW knd, NEW S, NEW op, NEW rs, NEW old,
         NEW open \in BOOLEAN, NewFits(o, knd, S, op, rs, old, open)
  PROVE  /\ SafeToAdd(WithNew(o, knd, S, op), o, rs, old, open, {}, Blue)
         /\ WithNew(o, knd, S, op)[o].kind = knd
         /\ WithNew(o, knd, S, op)[o].open = op
         /\ \A x \in Objs \ {o} : WithNew(o, knd, S, op)[x] = heap[x]
<1> DEFINE ents == {<<NoObj, c>> : c \in S}
           n == NewObject(knd, ents, NoObj, op)
           h == WithNew(o, knd, S, op)
<1> USE DEF NewFits
<1>1. linked \subseteq Objs /\ o \notin linked
  BY DEF BaseInv, TypeOK, CountIsChain, FreeObjects
<1>2. ents \in SUBSET (Refs \X Refs) /\ NoObj \in Refs
  BY <1>1, ConstantsTyped DEF Refs
<1>3. (\A e \in ents : e[1] = NoObj /\ e[2] \in S) /\ (S = {} => ents = {})
  OBVIOUS
<1> HIDE DEF ents
<1>4. /\ n.kind = knd /\ n.mark = "white" /\ n.entries = ents /\ n.meta = NoObj
      /\ n.open = op
  BY <1>2, NewObjectFields
<1>5. Described(h, o) /\ h[o] = n /\ \A x \in Objs \ {o} : h[x] = heap[x]
  BY <1>2, NewIsDescribed DEF BaseInv, WithNew, ents
<1> HIDE DEF n, h
<1>6. Held(h, o) \subseteq S
  BY <1>3, <1>4, <1>5 DEF Held
<1>7. \A x \in linked : h[x] = heap[x] /\ Held(h, x) = Held(heap, x)
  BY <1>1, <1>5 DEF Held
<1>8. o \notin Blue
  BY <1>1, BlueIsAlive
<1>9. \A x \in linked : /\ h[x].meta = heap[x].meta
                        /\ h[x].mark = IF x \in Blue THEN "blue" ELSE "white"
                        /\ Held(h, x) \subseteq linked \cup {o}
  BY <1>7 DEF LiveInv, MarksAreClean, RefsAlive
<1>10. \A x \in linked \cup {o} : h[x].kind = "string" => h[x].entries = {}
  <2>1. knd = "string" => h[o].entries = {}
    BY <1>3, <1>4, <1>5
  <2> QED BY <1>4, <1>5, <1>7, <2>1 DEF LiveInv, StringsAreBare
<1>11. \A x \in Blue \cap linked : /\ h[x].kind \in {"string", "closure"}
                                   /\ Held(h, x) \subseteq Blue \cap linked
  BY <1>7, BlueIsAlive
<1>12. \A x \in Objs \ linked : x # o => h[x] = Free
  BY <1>5 DEF LiveInv, FreeIsFree
<1>13. Due(open) => /\ rs = regs /\ old = stale
                    /\ Held(h, o) \subseteq Blue
                    /\ \A x \in linked : Held(h, x) = Held(heap, x)
  BY <1>6, <1>7
<1>14. SafeToAdd(h, o, rs, old, open, {}, Blue)
  BY <1>4, <1>5, <1>6, <1>8, <1>9, <1>10, <1>11, <1>12, <1>13 DEF SafeToAdd
<1> QED BY <1>4, <1>5, <1>14 DEF h, n, ents

(* The step around it.                                                     *)
LEMMA NewStepIsSafe ==
  ASSUME BaseInv, LiveInv, RestTyped', faults' = {},
         NEW o \in Objs, NEW knd, NEW S, NEW op, NEW rs, NEW old,
         NEW open \in BOOLEAN, NEW names, NewFits(o, knd, S, op, rs, old, open),
         GcAdd(WithNew(o, knd, S, op), o, rs, old, open, {}, names),
         gcOpen' = open, gcOpen = open, globals' = globals, chunk' = chunk,
         \A r \in Regs : \/ regs'[r] = o /\ r \notin stale'
                         \/ regs'[r] = regs[r] /\ (r \in stale => r \in stale'),
         stale' \subseteq stale, op \notin stale',
         code' \subseteq code \cup {o}, o \in code' => knd = "string",
         \/ knd = "string" /\ \E s \in Strings : names = {s} /\ interned[s] = NoObj
         \/ knd # "string" /\ names = {}
  PROVE  StepIsSafe
<1> DEFINE h == WithNew(o, knd, S, op)
<1>1. /\ SafeToAdd(h, o, rs, old, open, {}, Blue)
      /\ h[o].kind = knd /\ h[o].open = op
      /\ \A x \in Objs \ {o} : h[x] = heap[x]
  BY NewIsSafe
<1>2. GcAdd(h, o, rs, old, open, {}, names)
  OBVIOUS
<1> HIDE DEF h
<1>3. linked \subseteq Objs /\ o \notin linked
  BY DEF NewFits, BaseInv, TypeOK, CountIsChain, FreeObjects
<1>4. chunk # NoObj => chunk \in linked
  BY DEF LiveInv, RootsAlive
<1>5. ChunkIn(h, o, Blue)
  <2>1. chunk # NoObj => h[chunk] = heap[chunk]
    BY <1>1, <1>3, <1>4
  <2>2. \A x \in Blue : h[x].kind = heap[x].kind
    BY <1>1, <1>3, BlueIsAlive
  <2> QED BY <2>1, <2>2, ChunkStays
<1>6. /\ code' \subseteq linked \cup {o}
      /\ \A c \in code' : h[c].kind = "string"
  BY <1>1, <1>3 DEF LiveInv, RootsAlive, CodeIsStrings
<1>7. ~gcOpen' => chunk' = NoObj
  BY DEF LiveInv, CompileApart
<1>8. \A c \in linked \cup {o} : h[c].kind = "closure" => h[c].open \notin stale'
  BY <1>1, <1>3 DEF LiveInv, SharedAreWritten
<1>9. Around(h, o, open, names, Blue)
  BY <1>1, <1>5, <1>6, <1>7, <1>8 DEF Around
<1> QED BY <1>1, <1>2, <1>9, AdditionIsSafe

(* The register that a new object goes into.                               *)
LEMMA GivenRegister ==
  ASSUME BaseInv, NEW r \in Regs, NEW v, Given(r, v)
  PROVE  /\ \A q \in Regs :
              \/ regs'[q] = v /\ q \notin stale'
              \/ regs'[q] = regs[q] /\ (q \in stale => q \in stale')
         /\ stale' \subseteq stale /\ NoReg \notin stale'
BY NoneAssumption DEF BaseInv, TypeOK, Given

(* No constants.                                                           *)
LEMMA NoConstants == {<<NoObj, c>> : c \in {}} = {}
OBVIOUS

(* Memory that was not cleared is a fault.                                 *)
LEMMA NoJunk ==
  ASSUME TypeOK, NEW o \in Objs, NEW knd, NEW ents, NEW junk, NEW op, NEW rs, NEW old,
         NEW open, NEW half, NEW names,
         GcAdd([heap EXCEPT ![o] = NewObject(knd, ents, junk, op)],
               o, rs, old, open, half, names), faults' = {}
  PROVE  junk = NoObj
<1> DEFINE h == [heap EXCEPT ![o] = NewObject(knd, ents, junk, op)]
<1>1. GcAdd(h, o, rs, old, open, half, names)
  OBVIOUS
<1>2. h[o].meta = junk
  BY DEF TypeOK, NewObject
<1> HIDE DEF h
<1>3. h[o].meta = NoObj
  BY <1>1, AddRulesOut
<1> QED BY <1>2, <1>3

(* _vm_newlist and _vm_newmap.                                             *)
LEMMA NewContainerIsSafe ==
  ASSUME BaseInv, LiveInv, faults' = {}, NEW o \in Objs, NEW r \in Regs,
         NEW knd \in Containers, NEW junk \in Refs, NewContainer(o, r, knd, junk)
  PROVE  StepIsSafe
<1>1. /\ gcOpen /\ gcOpen' /\ o \in FreeObjects /\ Given(r, o)
      /\ UNCHANGED <<gcOpen, globals, chunk, code>>
      /\ GcAdd([heap EXCEPT ![o] = NewObject(knd, {}, junk, NoReg)], o, regs, stale,
               TRUE, {}, {})
  BY DEF NewContainer
<1>2. junk = NoObj
  BY <1>1, NoJunk DEF BaseInv
<1>3. GcAdd(WithNew(o, knd, {}, NoReg), o, regs, stale, TRUE, {}, {})
  BY <1>1, <1>2, NoConstants DEF WithNew
<1>4. knd # "string" /\ NewFits(o, knd, {}, NoReg, regs, stale, TRUE)
  BY <1>1, ContainersAssumption DEF NewFits, Kinds
<1>5. RestTyped' /\ gcOpen = TRUE /\ gcOpen' = TRUE
  BY <1>1, ContainerIsAdded DEF BaseInv, TypeOK
<1>6. o \notin code
  BY <1>1 DEF BaseInv, CountIsChain, FreeObjects, LiveInv, RootsAlive
<1> QED BY <1>1, <1>3, <1>4, <1>5, <1>6, GivenRegister, NewStepIsSafe

(* _vm_cat, when the result is a new string.                               *)
LEMMA NewStringIsSafe ==
  ASSUME BaseInv, LiveInv, faults' = {}, NEW o \in Objs, NEW r \in Regs,
         NEW s \in Strings, NewString(o, r, s)
  PROVE  StepIsSafe
<1>1. /\ gcOpen /\ gcOpen' /\ o \in FreeObjects /\ Given(r, o)
      /\ interned[s] = NoObj
      /\ UNCHANGED <<gcOpen, globals, chunk, code>>
      /\ GcAdd([heap EXCEPT ![o] = NewObject("string", {}, NoObj, NoReg)], o, regs,
               stale, TRUE, {}, {s})
  BY DEF NewString
<1>2. GcAdd(WithNew(o, "string", {}, NoReg), o, regs, stale, TRUE, {}, {s})
  BY <1>1, NoConstants DEF WithNew
<1>3. NewFits(o, "string", {}, NoReg, regs, stale, TRUE)
  BY <1>1 DEF NewFits, Kinds
<1>4. RestTyped' /\ gcOpen = TRUE /\ gcOpen' = TRUE
  BY <1>1, StringIsAdded DEF BaseInv, TypeOK
<1>5. \E t \in Strings : {s} = {t} /\ interned[t] = NoObj
  BY <1>1
<1> QED BY <1>1, <1>2, <1>3, <1>4, <1>5, GivenRegister, NewStepIsSafe

(* _vm_closure, with the constants compiled for the function.  A collection*)
(* in it would be a fault.                                                 *)
LEMMA NewClosureIsSafe ==
  ASSUME BaseInv, LiveInv, faults' = {}, NEW o \in Objs, NEW r \in Regs,
         NEW q \in Regs \cup {NoReg}, NEW consts \in {{}, code},
         NewClosure(o, r, q, consts)
  PROVE  StepIsSafe
<1> DEFINE ents == {<<NoObj, c>> : c \in consts}
           h == [heap EXCEPT ![o] = NewObject("closure", ents, NoObj, q)]
           rs == [regs EXCEPT ![r] = o]
           old == stale \ {r}
<1>1. /\ gcOpen /\ gcOpen' /\ o \in FreeObjects /\ Given(r, o)
      /\ UNCHANGED <<gcOpen, globals, chunk, code>>
      /\ GcAdd(h, o, rs, old, TRUE, {}, {})
  BY DEF NewClosure
<1>2. ~Due(TRUE)
  <2> SUFFICES ASSUME Due(TRUE) PROVE FALSE
    OBVIOUS
  <2>1. rs[r] = o /\ r \in Regs \ old /\ o # NoObj
    BY NoneAssumption DEF BaseInv, TypeOK
  <2> HIDE DEF h, rs, old
  <2>2. o \notin RootsOf(rs, globals, Regs \ old)
    BY <1>1, AddRulesOut
  <2> QED BY <2>1, <2>2 DEF RootsOf
<1>3. consts \in SUBSET linked
  BY DEF LiveInv, RootsAlive
<1>5. RestTyped' /\ gcOpen = TRUE /\ gcOpen' = TRUE
  BY <1>1, ClosureIsAdded DEF BaseInv, TypeOK
<1>6. o \notin code
  BY <1>1 DEF BaseInv, CountIsChain, FreeObjects, LiveInv, RootsAlive
<1>7. GcAdd(WithNew(o, "closure", consts, q), o, rs, old, TRUE, {}, {})
  BY <1>1 DEF WithNew
<1> HIDE DEF rs, old, h, ents
<1>8. /\ \A x \in Regs : \/ regs'[x] = o /\ x \notin stale'
                         \/ regs'[x] = regs[x] /\ (x \in stale => x \in stale')
      /\ code' \subseteq code \cup {o} /\ o \notin code'
  BY <1>1, <1>6, GivenRegister
<1>9. stale' \subseteq stale /\ q \notin stale'
  BY DEF NewClosure, Given
<1>10. "closure" # "string" /\ NewFits(o, "closure", consts, q, rs, old, TRUE)
  BY <1>1, <1>2, <1>3 DEF NewFits, Kinds
<1> QED BY <1>1, <1>5, <1>7, <1>8, <1>9, <1>10, NewStepIsSafe

(* a2_env_addstr during a compile: the collector is closed, nothing is     *)
(* freed.                                                                  *)
LEMMA NewCompiledIsSafe ==
  ASSUME BaseInv, LiveInv, faults' = {}, NEW o \in Objs, NEW s \in Strings,
         interned[s] = NoObj, CompileString(o, s)
  PROVE  StepIsSafe
<1>1. /\ ~gcOpen /\ o \in FreeObjects /\ code' = code \cup {o}
      /\ UNCHANGED <<gcOpen, regs, stale, globals, chunk>>
      /\ GcAdd([heap EXCEPT ![o] = NewObject("string", {}, NoObj, NoReg)], o, regs,
               stale, FALSE, {}, {s})
  BY DEF CompileString
<1>2. GcAdd(WithNew(o, "string", {}, NoReg), o, regs, stale, FALSE, {}, {s})
  BY <1>1, NoConstants DEF WithNew
<1>3. NewFits(o, "string", {}, NoReg, regs, stale, FALSE)
  BY <1>1 DEF NewFits, Kinds
<1>4. RestTyped' /\ gcOpen = FALSE /\ gcOpen' = FALSE
  BY <1>1, CompiledIsAdded DEF BaseInv, TypeOK
<1>5. \E t \in Strings : {s} = {t} /\ interned[t] = NoObj
  OBVIOUS
<1>6. /\ \A x \in Regs : regs'[x] = regs[x] /\ (x \in stale => x \in stale')
      /\ stale' \subseteq stale /\ NoReg \notin stale'
  BY <1>1, NoneAssumption DEF BaseInv, TypeOK
<1> QED BY <1>1, <1>2, <1>3, <1>4, <1>5, <1>6, NewStepIsSafe

(* a2_closure_return.  A collection in it would be a fault.  The upvalue   *)
(* object takes over the value of the register, the closures that shared   *)
(* the register take over the upvalue object.                              *)
LEMMA CloseUpvalueIsSafe ==
  ASSUME BaseInv, LiveInv, faults' = {}, NEW u \in Objs, NEW r \in Regs,
         NEW cls \in Objs, CloseUpvalue(u, r, cls)
  PROVE  StepIsSafe
<1> DEFINE h == Closing(u, r)
<1>1. /\ gcOpen /\ gcOpen' /\ u \in FreeObjects /\ cls \in Sharing(r)
      /\ GcAdd(h, u, regs, stale, TRUE, {cls}, {})
      /\ stale' = stale \cup {x \in {r} : regs[x] # NoObj}
      /\ UNCHANGED <<gcOpen, regs, globals, chunk, code>>
  BY DEF CloseUpvalue, Closing
<1>2. ~Due(TRUE)
  <2> HIDE DEF h
  <2>1. Due(TRUE) => {cls} = {}
    BY <1>1, AddRulesOut
  <2> QED BY <2>1
<1>3. /\ linked \subseteq Objs /\ u \notin linked /\ Sharing(r) \subseteq linked
      /\ regs \in [Regs -> Refs] /\ stale \subseteq Regs /\ dangling \subseteq stale
  BY <1>1 DEF BaseInv, TypeOK, CountIsChain, FreeObjects, Sharing
<1>4. /\ h[u] = NewObject("upvalue", {<<NoObj, regs[r]>>}, NoObj, NoReg)
      /\ h \in [Objs -> Object]
      /\ \A c \in Objs \ {u} :
           /\ h[c].kind = heap[c].kind /\ h[c].mark = heap[c].mark
           /\ h[c].meta = heap[c].meta
           /\ c \in Sharing(r) => /\ h[c].entries = heap[c].entries \cup {<<NoObj, u>>}
                                 /\ h[c].open = NoReg
           /\ c \notin Sharing(r) => h[c] = heap[c]
  <2>1. TypeOK
    BY DEF BaseInv
  <2>2. IsClosing(h, u, r)
    BY <2>1, ClosingFields
  <2> HIDE DEF h
  <2> QED BY <2>2 DEF IsClosing
<1>5. \A c \in Sharing(r) : h[c].open = NoReg
  <2> HIDE DEF h
  <2> QED BY <1>3, <1>4
<1> HIDE DEF h
<1>6. /\ h[u].kind = "upvalue" /\ h[u].mark = "white" /\ h[u].meta = NoObj
      /\ h[u].entries = {<<NoObj, regs[r]>>} /\ h[u].open = NoReg
  BY <1>4 DEF NewObject
<1>7. /\ Blue \subseteq linked /\ u \notin Blue
      /\ \A x \in Blue : /\ heap[x].kind \in {"string", "closure"}
                         /\ Held(heap, x) \subseteq Blue
                         /\ x \notin Sharing(r)
  <2>1. r # NoReg
    BY NoneAssumption
  <2> QED BY <1>3, <2>1, BlueIsAlive DEF Sharing
<1>8. \A x \in linked : x \notin Sharing(r) => h[x] = heap[x] /\ Held(h, x) = Held(heap, x)
  BY <1>3, <1>4 DEF Held
<1>9. r \notin stale
  <2>1. cls \in linked /\ heap[cls].kind = "closure" /\ heap[cls].open = r
    BY <1>1 DEF Sharing
  <2> QED BY <2>1 DEF LiveInv, SharedAreWritten
<1>10. Held(h, u) \subseteq linked
  <2>1. Held(h, u) \subseteq {regs[r]} \ {NoObj}
    BY <1>6 DEF Held
  <2>2. {regs[r]} \ {NoObj} \subseteq linked
    BY <1>3, <1>9 DEF LiveInv, RootsAlive, RootsOf
  <2> QED BY <2>1, <2>2
<1>11. ASSUME NEW x \in linked
       PROVE  /\ h[x].meta = heap[x].meta
              /\ h[x].mark = IF x \in Blue THEN "blue" ELSE "white"
              /\ Held(h, x) \subseteq linked \cup {u}
              /\ h[x].kind = "string" => h[x].entries = {}
              /\ h[x].kind = "closure" => h[x].open \notin stale'
  <2>1. x \in Objs \ {u} /\ Held(heap, x) \subseteq linked
    BY <1>3 DEF LiveInv, RefsAlive
  <2>2. h[x].mark = IF x \in Blue THEN "blue" ELSE "white"
    BY <1>4, <2>1 DEF LiveInv, MarksAreClean
  <2>3. CASE x \in Sharing(r)
    <3>1. /\ h[x].entries = heap[x].entries \cup {<<NoObj, u>>}
          /\ h[x].kind = heap[x].kind /\ h[x].meta = heap[x].meta
          /\ h[x].kind # "string" /\ h[x].open = NoReg
      BY <1>4, <1>5, <2>1, <2>3 DEF Sharing
    <3>2. \A e \in h[x].entries : e \in heap[x].entries \/ e = <<NoObj, u>>
      BY <3>1
    <3>3. Held(h, x) \subseteq Held(heap, x) \cup {u}
      BY <3>1, <3>2 DEF Held
    <3>4. NoReg \notin stale'
      BY <1>1, <1>3, NoneAssumption
    <3> QED BY <2>1, <2>2, <3>1, <3>3, <3>4
  <2>4. CASE x \notin Sharing(r)
    <3>1. h[x] = heap[x] /\ Held(h, x) = Held(heap, x)
      BY <1>8, <2>4
    <3>2. heap[x].kind = "closure" => heap[x].open \notin stale /\ heap[x].open # r
      BY <2>4 DEF LiveInv, SharedAreWritten, Sharing
    <3>3. heap[x].kind = "string" => heap[x].entries = {}
      BY DEF LiveInv, StringsAreBare
    <3>4. heap[x].kind = "closure" => heap[x].open \notin stale'
      BY <1>1, <3>2
    <3> QED BY <2>1, <2>2, <3>1, <3>3, <3>4
  <2> QED BY <2>3, <2>4
<1>12. Described(h, u)
  BY <1>1, <1>4, <1>6 DEF Described
<1>13. \A x \in Objs \ linked : x # u => h[x] = Free
  BY <1>3, <1>4 DEF LiveInv, FreeIsFree
<1>14. \A x \in Blue \cap linked : /\ h[x].kind \in {"string", "closure"}
                                   /\ Held(h, x) \subseteq Blue \cap linked
  BY <1>7, <1>8
<1>15. SafeToAdd(h, u, regs, stale, TRUE, {cls}, Blue)
  BY <1>2, <1>6, <1>7, <1>10, <1>11, <1>12, <1>13, <1>14 DEF SafeToAdd
<1>16. ChunkIn(h, u, Blue)
  <2>1. chunk # NoObj => h[chunk] = heap[chunk]
    <3>1. chunk # NoObj => chunk \in Blue
      BY DEF Blue
    <3> QED BY <1>7, <1>8, <3>1
  <2>2. \A x \in Blue : h[x].kind = heap[x].kind
    BY <1>7, <1>8
  <2> QED BY <1>1, <2>1, <2>2, ChunkStays
<1>17. code' \subseteq linked \cup {u} /\ \A c \in code' : h[c].kind = "string"
  BY <1>1, <1>3, <1>4 DEF LiveInv, RootsAlive, CodeIsStrings
<1>18. RestTyped' /\ gcOpen' = TRUE
  BY <1>1, UpvalueIsAdded DEF BaseInv, TypeOK
<1>19. \A x \in Regs : regs'[x] = regs[x] /\ (x \in stale => x \in stale')
  BY <1>1
<1>20. Around(h, u, TRUE, {}, Blue)
  BY <1>1, <1>6, <1>11, <1>16, <1>17, <1>18, <1>19 DEF Around
<1> QED BY <1>1, <1>15, <1>20, AdditionIsSafe

(* a2_env_load starts the chunk: the closure and its constants are blue,   *)
(* the only ones since no other chunk runs.                                *)
LEMMA LoadRunIsSafe ==
  ASSUME BaseInv, LiveInv, faults' = {}, NEW o \in Objs, NEW own \in SUBSET code,
         LoadRun(o, own)
  PROVE  StepIsSafe
<1> DEFINE h == Starting(o, own)
           blue == {o} \cup own
<1>1. /\ ~gcOpen /\ gcOpen' = TRUE /\ o \in FreeObjects /\ chunk' = o
      /\ GcAdd(h, o, regs, stale, TRUE, {}, {})
      /\ code' \subseteq code
      /\ UNCHANGED <<regs, stale, globals>>
  BY DEF LoadRun, Starting
<1>2. /\ linked \subseteq Objs /\ o \notin linked /\ code \subseteq Objs
      /\ stale \subseteq Regs
  BY <1>1 DEF BaseInv, TypeOK, CountIsChain, FreeObjects
<1>3. own \subseteq linked /\ own \in SUBSET Objs /\ o \notin own /\ NoObj \notin own
  BY <1>2, NoneAssumption DEF LiveInv, RootsAlive
<1>4. Blue = {}
  BY <1>1 DEF LiveInv, CompileApart, Blue
<1>5. /\ h[o] = [kind |-> "closure", mark |-> "blue",
                 entries |-> {<<NoObj, c>> : c \in own}, meta |-> NoObj, open |-> NoReg]
      /\ h \in [Objs -> Object]
      /\ \A x \in Objs \ {o} :
           /\ h[x].kind = heap[x].kind
           /\ h[x].mark = IF x \in own THEN "blue" ELSE heap[x].mark
           /\ h[x].entries = heap[x].entries /\ h[x].meta = heap[x].meta
           /\ x \notin own => h[x] = heap[x]
  BY <1>3, StartingFields DEF BaseInv
<1>6. \A x \in Objs \ {o} : h[x].open = heap[x].open
  BY DEF Starting, BaseInv, TypeOK, Object
<1> HIDE DEF h
<1>7. /\ h[o].kind = "closure" /\ h[o].mark = "blue" /\ h[o].meta = NoObj
      /\ h[o].open = NoReg
  BY <1>5
<1>8. Held(h, o) = own
  <2>1. \A e \in h[o].entries : e[1] = NoObj /\ e[2] \in own
    BY <1>5
  <2>2. ASSUME NEW c \in own PROVE \E e \in h[o].entries : e[2] = c
    <3>1. <<NoObj, c>> \in h[o].entries /\ <<NoObj, c>>[2] = c
      BY <1>5
    <3> QED BY <3>1
  <2> QED BY <1>3, <1>7, <2>1, <2>2 DEF Held
<1>9. \A x \in linked : Held(h, x) = Held(heap, x)
  BY <1>2, <1>5 DEF Held
<1>10. \A x \in own : h[x].kind = "string" /\ h[x].entries = {} /\ Held(h, x) = {}
  <2>1. \A x \in own : h[x].kind = "string" /\ h[x].entries = {}
    BY <1>3, <1>5 DEF LiveInv, CodeIsStrings, StringsAreBare
  <2> QED BY <2>1 DEF Held
<1>11. ASSUME NEW x \in linked
       PROVE  /\ h[x].meta = heap[x].meta
              /\ h[x].mark = IF x \in blue THEN "blue" ELSE "white"
              /\ Held(h, x) \subseteq linked \cup {o}
  BY <1>2, <1>4, <1>5, <1>9 DEF LiveInv, MarksAreClean, RefsAlive
<1>12. /\ \A x \in linked \cup {o} : h[x].kind = "string" => h[x].entries = {}
       /\ \A x \in linked \cup {o} : h[x].kind = "closure" => h[x].open \notin stale'
  <2>1. NoReg \notin stale'
    BY <1>1, <1>2, NoneAssumption
  <2> QED BY <1>1, <1>2, <1>5, <1>6, <1>7, <2>1
          DEF LiveInv, StringsAreBare, SharedAreWritten
<1>13. Described(h, o)
  BY <1>1, <1>5, <1>7 DEF Described
<1>14. \A x \in Objs \ linked : x # o => h[x] = Free
  BY <1>3, <1>5 DEF LiveInv, FreeIsFree
<1>15. \A x \in blue \cap linked : /\ h[x].kind \in {"string", "closure"}
                                   /\ Held(h, x) \subseteq blue \cap linked
  BY <1>2, <1>10
<1>16. o \in blue /\ Held(h, o) \subseteq blue /\ Held(h, o) \subseteq linked
  BY <1>3, <1>8
<1>17. /\ chunk' \in linked \cup {o} /\ blue = {chunk'} \cup Held(h, chunk')
       /\ chunk' # NoObj
  BY <1>1, <1>8, NoneAssumption
<1> HIDE DEF blue
<1>18. SafeToAdd(h, o, regs, stale, TRUE, {}, blue)
  BY <1>7, <1>9, <1>11, <1>12, <1>13, <1>14, <1>15, <1>16 DEF SafeToAdd
<1>19. ChunkIn(h, o, blue)
  BY <1>1, <1>7, <1>8, <1>10, <1>17 DEF ChunkIn
<1>20. code' \subseteq linked \cup {o} /\ \A c \in code' : h[c].kind = "string"
  <2>1. code' \subseteq linked /\ \A c \in code' : c # o /\ heap[c].kind = "string"
    BY <1>1, <1>2 DEF LiveInv, RootsAlive, CodeIsStrings
  <2> QED BY <1>2, <1>5, <2>1
<1>21. RestTyped'
  BY ChunkIsAdded
<1>22. \A x \in Regs : regs'[x] = regs[x] /\ (x \in stale => x \in stale')
  BY <1>1
<1>23. Around(h, o, TRUE, {}, blue)
  BY <1>1, <1>7, <1>12, <1>19, <1>20, <1>21, <1>22 DEF Around
<1> QED BY <1>1, <1>18, <1>23, AdditionIsSafe


-----------------------------------------------------------------------------
(* The actions that write to one object.                                   *)

(* Nothing but the heap changes.                                           *)
OnlyHeapChanges ==
  UNCHANGED <<linked, count, threshold, gcOpen, interned, regs, stale, dangling,
              globals, chunk, code, wild, faults>>

(* A script gives a live container or map new references, to live objects. *)
Rewritten(o, obj) ==
  /\ o \in linked /\ obj \in Object
  /\ obj.kind = heap[o].kind /\ obj.mark = heap[o].mark /\ obj.kind \in {"array", "map"}
  /\ \A e \in obj.entries : e[1] \in linked \cup {NoObj} /\ e[2] \in linked \cup {NoObj}
  /\ obj.kind = "map" /\ obj.meta # NoObj =>
       obj.meta \in linked /\ heap[obj.meta].kind = "map"

(* A step that adds no object frees none.                                  *)
LEMMA NothingFreed ==
  ASSUME linked' = linked
  PROVE  FreesGarbage
BY DEF FreesGarbage, Collects

LEMMA WriteIsSafe ==
  ASSUME BaseInv, LiveInv, NEW o, NEW obj, Write(o, obj), Rewritten(o, obj)
  PROVE  StepIsSafe
<1>1. heap' = [heap EXCEPT ![o] = obj] /\ OnlyHeapChanges
  BY DEF Write, added, OnlyHeapChanges
<1>2. heap \in [Objs -> Object] /\ linked \subseteq Objs
  BY DEF BaseInv, TypeOK
<1>3. /\ o \in Objs /\ heap'[o] = obj
      /\ \A x \in Objs \ {o} : heap'[x] = heap[x] /\ Held(heap', x) = Held(heap, x)
  BY <1>1, <1>2 DEF Rewritten, Held
<1>4. \A x \in Objs : heap'[x].kind = heap[x].kind /\ heap'[x].mark = heap[x].mark
  BY <1>3 DEF Rewritten
<1>5. o \notin Blue /\ Blue \subseteq linked
  BY <1>2, <1>3, BlueIsAlive DEF Rewritten
<1>6. Blue' = Blue /\ (chunk # NoObj => chunk \in Blue /\ Held(heap, chunk) \subseteq Blue)
  <2>1. CASE chunk = NoObj
    BY <1>1, <2>1 DEF Blue, OnlyHeapChanges
  <2>2. CASE chunk # NoObj
    <3>1. Blue = {chunk} \cup Held(heap, chunk)
      BY <2>2 DEF Blue
    <3>2. chunk \in Objs \ {o}
      BY <1>2, <1>5, <3>1
    <3>3. Blue' = {chunk} \cup Held(heap', chunk)
      BY <1>1, <2>2 DEF Blue, OnlyHeapChanges
    <3> QED BY <1>3, <3>1, <3>2, <3>3
  <2> QED BY <2>1, <2>2
<1>7. RootsAlive' /\ MarksInHeap' /\ CompileApart'
  BY <1>1 DEF LiveInv, OnlyHeapChanges, RootsAlive, RootsOf, MarksInHeap, CompileApart
<1>8. RefsAlive'
  <2>1. ASSUME NEW x \in linked PROVE Held(heap', x) \subseteq linked
    <3>1. CASE x = o
      <4>1. Held(heap', o) \subseteq linked
        BY <1>3 DEF Held, Rewritten
      <4> QED BY <3>1, <4>1
    <3>2. CASE x # o
      BY <1>2, <1>3, <3>2 DEF LiveInv, RefsAlive
    <3> QED BY <3>1, <3>2
  <2> QED BY <1>1, <2>1 DEF RefsAlive, OnlyHeapChanges
<1>9. FreeIsFree' /\ MarksAreClean'
  BY <1>1, <1>2, <1>3, <1>4, <1>6
     DEF LiveInv, FreeIsFree, MarksAreClean, OnlyHeapChanges, Rewritten
<1>10. ChunkIsFlat'
  <2> SUFFICES ASSUME chunk # NoObj
               PROVE  /\ heap'[chunk].kind = "closure" /\ heap'[chunk].open = NoReg
                      /\ \A x \in Held(heap', chunk) : heap'[x].kind = "string"
    BY <1>1 DEF ChunkIsFlat, OnlyHeapChanges
  <2>1. chunk \in Objs \ {o} /\ Held(heap, chunk) \subseteq Objs
    BY <1>2, <1>5, <1>6
  <2> QED BY <1>3, <1>4, <2>1 DEF LiveInv, ChunkIsFlat
<1>11. StringsAreBare' /\ SharedAreWritten'
  BY <1>1, <1>2, <1>3
     DEF LiveInv, StringsAreBare, SharedAreWritten, OnlyHeapChanges, Rewritten
<1>12. CodeIsStrings'
  BY <1>1, <1>4 DEF LiveInv, CodeIsStrings, OnlyHeapChanges, BaseInv, TypeOK
<1>13. Interned'
  BY <1>1, <1>2, <1>4 DEF LiveInv, Interned, OnlyHeapChanges
<1>14. MetaLeadsToMap'
  <2> SUFFICES ASSUME NEW x \in linked, heap'[x].kind = "map", heap'[x].meta # NoObj
               PROVE  heap'[heap'[x].meta].kind = "map"
    BY <1>1 DEF MetaLeadsToMap, OnlyHeapChanges
  <2>1. heap'[x].meta \in linked /\ heap[heap'[x].meta].kind = "map"
    <3>1. CASE x = o
      BY <1>3, <3>1 DEF Rewritten
    <3>2. CASE x # o
      <4>1. heap'[x] = heap[x] /\ heap[x].meta \in Held(heap, x)
        BY <1>2, <1>3, <3>2 DEF Held
      <4> QED BY <4>1 DEF LiveInv, RefsAlive, MetaLeadsToMap
    <3> QED BY <3>1, <3>2
  <2> QED BY <1>2, <1>4, <2>1
<1> QED BY <1>1, <1>7, <1>8, <1>9, <1>10, <1>11, <1>12, <1>13, <1>14, NothingFreed
        DEF LiveInv, StepIsSafe, OnlyHeapChanges

(* What a register that is not stale holds is alive, and so is what that   *)
(* refers to.                                                              *)
LEMMA RegisterIsAlive ==
  ASSUME BaseInv, LiveInv, NEW r \in Regs \ stale, regs[r] # NoObj
  PROVE  /\ regs[r] \in linked /\ regs[r] \in Objs /\ heap[regs[r]] \in Object
         /\ Held(heap, regs[r]) \subseteq linked
<1>1. regs[r] \in linked
  BY DEF BaseInv, TypeOK, LiveInv, RootsAlive, RootsOf
<1>2. linked \subseteq Objs /\ heap \in [Objs -> Object]
  BY DEF BaseInv, TypeOK
<1> QED BY <1>1, <1>2 DEF LiveInv, RefsAlive

(* The references of a live object, one by one.                            *)
LEMMA EntriesAreAlive ==
  ASSUME LiveInv, NEW o \in linked
  PROVE  /\ \A e \in heap[o].entries : e[1] \in linked \cup {NoObj}
                                       /\ e[2] \in linked \cup {NoObj}
         /\ heap[o].kind = "map" /\ heap[o].meta # NoObj =>
              heap[o].meta \in linked /\ heap[heap[o].meta].kind = "map"
BY DEF LiveInv, RefsAlive, MetaLeadsToMap, Held

(* Whatever an instruction can read is alive.                              *)
LEMMA ReadableIsAlive ==
  ASSUME BaseInv, LiveInv
  PROVE  Readable \subseteq linked \cup {NoObj}
<1>1. \A x \in linked : Held(heap, x) \subseteq linked
  BY DEF LiveInv, RefsAlive
<1>2. \A g \in Globals : globals[g] \in linked \cup {NoObj}
  BY DEF LiveInv, RootsAlive, RootsOf
<1>3. chunk # NoObj => Held(heap, chunk) \subseteq linked
  BY <1>1 DEF LiveInv, RootsAlive
<1>4. ASSUME NEW r \in Regs \ stale
      PROVE  ReadWith(r) \subseteq linked \cup {NoObj}
  <2>1. CASE regs[r] = NoObj
    BY <2>1 DEF ReadWith
  <2>2. CASE regs[r] # NoObj
    <3>1. regs[r] \in linked /\ Held(heap, regs[r]) \subseteq linked
      BY <2>2, RegisterIsAlive
    <3> QED BY <1>1, <2>2, <3>1 DEF ReadWith
  <2> QED BY <2>1, <2>2
<1> QED BY <1>2, <1>3, <1>4 DEF Readable

(* _vm_setlist, _vm_setmap, _vm_setvalue.                                  *)
LEMMA PutEntryIsSafe ==
  ASSUME BaseInv, LiveInv, NEW r \in Regs, NEW q \in Regs, NEW k \in Refs,
         PutEntry(r, q, k)
  PROVE  StepIsSafe
<1> DEFINE o == regs[r]
           ents == heap[o].entries \cup {<<k, regs[q]>>}
           obj == [heap[o] EXCEPT !.entries = ents]
<1>1. /\ r \notin stale /\ q \notin stale /\ o # NoObj /\ regs[q] # NoObj
      /\ heap[o].kind \in {"array", "map"} /\ Write(o, obj)
      /\ k # NoObj => k \in Readable
  BY DEF PutEntry
<1>2. /\ o \in linked /\ heap[o] \in Object /\ regs[q] \in linked
      /\ heap[o].entries \in SUBSET (Refs \X Refs) /\ regs[q] \in Refs
  BY <1>1, RegisterIsAlive, RegisterTyped DEF Refs
<1>3. k \in linked \cup {NoObj}
  BY <1>1, ReadableIsAlive
<1>4. ents \in SUBSET (Refs \X Refs)
  BY <1>2
<1>5. /\ \A e \in ents : e[1] \in linked \cup {NoObj} /\ e[2] \in linked \cup {NoObj}
      /\ heap[o].kind = "map" /\ heap[o].meta # NoObj =>
           heap[o].meta \in linked /\ heap[heap[o].meta].kind = "map"
  BY <1>2, <1>3, EntriesAreAlive
<1> HIDE DEF ents, o
<1>6. /\ obj \in Object /\ obj.kind = heap[o].kind /\ obj.mark = heap[o].mark
      /\ obj.entries = ents /\ obj.meta = heap[o].meta
  BY <1>2, <1>4, EntriesWritten
<1> HIDE DEF obj
<1>7. Rewritten(o, obj)
  BY <1>1, <1>2, <1>5, <1>6 DEF Rewritten
<1> QED BY <1>1, <1>7, WriteIsSafe

(* a2_delmap and overwritten entries.                                      *)
LEMMA DropEntryIsSafe ==
  ASSUME BaseInv, LiveInv, NEW r \in Regs, NEW e \in Refs \X Refs, DropEntry(r, e)
  PROVE  StepIsSafe
<1> DEFINE o == regs[r]
           ents == heap[o].entries \ {e}
           obj == [heap[o] EXCEPT !.entries = ents]
<1>1. /\ r \notin stale /\ o # NoObj
      /\ heap[o].kind \in {"array", "map"} /\ Write(o, obj)
  BY DEF DropEntry
<1>2. /\ o \in linked /\ heap[o] \in Object
      /\ heap[o].entries \in SUBSET (Refs \X Refs)
  BY <1>1, RegisterIsAlive, RegisterTyped
<1>3. ents \in SUBSET (Refs \X Refs)
  BY <1>2
<1>4. /\ \A x \in ents : x[1] \in linked \cup {NoObj} /\ x[2] \in linked \cup {NoObj}
      /\ heap[o].kind = "map" /\ heap[o].meta # NoObj =>
           heap[o].meta \in linked /\ heap[heap[o].meta].kind = "map"
  BY <1>2, EntriesAreAlive
<1> HIDE DEF ents, o
<1>5. /\ obj \in Object /\ obj.kind = heap[o].kind /\ obj.mark = heap[o].mark
      /\ obj.entries = ents /\ obj.meta = heap[o].meta
  BY <1>2, <1>3, EntriesWritten
<1> HIDE DEF obj
<1>6. Rewritten(o, obj)
  BY <1>1, <1>2, <1>4, <1>5 DEF Rewritten
<1> QED BY <1>1, <1>6, WriteIsSafe

(* a2_setmeta.                                                             *)
LEMMA SetMetaIsSafe ==
  ASSUME BaseInv, LiveInv, NEW r \in Regs, NEW q \in Regs, SetMeta(r, q)
  PROVE  StepIsSafe
<1> DEFINE o == regs[r]
           m == regs[q]
           obj == [heap[o] EXCEPT !.meta = m]
<1>1. /\ r \notin stale /\ q \notin stale /\ o # NoObj /\ m # NoObj
      /\ heap[o].kind = "map" /\ heap[m].kind = "map" /\ Write(o, obj)
  BY DEF SetMeta
<1>2. o \in linked /\ heap[o] \in Object /\ m \in linked /\ m \in Refs
  BY <1>1, RegisterIsAlive DEF Refs
<1>3. \A x \in heap[o].entries : x[1] \in linked \cup {NoObj} /\ x[2] \in linked \cup {NoObj}
  BY <1>2, EntriesAreAlive
<1> HIDE DEF m, o
<1>4. /\ obj \in Object /\ obj.kind = heap[o].kind /\ obj.mark = heap[o].mark
      /\ obj.entries = heap[o].entries /\ obj.meta = m
  BY <1>2, MetaWritten
<1> HIDE DEF obj
<1>5. Rewritten(o, obj)
  BY <1>1, <1>2, <1>3, <1>4 DEF Rewritten
<1> QED BY <1>1, <1>5, WriteIsSafe

-----------------------------------------------------------------------------
(* The actions that leave the heap alone.                                  *)

(* The references of a script move, to live objects.                       *)
LEMMA MoveIsSafe ==
  ASSUME BaseInv, LiveInv,
         UNCHANGED <<heap, linked, interned, wild, chunk>>,
         \A r \in Regs \ dangling' : regs'[r] \in linked \cup {NoObj},
         \A g \in Globals : globals'[g] \in linked \cup {NoObj},
         \A c \in code' : c \in linked /\ heap[c].kind = "string",
         ~gcOpen' => chunk = NoObj,
         \A c \in linked : heap[c].kind = "closure" => heap[c].open \notin stale'
  PROVE  StepIsSafe
<1>1. RootsAlive'
  <2>1. RootsOf(regs', globals', Regs \ dangling') \subseteq linked
    BY DEF RootsOf
  <2> QED BY <2>1 DEF LiveInv, RootsAlive
<1>2. RefsAlive' /\ FreeIsFree' /\ MarksInHeap' /\ Interned'
  <2>1. \A x \in linked : Held(heap', x) = Held(heap, x)
    BY DEF Held
  <2> QED BY <2>1 DEF LiveInv, RefsAlive, FreeIsFree, MarksInHeap, Interned
<1>3. Blue' = Blue /\ Held(heap', chunk) = Held(heap, chunk)
  BY DEF Blue, Held
<1>4. MarksAreClean' /\ ChunkIsFlat'
  BY <1>3 DEF LiveInv, MarksAreClean, ChunkIsFlat
<1>5. StringsAreBare' /\ MetaLeadsToMap'
  BY DEF LiveInv, StringsAreBare, MetaLeadsToMap
<1>6. CodeIsStrings' /\ CompileApart' /\ SharedAreWritten'
  BY DEF CodeIsStrings, CompileApart, SharedAreWritten
<1> QED BY <1>1, <1>2, <1>4, <1>5, <1>6, NothingFreed DEF LiveInv, StepIsSafe

(* What the invariant gives to a step that leaves the references alone.    *)
LEMMA RootsByName ==
  ASSUME BaseInv, LiveInv
  PROVE  /\ \A r \in Regs \ dangling : regs[r] \in linked \cup {NoObj}
         /\ \A g \in Globals : globals[g] \in linked \cup {NoObj}
         /\ \A c \in code : c \in linked /\ heap[c].kind = "string"
         /\ ~gcOpen => chunk = NoObj
         /\ \A c \in linked : heap[c].kind = "closure" => heap[c].open \notin stale
         /\ regs \in [Regs -> Refs] /\ dangling \subseteq stale
BY DEF BaseInv, TypeOK, LiveInv, RootsAlive, RootsOf, CodeIsStrings, CompileApart,
       SharedAreWritten

(* A register is given a live object.                                      *)
LEMMA GivenIsSafe ==
  ASSUME BaseInv, LiveInv, NEW q \in Regs, NEW v \in linked \cup {NoObj},
         Given(q, v), dangling' = dangling \ {q},
         UNCHANGED <<heap, added, gcOpen, globals, chunk, code>>
  PROVE  StepIsSafe
<1>1. regs' = [regs EXCEPT ![q] = v] /\ stale' = stale \ {q}
  BY DEF Given
<1>2. \A r \in Regs \ dangling' : regs'[r] \in linked \cup {NoObj}
  BY <1>1, RootsByName
<1>3. \A c \in linked : heap[c].kind = "closure" => heap[c].open \notin stale'
  BY <1>1, RootsByName
<1> QED BY <1>2, <1>3, RootsByName, MoveIsSafe DEF added

LEMMA MutateIsSafe ==
  ASSUME BaseInv, LiveInv, Mutate
  PROVE  StepIsSafe
<1>1. ASSUME NEW q \in Regs, NEW v \in Refs, SetReg(q, v)
      PROVE  StepIsSafe
  BY <1>1, ReadableIsAlive, GivenIsSafe DEF SetReg
<1>2. ASSUME NEW g \in Globals, NEW r \in Regs, SetGlobal(g, r)
      PROVE  StepIsSafe
  <2>1. /\ r \notin stale /\ globals' = [globals EXCEPT ![g] = regs[r]]
        /\ UNCHANGED <<heap, added, gcOpen, regs, stale, dangling, chunk, code>>
    BY <1>2 DEF SetGlobal
  <2>2. \A x \in Globals : globals'[x] \in linked \cup {NoObj}
    BY <2>1, RootsByName DEF BaseInv, TypeOK
  <2> QED BY <2>1, <2>2, RootsByName, MoveIsSafe DEF added
<1>3. ASSUME NEW r \in Regs, NEW s \in Strings, OldString(r, s)
      PROVE  StepIsSafe
  <2>1. interned[s] \in linked
    BY <1>3 DEF OldString, LiveInv, Interned
  <2> QED BY <1>3, <2>1, GivenIsSafe DEF OldString
<1>4. ASSUME NEW r \in Regs, Leave(r)
      PROVE  StepIsSafe
  <2>1. /\ Sharing(r) = {} /\ stale' = stale \cup {r}
        /\ UNCHANGED <<heap, added, gcOpen, regs, dangling, globals, chunk, code>>
    BY <1>4 DEF Leave
  <2>2. \A c \in linked : heap[c].kind = "closure" => heap[c].open \notin stale'
    BY <2>1, RootsByName DEF Sharing
  <2> QED BY <2>1, <2>2, RootsByName, MoveIsSafe DEF added
<1> QED BY <1>1, <1>2, <1>3, <1>4, PutEntryIsSafe, DropEntryIsSafe, SetMetaIsSafe
        DEF Mutate

-----------------------------------------------------------------------------
(* a2_env_load around the compile and the run.                             *)

(* The end of a load takes the blue marks off again, and all of them.      *)
LEMMA LoadEndIsSafe ==
  ASSUME BaseInv, LiveInv, LoadEnd
  PROVE  StepIsSafe
<1>1. /\ heap' \in [Objs -> Object]
      /\ \A x \in Objs : /\ heap'[x].kind = heap[x].kind
                         /\ heap'[x].entries = heap[x].entries
                         /\ heap'[x].meta = heap[x].meta
                         /\ heap'[x].open = heap[x].open
                         /\ heap'[x].mark = IF x \in Blue THEN "white"
                                            ELSE heap[x].mark
                         /\ x \notin Blue => heap'[x] = heap[x]
  BY LoadEndFields DEF BaseInv
<1>2. /\ chunk' = NoObj /\ code' = {} /\ gcOpen /\ gcOpen'
      /\ UNCHANGED <<added, gcOpen, regs, stale, dangling, globals>>
  BY DEF LoadEnd
<1>3. linked \subseteq Objs /\ linked' = linked /\ interned' = interned /\ wild' = wild
  BY <1>2 DEF BaseInv, TypeOK, added
<1>4. \A x \in linked : Held(heap', x) = Held(heap, x)
  BY <1>1, <1>3 DEF Held
<1>5. Blue' = {} /\ Blue \subseteq linked
  BY <1>2, BlueIsAlive DEF Blue
<1>6. RootsAlive'
  <2>1. RootsOf(regs', globals', Regs \ dangling') \subseteq linked
    BY <1>2, RootsByName DEF RootsOf
  <2> QED BY <1>2, <1>3, <2>1 DEF RootsAlive
<1>7. RefsAlive'
  BY <1>3, <1>4 DEF LiveInv, RefsAlive
<1>8. FreeIsFree' /\ MarksAreClean'
  BY <1>1, <1>3, <1>5 DEF LiveInv, FreeIsFree, MarksAreClean
<1>9. ChunkIsFlat' /\ CodeIsStrings' /\ CompileApart' /\ MarksInHeap'
  BY <1>2, <1>3 DEF LiveInv, ChunkIsFlat, CodeIsStrings, CompileApart, MarksInHeap
<1>10. StringsAreBare' /\ SharedAreWritten'
  BY <1>1, <1>2, <1>3 DEF LiveInv, StringsAreBare, SharedAreWritten
<1>11. Interned'
  <2>1. \A x \in linked : heap'[x].kind = heap[x].kind
    BY <1>1, <1>3
  <2> QED BY <1>3, <2>1 DEF LiveInv, Interned
<1>12. MetaLeadsToMap'
  <2> SUFFICES ASSUME NEW x \in linked, heap'[x].kind = "map", heap'[x].meta # NoObj
               PROVE  heap'[heap'[x].meta].kind = "map"
    BY <1>3 DEF MetaLeadsToMap
  <2>1. heap[x].kind = "map" /\ heap'[x].meta = heap[x].meta /\ heap[x].meta # NoObj
    BY <1>1, <1>3
  <2>2. heap[x].meta \in linked /\ heap[heap[x].meta].kind = "map"
    BY <2>1, EntriesAreAlive
  <2> QED BY <1>1, <1>3, <2>1, <2>2
<1> QED BY <1>3, <1>6, <1>7, <1>8, <1>9, <1>10, <1>11, <1>12, NothingFreed
        DEF LiveInv, StepIsSafe

LEMMA LoadIsSafe ==
  ASSUME BaseInv, LiveInv, Load, faults' = {}
  PROVE  StepIsSafe
<1>1. CASE LoadBegin
  <2>1. /\ ~gcOpen' /\ chunk = NoObj
        /\ UNCHANGED <<heap, added, regs, stale, dangling, globals, chunk, code>>
    BY <1>1 DEF LoadBegin
  <2> QED BY <2>1, RootsByName, MoveIsSafe DEF added
<1>2. ASSUME NEW o \in Objs, NEW s \in Strings, CompileString(o, s)
      PROVE  StepIsSafe
  <2>1. CASE interned[s] # NoObj
    <3>1. /\ ~gcOpen /\ ~gcOpen' /\ code' = code \cup {interned[s]}
          /\ UNCHANGED <<heap, added, dangling, gcOpen, regs, stale, globals, chunk>>
      BY <1>2, <2>1 DEF CompileString
    <3>2. interned[s] \in linked /\ heap[interned[s]].kind = "string"
      BY <2>1 DEF LiveInv, Interned
    <3> QED BY <3>1, <3>2, RootsByName, MoveIsSafe DEF added
  <2>2. CASE interned[s] = NoObj
    BY <1>2, <2>2, NewCompiledIsSafe
  <2> QED BY <2>1, <2>2
<1>3. ASSUME NEW o \in Objs, NEW own \in SUBSET code, LoadRun(o, own)
      PROVE  StepIsSafe
  BY <1>3, LoadRunIsSafe
<1>4. CASE LoadFail
  <2>1. /\ gcOpen' /\ code' = {}
        /\ UNCHANGED <<heap, added, regs, stale, dangling, globals, chunk>>
    BY <1>4 DEF LoadFail
  <2> QED BY <2>1, RootsByName, MoveIsSafe DEF added
<1>5. CASE LoadEnd
  BY <1>5, LoadEndIsSafe
<1> QED BY <1>1, <1>2, <1>3, <1>4, <1>5 DEF Load

-----------------------------------------------------------------------------
(* The invariant.                                                          *)

LEMMA NextStepIsSafe ==
  ASSUME BaseInv, LiveInv, [Next]_vars, faults' = {}
  PROVE  StepIsSafe
<1>1. CASE Create
  BY <1>1, NewContainerIsSafe, NewStringIsSafe, NewClosureIsSafe, CloseUpvalueIsSafe
     DEF Create
<1>2. CASE Mutate
  BY <1>2, MutateIsSafe
<1>3. CASE Load
  BY <1>3, LoadIsSafe
<1>4. CASE UNCHANGED vars
  BY <1>4, RootsByName, MoveIsSafe DEF vars
<1> QED BY <1>1, <1>2, <1>3, <1>4 DEF Next

LEMMA InitGcInv ==
  ASSUME Init
  PROVE  GcInv
<1>1. BaseInv
  BY InitBaseInv
<1>2. LiveInv
  BY DEF Init, LiveInv, RootsAlive, RootsOf, RefsAlive, FreeIsFree, MarksAreClean,
         ChunkIsFlat, StringsAreBare, CodeIsStrings, Interned, MetaLeadsToMap,
         SharedAreWritten, MarksInHeap, CompileApart
<1> QED BY <1>1, <1>2 DEF GcInv

(* Faults do not go away, so that a sound state had sound states before.   *)
LEMMA NextGcInv ==
  ASSUME GcInv, [Next]_vars
  PROVE  GcInv' /\ (faults' = {} => FreesGarbage)
<1>1. BaseInv' /\ faults \subseteq faults'
  BY NextBaseInv DEF GcInv
<1>2. CASE faults' = {}
  <2>1. LiveInv
    BY <1>1, <1>2 DEF GcInv, Sound
  <2> QED BY <1>1, <1>2, <2>1, NextStepIsSafe DEF GcInv, StepIsSafe
<1>3. CASE faults' # {}
  BY <1>1, <1>3 DEF GcInv, Sound
<1> QED BY <1>2, <1>3

THEOREM Invariance == Spec => []GcInv
<1>1. Init => GcInv
  BY InitGcInv
<1>2. GcInv /\ [Next]_vars => GcInv'
  BY NextGcInv
<1> QED BY <1>1, <1>2, PTL DEF Spec

(* Until a fault strikes, nothing that the program can still get at is     *)
(* ever freed: what it holds in registers, global variables and code, and  *)
(* whatever live objects refer to, keys of maps among them                 *)
(* (a2_gc.c:80-117, 155-234).                                              *)
THEOREM NothingLiveIsFreed == Spec => []NoDangling
<1>1. GcInv => NoDangling
  BY DEF GcInv, NoDangling, LiveInv
<1> QED BY <1>1, Invariance, PTL

(* Every collection finds and leaves clean marks: only the chunk that runs *)
(* and its constants are blue, everything else is white (a2_gc.c:98-117).  *)
THEOREM MarksStayClean == Spec => []MarksClean
<1>1. GcInv => MarksClean
  BY DEF GcInv, MarksClean, LiveInv, MarksAreClean
<1> QED BY <1>1, Invariance, PTL

(* Marking follows no pointer into freed memory or to a half closed        *)
(* upvalue before a fault has struck (a2_gc.c:157, 173, 196, 209).         *)
THEOREM MarkingStaysInHeap == Spec => []NeverWild
<1>1. GcInv => NeverWild
  BY DEF GcInv, NeverWild, LiveInv
<1> QED BY <1>1, Invariance, PTL

(* g_str has every live string once, and no string that is freed, until a  *)
(* deletion from it cuts a string off (a2_env.c:181-201, 381-385).         *)
THEOREM StringsStayInterned == Spec => []InternSound
<1>1. GcInv => InternSound
  BY DEF GcInv, InternSound, LiveInv
<1> QED BY <1>1, Invariance, PTL

(* A collection never takes the meta table from its map (a2_gc.c:190).     *)
THEOREM MetaStaysMap == Spec => []MetaIsMap
<1>1. GcInv => MetaIsMap
  BY DEF GcInv, MetaIsMap, LiveInv, MetaLeadsToMap
<1> QED BY <1>1, Invariance, PTL

(* A collection without a fault frees no object that the program can get   *)
(* at, and every object that not even a stale register leads to            *)
(* (a2_gc.c:80-96, 98-117).                                                *)
THEOREM ExactlyGarbageIsFreed == Spec => FreesExactlyGarbage
<1>1. GcInv /\ [Next]_vars =>
        [faults' = {} => IF Collects
                         THEN LiveBy(Regs \ stale) \cap linked \subseteq linked'
                                /\ linked' \cap linked \subseteq LiveBy(Regs)
                         ELSE linked \subseteq linked']_vars
  BY NextGcInv DEF FreesGarbage
<1> QED BY <1>1, Invariance, PTL DEF Spec, FreesExactlyGarbage

=============================================================================
