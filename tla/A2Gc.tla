-------------------------------- MODULE A2Gc --------------------------------
(***************************************************************************)
(* The mark-and-sweep collector of src/src/a2_gc.c over the objects of a   *)
(* running script: interned strings, arrays, maps with meta tables,        *)
(* closures with constants and upvalues.  Every creation ends in           *)
(* a2_gc_add, which may first run a whole collection; what the creation    *)
(* has already written by then, and what the roots already hold, is the    *)
(* interesting part of each action.                                        *)
(*                                                                         *)
(* Regs stands for the stack frame of the machine and the C stack, which a *)
(* collection marks alike (a2_vm.c:1107-1115, a2_env.c:232-237).  A frame  *)
(* that is left, and a new one in its place, do not clear the registers,   *)
(* and a collection may mark those that nothing has written since.         *)
(*                                                                         *)
(* There are eight ways in which the collector is known to go wrong, each  *)
(* possible in the program.  faults notes those that have struck so far,   *)
(* at the very step; what a script does besides, with string constants,    *)
(* string keys, closures and meta tables, is not restricted.  What the     *)
(* properties say holds until a fault has struck, so that anything else    *)
(* that goes wrong would be a ninth.  After a fault the model goes on with *)
(* one of its outcomes.                                                    *)
(***************************************************************************)
EXTENDS Naturals, FiniteSets

CONSTANTS
  Objs,           \* Addresses of a2_gcobj; a freed one is handed out again.
  NoObj,          \* The NULL pointer, and every value that is not an object.
  Regs,           \* Registers and C stack slots.
  NoReg,
  Globals,        \* Names of global variables.
  Strings,        \* Contents of strings.
  Containers,     \* Those of "array" and "map" that the script makes.
  DefThreshold,   \* DEF_THRESHOLD_VALUE.
  MaxEntries      \* Bound of the model: entries of one array or map.

AllFaults ==
  {"key",        \* A collection frees a string that is a key of a map it keeps.
   "code",       \* It frees a constant of a function without a closure yet.
   "blue",       \* It takes the blue mark off a constant of the running chunk.
   "creation",   \* It falls into a closure's creation and leaves it marked.
   "closing",    \* It falls into the closing of an upvalue.
   "register",   \* It marks what a stale register points to, freed meanwhile.
   "name",       \* A deletion from g_str cuts another string off (see A2Map).
   "meta"}       \* A new map has a meta table: its memory was not cleared.

ASSUME NoneAssumption == NoObj \notin Objs /\ NoReg \notin Regs
ASSUME FiniteAssumption == IsFiniteSet(Objs)
ASSUME ThresholdAssumption == DefThreshold \in Nat /\ MaxEntries \in Nat
ASSUME ContainersAssumption == Containers \subseteq {"array", "map"}

VARIABLES
  heap,        \* The object at each address.
  linked,      \* The objects in the gc chain.
  count,       \* gc_count.
  threshold,   \* gc_threshold.
  gcOpen,      \* gc_flag: FALSE exactly while a2_env_load compiles.
  interned,    \* g_str.
  regs,
  stale,       \* The registers that no frame has written since the last one
               \* that did was left.
  dangling,    \* Those of them whose object has been freed since.
  globals,     \* g_var.
  chunk,       \* The closure of the chunk that a2_env_load is running.
  code,        \* String constants compiled into functions that have no
               \* closure yet, and while compiling into the chunk itself.
  wild,        \* A collection has followed or left behind a wrong pointer.
  faults       \* The faults that have struck.

vars == <<heap, linked, count, threshold, gcOpen, interned, regs, stale,
          dangling, globals, chunk, code, wild, faults>>

(* What only a2_gc_add changes.                                            *)
added == <<linked, count, threshold, interned, wild, faults>>

-----------------------------------------------------------------------------
Kinds == {"free", "string", "array", "map", "closure", "upvalue"}

Marks == {"white", "black", "blue"}

Refs == Objs \cup {NoObj}

(* entries: <<key, value>> pairs of a map; of an array, of a closure (its  *)
(* closed upvalues and string constants) and of an upvalue object,         *)
(* <<NoObj, value>>.  open: the register an upvalue of a closure still     *)
(* shares with the frame it was made in (uv_stack).                        *)
Object ==
  [kind : Kinds, mark : Marks, entries : SUBSET (Refs \X Refs), meta : Refs,
   open : Regs \cup {NoReg}]

FreeObjects == {o \in Objs : heap[o].kind = "free"}

(* Faulty variants of Traced: meta tables, or the values of upvalue        *)
(* objects, are forgotten.                                                 *)
TracedNoMeta(h, o) == {e[2] : e \in h[o].entries} \ {NoObj}

TracedNoUpvalue(h, o) ==
  IF h[o].kind = "upvalue" THEN {}
  ELSE ({e[2] : e \in h[o].entries}
          \cup (IF h[o].kind = "map" THEN {h[o].meta} ELSE {})) \ {NoObj}

(* The objects that a mark of o goes on to: not the keys of a map          *)
(* (a2_gc.c:181-186), and the meta table of a map only.                    *)
Traced(h, o) ==
  ({e[2] : e \in h[o].entries}
     \cup (IF h[o].kind = "map" THEN {h[o].meta} ELSE {})) \ {NoObj}

(* The objects that o refers to.                                           *)
Held(h, o) ==
  ({e[1] : e \in h[o].entries} \cup {e[2] : e \in h[o].entries}
     \cup (IF h[o].kind = "map" THEN {h[o].meta} ELSE {})) \ {NoObj}

(* Faulty variant of RootsOf: the global variables are not marked.         *)
RootsOfRegs(rs, gs, S) == {rs[r] : r \in S} \ {NoObj}

(* What the registers S and the global variables hold.                     *)
RootsOf(rs, gs, S) == ({rs[r] : r \in S} \cup {gs[g] : g \in Globals}) \ {NoObj}

(* What has a blue mark by rights: the chunk that runs and its constants.  *)
Blue == IF chunk = NoObj THEN {} ELSE {chunk} \cup Held(heap, chunk)

-----------------------------------------------------------------------------
(* A collection (a2_vmgc) of the objects in chain, from the given roots.   *)

(* a2_gc_markit returns at once at a container that has a black or blue    *)
(* mark; strings and upvalue objects are marked again each time.           *)
Container(h, o) == h[o].kind \in {"array", "map", "closure"}

GoesOn(h, o) == Container(h, o) => h[o].mark = "white"

TraceClosed(h, S) == \A o \in S : GoesOn(h, o) => Traced(h, o) \subseteq S

(* The least set with the roots that marking does not lead out of: an      *)
(* object is in it if no such set misses it.                               *)
Reached(h, roots) ==
  {o \in Objs : \A S \in SUBSET (Objs \ {o}) :
     roots \subseteq S => ~TraceClosed(h, S)}

MarkAfter(h, reached, o) ==
  IF o \in reached /\ GoesOn(h, o) THEN "black" ELSE h[o].mark

(* Faulty variants of a2_gc_clear: upvalue objects are never freed; the    *)
(* mark is left on what survives.                                          *)
DeadNoUpvalue(h, reached) ==
  {o \in linked : h[o].kind # "upvalue" /\ MarkAfter(h, reached, o) = "white"}

(* a2_gc_clear frees the white objects of the chain and whitens the black  *)
(* ones.                                                                   *)
Dead(h, reached) == {o \in linked : MarkAfter(h, reached, o) = "white"}

Free ==
  [kind |-> "free", mark |-> "white", entries |-> {}, meta |-> NoObj,
   open |-> NoReg]

CollectedMarked(h, reached) ==
  [o \in Objs |->
     IF o \in Dead(h, reached) THEN Free
     ELSE [h[o] EXCEPT !.mark = MarkAfter(h, reached, o)]]

Collected(h, reached) ==
  [o \in Objs |->
     IF o \in Dead(h, reached) THEN Free
     ELSE IF o \in linked /\ MarkAfter(h, reached, o) = "black"
          THEN [h[o] EXCEPT !.mark = "white"]
          ELSE [h[o] EXCEPT !.mark = MarkAfter(h, reached, o)]]

(* Marking follows a pointer to freed memory, or the register index that a *)
(* half closed upvalue has where uv_gc promises a pointer; or it frees the *)
(* closure whose upvalue the caller goes on to write.                      *)
RunsWild(h, reached, half) ==
  \/ \E o \in reached : h[o].kind = "free" \/ o \in half
  \/ half \cap Dead(h, reached) # {}

(* Faulty variant of Due: one object too late.                             *)
DueLate(open) == open /\ count > threshold + 1

Due(open) == open /\ count > threshold

Larger(a, b) == IF a < b THEN b ELSE a

(* The faults that a collection brings, with fresh the stale registers     *)
(* among the roots and dead the objects that it frees.                     *)
Struck(h, o, roots, half, fresh, reached, dead) ==
  {f \in AllFaults :
     \/ f = "key" /\ \E x \in linked \ dead : \E e \in h[x].entries : e[1] \in dead
     \/ f = "code" /\ code' \cap dead # {}
     \/ f = "blue" /\ \E x \in reached : h[x].kind = "string" /\ h[x].mark = "blue"
     \/ f = "creation" /\ o \in roots
     \/ f = "closing" /\ half # {}
     \/ f = "register" /\ fresh \cap dangling # {}}

(* A string is cut off by the deletion of another one.                     *)
CutOff(lost, dead) ==
  lost # {} => /\ \A s \in lost : interned[s] # NoObj
               /\ \E s \in Strings \ lost : interned[s] \in dead

(* Faulty variant of GcAdd: gc_count is decremented twice for what a       *)
(* collection frees.                                                       *)
GcAddTwice(h, o, rs, old, open, half, names) ==
  \E fresh \in SUBSET old, lost \in SUBSET Strings :
    LET roots   == RootsOf(rs, globals, (Regs \ old) \cup fresh)
        reached == Reached(h, roots)
        dead    == IF Due(open) THEN Dead(h, reached) ELSE {}
        left    == count - 2 * Cardinality(dead)
    IN  /\ (Due(open) \/ fresh = {}) /\ CutOff(lost, dead)
        /\ heap' = IF Due(open) THEN Collected(h, reached) ELSE h
        /\ linked' = (linked \ dead) \cup {o}
        /\ count' = left + 1
        /\ threshold' = IF Due(open) THEN Larger(2 * left, DefThreshold)
                        ELSE threshold
        /\ interned' = [s \in Strings |->
                          IF s \in names THEN o
                          ELSE IF s \in lost \/ interned[s] \in dead THEN NoObj
                          ELSE interned[s]]
        /\ dangling' = {r \in stale' : r \in dangling \/ regs[r] \in dead}
        /\ UNCHANGED <<wild, faults>>

(* a2_gc_add of o, where h is the heap as the caller has written it so far *)
(* and rs the registers, but for old all of them written: a collection if  *)
(* one is due, and only then is o put into the chain.  names: what o is    *)
(* then entered under in g_str.                                            *)
GcAdd(h, o, rs, old, open, half, names) ==
  \E fresh \in SUBSET old, lost \in SUBSET Strings :
    LET roots   == RootsOf(rs, globals, (Regs \ old) \cup fresh)
        reached == Reached(h, roots)
        dead    == IF Due(open) THEN Dead(h, reached) ELSE {}
        left    == count - Cardinality(dead)
    IN  /\ (Due(open) \/ fresh = {}) /\ CutOff(lost, dead)
        /\ heap' = IF Due(open) THEN Collected(h, reached) ELSE h
        /\ linked' = (linked \ dead) \cup {o}
        /\ count' = left + 1
        /\ threshold' = IF Due(open) THEN Larger(2 * left, DefThreshold)
                        ELSE threshold
        /\ interned' = [s \in Strings |->
                          IF s \in names THEN o
                          ELSE IF s \in lost \/ interned[s] \in dead THEN NoObj
                          ELSE interned[s]]
        /\ dangling' = {r \in stale' : r \in dangling \/ regs[r] \in dead}
        /\ wild' = (wild \/ (Due(open) /\ RunsWild(h, reached, half)))
        /\ faults' = faults
             \cup (IF Due(open)
                   THEN Struck(h, o, roots, half, fresh, reached, dead) ELSE {})
             \cup (IF lost # {} THEN {"name"} ELSE {})
             \cup (IF h[o].meta # NoObj THEN {"meta"} ELSE {})

-----------------------------------------------------------------------------
(* Before the first load: a2_gc_new leaves the collector closed.           *)
Init ==
  /\ heap = [o \in Objs |-> Free]
  /\ linked = {}
  /\ count = 0
  /\ threshold = DefThreshold
  /\ gcOpen = FALSE
  /\ interned = [s \in Strings |-> NoObj]
  /\ regs = [r \in Regs |-> NoObj]
  /\ stale = {} /\ dangling = {}
  /\ globals = [g \in Globals |-> NoObj]
  /\ chunk = NoObj
  /\ code = {}
  /\ wild = FALSE
  /\ faults = {}

(* a2_nil2gcobj and the wrappers around it: a white object.  Nobody writes *)
(* its meta field, which only matters to a map: junk is what was there.    *)
NewObject(knd, ents, junk, op) ==
  [kind |-> knd, mark |-> "white", entries |-> ents, meta |-> junk, open |-> op]

(* Register r has been given the value v.                                  *)
Given(r, v) == regs' = [regs EXCEPT ![r] = v] /\ stale' = stale \ {r}

(* _vm_newlist and _vm_newmap: the register is written after a2_gcadd.     *)
NewContainer(o, r, knd, junk) ==
  /\ gcOpen /\ o \in FreeObjects /\ (knd = "map" \/ junk = NoObj)
  /\ Given(r, o)
  /\ UNCHANGED <<gcOpen, globals, chunk, code>>
  /\ GcAdd([heap EXCEPT ![o] = NewObject(knd, {}, junk, NoReg)], o, regs, stale,
           TRUE, {}, {})

(* a2_env_addstrobj as _vm_cat calls it, for a string that is in g_str...  *)
OldString(r, s) ==
  /\ gcOpen /\ interned[s] # NoObj
  /\ Given(r, interned[s]) /\ dangling' = dangling \ {r}
  /\ UNCHANGED <<heap, added, gcOpen, globals, chunk, code>>

(* Faulty variant of NewString: the new string is not entered into g_str.  *)
NewStringUnnamed(o, r, s) ==
  /\ gcOpen /\ o \in FreeObjects /\ interned[s] = NoObj
  /\ Given(r, o)
  /\ UNCHANGED <<gcOpen, globals, chunk, code>>
  /\ GcAdd([heap EXCEPT ![o] = NewObject("string", {}, NoObj, NoReg)], o, regs,
           stale, TRUE, {}, {})

(* ...and for one that is not.                                             *)
NewString(o, r, s) ==
  /\ gcOpen /\ o \in FreeObjects /\ interned[s] = NoObj
  /\ Given(r, o)
  /\ UNCHANGED <<gcOpen, globals, chunk, code>>
  /\ GcAdd([heap EXCEPT ![o] = NewObject("string", {}, NoObj, NoReg)], o, regs,
           stale, TRUE, {}, {s})

(* _vm_closure with a2_closure_new: the new closure may capture register q *)
(* and may have the constants compiled for it.  The register is written    *)
(* before a2_gcadd, so that a collection in there marks the closure while  *)
(* it is not yet in the chain.                                             *)
NewClosure(o, r, q, consts) ==
  /\ gcOpen /\ o \in FreeObjects /\ q \notin stale \ {r}
  /\ Given(r, o)
  /\ UNCHANGED <<gcOpen, globals, chunk, code>>
  /\ LET ents == {<<NoObj, c>> : c \in consts}
     IN  GcAdd([heap EXCEPT ![o] = NewObject("closure", ents, NoObj, q)], o,
               [regs EXCEPT ![r] = o], stale \ {r}, TRUE, {}, {})

(* The closures that share register r with the frame it belongs to.        *)
Sharing(r) == {c \in linked : heap[c].kind = "closure" /\ heap[c].open = r}

(* a2_closure_return, for the register r of the frame that ends: the       *)
(* closures that share r get an upvalue object u with its value.  By the   *)
(* time u is added, the type of cls's upvalue already says uv_gc.          *)
CloseUpvalue(u, r, cls) ==
  /\ gcOpen /\ u \in FreeObjects /\ cls \in Sharing(r)
  /\ stale' = stale \cup {x \in {r} : regs[x] # NoObj}
  /\ UNCHANGED <<gcOpen, regs, globals, chunk, code>>
  /\ GcAdd([c \in Objs |->
              IF c = u THEN NewObject("upvalue", {<<NoObj, regs[r]>>}, NoObj, NoReg)
              ELSE IF c \in Sharing(r)
              THEN [heap[c] EXCEPT !.entries = @ \cup {<<NoObj, u>>}, !.open = NoReg]
              ELSE heap[c]],
           u, regs, stale, TRUE, {cls}, {})

(* callinfo_free leaves the registers of a frame as they are; those that   *)
(* closures share have been closed before (see A2Frames).  A register      *)
(* without an object is as good as written.                                *)
Leave(r) ==
  /\ gcOpen /\ r \notin stale /\ regs[r] # NoObj /\ Sharing(r) = {}
  /\ stale' = stale \cup {r}
  /\ UNCHANGED <<heap, added, gcOpen, regs, dangling, globals, chunk, code>>

-----------------------------------------------------------------------------
(* What the script does with the objects it has.                           *)

Write(o, obj) ==
  /\ gcOpen
  /\ heap' = [heap EXCEPT ![o] = obj]
  /\ UNCHANGED <<added, gcOpen, regs, stale, dangling, globals, chunk, code>>

(* What an instruction can read with register r: the register, an entry of *)
(* its container or a key in a foreach, a constant or an upvalue of its    *)
(* closure...                                                              *)
ReadWith(r) ==
  LET o == regs[r]
      held == IF o = NoObj THEN {} ELSE Held(heap, o)
  IN  {o} \cup (IF o # NoObj /\ heap[o].kind = "closure"
                THEN {x \in held : heap[x].kind = "string"}
                       \cup UNION {Held(heap, u) : u \in {x \in held :
                                                   heap[x].kind = "upvalue"}}
                ELSE held)

(* ...or a global variable, a constant of the chunk, or a value that is no *)
(* object.                                                                 *)
Readable ==
  {NoObj} \cup {globals[g] : g \in Globals}
    \cup (IF chunk = NoObj THEN {} ELSE Held(heap, chunk))
    \cup UNION {ReadWith(r) : r \in Regs \ stale}

(* _vm_setlist, _vm_setmap, _vm_setvalue: the value of register q goes     *)
(* into the container in register r under a number, or the string k.       *)
PutEntry(r, q, k) ==
  LET o == regs[r] IN
  /\ {r, q} \cap stale = {}
  /\ o # NoObj /\ heap[o].kind \in {"array", "map"} /\ regs[q] # NoObj
  /\ k # NoObj => /\ heap[o].kind = "map"
                  /\ k \in Readable /\ heap[k].kind = "string"
  /\ Cardinality(heap[o].entries \cup {<<k, regs[q]>>}) <= MaxEntries
  /\ Write(o, [heap[o] EXCEPT !.entries = @ \cup {<<k, regs[q]>>}])

(* a2_delmap, or an entry overwritten with a value that is no object.      *)
DropEntry(r, e) ==
  LET o == regs[r] IN
  /\ r \notin stale
  /\ o # NoObj /\ heap[o].kind \in {"array", "map"} /\ e \in heap[o].entries
  /\ Write(o, [heap[o] EXCEPT !.entries = @ \ {e}])

(* a2_setmeta.                                                             *)
SetMeta(r, q) ==
  /\ {r, q} \cap stale = {}
  /\ regs[r] # NoObj /\ regs[q] # NoObj
  /\ heap[regs[r]].kind = "map" /\ heap[regs[q]].kind = "map"
  /\ Write(regs[r], [heap[regs[r]] EXCEPT !.meta = regs[q]])

(* An instruction whose result is the value of another register, of an     *)
(* entry, of an upvalue or of a constant.                                  *)
SetReg(q, v) ==
  /\ gcOpen /\ v \in Readable
  /\ Given(q, v) /\ dangling' = dangling \ {q}
  /\ UNCHANGED <<heap, added, gcOpen, globals, chunk, code>>

(* _vm_setglobal (a2_set_global).                                          *)
SetGlobal(g, r) ==
  /\ gcOpen /\ r \notin stale
  /\ globals' = [globals EXCEPT ![g] = regs[r]]
  /\ UNCHANGED <<heap, added, gcOpen, regs, stale, dangling, chunk, code>>

-----------------------------------------------------------------------------
(* a2_env_load.  One chunk at a time is a bound of the model, and so is    *)
(* that the functions a chunk leaves behind make no closures with string   *)
(* constants of their own.                                                 *)

LoadBegin ==
  /\ gcOpen /\ chunk = NoObj
  /\ gcOpen' = FALSE
  /\ UNCHANGED <<heap, added, regs, stale, dangling, globals, chunk, code>>

(* The lexer and the parser intern a string and use it as a constant.      *)
CompileString(o, s) ==
  /\ ~gcOpen
  /\ UNCHANGED <<gcOpen, regs, stale, globals, chunk>>
  /\ IF interned[s] # NoObj
     THEN /\ code' = code \cup {interned[s]}
          /\ UNCHANGED <<heap, added, dangling>>
     ELSE /\ o \in FreeObjects
          /\ code' = code \cup {o}
          /\ GcAdd([heap EXCEPT ![o] = NewObject("string", {}, NoObj, NoReg)], o,
                   regs, stale, FALSE, {}, {s})

(* The compilation succeeds: own are the constants of the chunk itself,    *)
(* the others those of the functions in it.  The closure and its constants *)
(* are marked blue, the collector is opened, the closure added.            *)
LoadRun(o, own) ==
  /\ ~gcOpen /\ o \in FreeObjects /\ own \subseteq code
  /\ gcOpen' = TRUE
  /\ chunk' = o
  /\ \E shared \in SUBSET own : code' = (code \ own) \cup shared
  /\ UNCHANGED <<regs, stale, globals>>
  /\ LET ents == {<<NoObj, c>> : c \in own}
         cls  == [NewObject("closure", ents, NoObj, NoReg) EXCEPT !.mark = "blue"]
     IN  GcAdd([x \in Objs |-> IF x = o THEN cls
                               ELSE IF x \in own
                               THEN [heap[x] EXCEPT !.mark = "blue"]
                               ELSE heap[x]],
               o, regs, stale, TRUE, {}, {})

(* It fails: a2_error_panic's longjmp, then only a2_gc_open.               *)
LoadFail ==
  /\ ~gcOpen
  /\ gcOpen' = TRUE
  /\ code' = {}
  /\ UNCHANGED <<heap, added, regs, stale, dangling, globals, chunk>>

(* a2_vm_load has returned, or failed; a2_gc_markit(mark_white) changes the*)
(* closure and its constants if the closure still has a mark.              *)
LoadEnd ==
  /\ gcOpen /\ chunk # NoObj
  /\ heap' = [o \in Objs |->
                IF o \in Blue THEN [heap[o] EXCEPT !.mark = "white"] ELSE heap[o]]
  /\ chunk' = NoObj
  /\ code' = {}
  /\ UNCHANGED <<added, gcOpen, regs, stale, dangling, globals>>

-----------------------------------------------------------------------------
Create ==
  \E o \in Objs, r \in Regs :
    \/ \E knd \in Containers, junk \in Refs : NewContainer(o, r, knd, junk)
    \/ \E s \in Strings : NewString(o, r, s)
    \/ \E q \in Regs \cup {NoReg}, consts \in {{}, code} : NewClosure(o, r, q, consts)
    \/ \E cls \in Objs : CloseUpvalue(o, r, cls)

Mutate ==
  \E r, q \in Regs :
    \/ \E k \in Refs : PutEntry(r, q, k)
    \/ \E e \in Refs \X Refs : DropEntry(r, e)
    \/ SetMeta(r, q)
    \/ \E v \in Refs : SetReg(q, v)
    \/ \E g \in Globals : SetGlobal(g, r)
    \/ \E s \in Strings : OldString(r, s)
    \/ Leave(r)

Load ==
  \/ LoadBegin
  \/ \E o \in Objs, s \in Strings : CompileString(o, s)
  \/ \E o \in Objs, own \in SUBSET code : LoadRun(o, own)
  \/ LoadFail
  \/ LoadEnd

Next == Create \/ Mutate \/ Load

Spec == Init /\ [][Next]_vars

-----------------------------------------------------------------------------
TypeOK ==
  /\ heap \in [Objs -> Object]
  /\ linked \subseteq Objs
  /\ count \in Nat /\ threshold \in Nat
  /\ gcOpen \in BOOLEAN /\ wild \in BOOLEAN
  /\ interned \in [Strings -> Refs]
  /\ regs \in [Regs -> Refs]
  /\ stale \subseteq Regs /\ dangling \subseteq stale
  /\ globals \in [Globals -> Refs]
  /\ chunk \in Refs
  /\ code \subseteq Objs
  /\ faults \subseteq AllFaults

(* gc_count is the number of objects in the chain (the assert of           *)
(* a2_gc.c:75), and an address is in use exactly if it is in the chain:    *)
(* nothing is freed twice or lost.                                         *)
CountIsChain ==
  /\ count = Cardinality(linked)
  /\ linked = {o \in Objs : heap[o].kind # "free"}

(* None of the known faults has struck.                                    *)
Sound == faults = {}

(* Everything the program can still use is alive: the registers but for    *)
(* the dangling ones, the global variables, the chunk that runs, the       *)
(* constants of functions it has yet to make closures of, and whatever a   *)
(* live object refers to.                                                  *)
RootsAlive ==
  /\ RootsOf(regs, globals, Regs \ dangling) \subseteq linked
  /\ ({chunk} \ {NoObj}) \cup code \subseteq linked

RefsAlive == \A o \in linked : Held(heap, o) \subseteq linked

(* Whatever the script builds and whenever collections come, nothing it    *)
(* can get at is ever freed but by one of the known faults.                *)
NoDangling == Sound => RootsAlive /\ RefsAlive

(* Marks are clean between collections: everything in the chain is white   *)
(* but for the chunk that runs and its constants, which are blue; a mark   *)
(* left over would end the next marking too early or keep an object for    *)
(* ever.                                                                   *)
MarksClean ==
  Sound => \A o \in linked :
             heap[o].mark = IF o \in Blue THEN "blue" ELSE "white"

(* g_str and the chain agree: every live string is interned once, and no   *)
(* entry of g_str survives its string.  The program compares strings by    *)
(* address, so a second object for one content would be another string.    *)
Interned ==
  /\ \A s \in Strings : interned[s] # NoObj =>
       interned[s] \in linked /\ heap[interned[s]].kind = "string"
  /\ \A o \in linked : heap[o].kind = "string" =>
       \E s \in Strings : /\ interned[s] = o
                          /\ \A t \in Strings \ {s} : interned[t] # o

(* This holds until a deletion from g_str cuts a string off.               *)
InternSound == Sound => Interned

(* Marking never leaves the heap: the type assertions at a2_gc.c:157, 173, *)
(* 196 and 209, which follow a pointer first.                              *)
MarksInHeap == ~wild

(* They fail only where a known fault has struck before.                   *)
NeverWild == Sound => MarksInHeap

(* A meta field leads to a map: the assertion at a2_gc.c:173 under the     *)
(* call at a2_gc.c:190.  This holds until a map is made in memory that was *)
(* not cleared; a collection never takes the meta table from its map.      *)
MetaIsMap ==
  Sound => \A o \in linked : heap[o].kind = "map" /\ heap[o].meta # NoObj =>
             heap[heap[o].meta].kind = "map"

(* The objects a program can get at, by any path, marks aside.             *)
Live(h, roots) ==
  {o \in Objs : \A S \in SUBSET (Objs \ {o}) :
     roots \subseteq S => \E x \in S : ~(Held(h, x) \subseteq S)}

(* The objects that are live by the registers S, or belong to the chunk.   *)
LiveBy(S) == Live(heap, RootsOf(regs, globals, S) \cup Blue')

Collects == gcOpen' /\ count > threshold /\ linked' \ linked # {}

(* A step frees an object only if a collection was due in it and the       *)
(* program cannot get at the object any more; and a collection frees every *)
(* object that not even a stale register leads to: garbage that one        *)
(* collection left would be left by the next as well.                      *)
FreesExactlyGarbage ==
  [][faults' = {} =>
       IF Collects
       THEN LiveBy(Regs \ stale) \cap linked \subseteq linked'
              /\ linked' \cap linked \subseteq LiveBy(Regs)
       ELSE linked \subseteq linked']_vars

(* While the collector is open, an object is only added to a heap that is  *)
(* within its threshold, which is at most twice what survived: the heap is *)
(* proportional to what is alive, however long the script runs.            *)
GrowthBounded ==
  [][linked' \ linked # {} /\ gcOpen' =>
       /\ count' <= threshold' + 1
       /\ threshold' > threshold => threshold' <= 2 * (count' - 1)]_vars

=============================================================================
