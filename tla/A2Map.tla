------------------------------- MODULE A2Map --------------------------------
(***************************************************************************)
(* The hash table of src/src/a2_map.c: an array of slots, a key stored at  *)
(* its home slot (hash % size) when that is free and otherwise in the      *)
(* first free slot after it, linked right behind the home slot.  next and  *)
(* front hold a slot number plus one, 0 for none, as in struct a2_slot.    *)
(*                                                                         *)
(* calc_hash is any function of the key.  Values of the C type a2_obj are  *)
(* members of Keys and Values.  The assertions of the code are properties  *)
(* here: outside debug builds they compile to nothing (a2_conf.h:49-52).   *)
(* The interpreter is single threaded; map_resize takes one step for each  *)
(* iteration of its loop and no other operation runs before it ends.       *)
(***************************************************************************)
EXTENDS Naturals, FiniteSets

CONSTANTS
  Keys,       \* The objects used as keys.
  Values,     \* The objects stored under them.
  NoKey,      \* The key of a free slot (_A2_TNULL).
  NoValue,    \* The value of a free slot.
  CalcHash,   \* calc_hash.
  InitSize,   \* DEFAULT_MAP_LEN.
  MaxSize     \* Bound of the model: a table is not doubled beyond it.

ASSUME NoneAssumption == NoKey \notin Keys /\ NoValue \notin Values
ASSUME HashAssumption == CalcHash \in [Keys -> Nat]
ASSUME SizeAssumption == InitSize \in Nat \ {0} /\ MaxSize \in Nat

VARIABLES
  size,       \* Number of slots.
  cap,        \* The code's count of stored entries.
  slots,      \* slot_p.
  newSlots,   \* The table map_resize is filling, << >> at other times.
  resizeIdx,  \* The loop index i of map_resize.
  pending,    \* The entry whose insertion waits for the resize.
  cursor,     \* The key register of a foreach loop over the map.
  seen,       \* The keys that loop has been given (history).
  stable      \* No entry was added or removed since the loop began (history).

table == <<size, cap, slots>>
resize == <<newSlots, resizeIdx, pending>>
iter == <<cursor, seen, stable>>
vars == <<size, cap, slots, newSlots, resizeIdx, pending, cursor, seen, stable>>

-----------------------------------------------------------------------------
(* Slots and walks along a chain.                                          *)

SlotsOf(n) == 0 .. n - 1

EmptySlot == [key |-> NoKey, value |-> NoValue, next |-> 0, front |-> 0]

EmptyTable(n) == [s \in SlotsOf(n) |-> EmptySlot]

Free(tab) == {s \in DOMAIN tab : tab[s].key = NoKey}

Occupied(tab) == {s \in DOMAIN tab : tab[s].key # NoKey}

Home(k, n) == CalcHash[k] % n

(* The slots a loop visits that starts at h and follows next for as long   *)
(* as it stands on a slot of pass: h and the smallest set of link targets  *)
(* that, with h, is closed under those links.                              *)
Targets(tab) == {tab[s].next - 1 : s \in {t \in DOMAIN tab : tab[t].next # 0}}

Closed(tab, pass, S) ==
  \A s \in S \cap pass : tab[s].next # 0 => tab[s].next - 1 \in S

Walk(tab, h, pass) ==
  {s \in {h} \cup Targets(tab) :
     \A S \in SUBSET Targets(tab) :
       Closed(tab, pass, {h} \cup S) => s \in {h} \cup S}

(* Such a loop ends iff it reaches a slot it does not go on from.          *)
WalkEnds(tab, h, pass) ==
  \E s \in Walk(tab, h, pass) : s \notin pass \/ tab[s].next = 0

(* _a2_map_query goes on from an occupied slot that holds another key.     *)
Passed(tab, k) == {s \in DOMAIN tab : tab[s].key \notin {NoKey, k}}

Hits(tab, k) ==
  {s \in Walk(tab, Home(k, Cardinality(DOMAIN tab)), Passed(tab, k)) :
     tab[s].key = k}

SlotOf(tab, k) == CHOOSE s \in Hits(tab, k) : TRUE

Query(tab, k) ==
  IF Hits(tab, k) = {} THEN NoValue ELSE tab[SlotOf(tab, k)].value

-----------------------------------------------------------------------------
(* Inserting an entry (a2_map_add, and the loop body of map_resize).       *)

(* Linear probing: the free slot nearest after h, around the end.          *)
Distance(h, s, n) == (s + n - h) % n

FirstFree(tab, h, n) ==
  CHOOSE e \in Free(tab) :
    \A f \in Free(tab) : Distance(h, e, n) <= Distance(h, f, n)

(* The entry is put at its free home slot, whose links are left alone.     *)
PutAt(tab, h, k, v) == [tab EXCEPT ![h].key = k, ![h].value = v]

(* Faulty variants of LinkAfter: the successor keeps its old front link;   *)
(* the new slot is linked back to h; the next link is one too high.        *)
LinkAfterOldFront(tab, h, e, k, v) ==
  [tab EXCEPT ![e].key = k, ![e].value = v, ![e].next = tab[h].next,
              ![e].front = h + 1, ![h].next = e + 1]

LinkAfterCircle(tab, h, e, k, v) ==
  [tab EXCEPT ![e].key = k, ![e].value = v, ![e].next = h + 1,
              ![e].front = h + 1, ![h].next = e + 1]

LinkAfterOffByOne(tab, h, e, k, v) ==
  [tab EXCEPT ![e].key = k, ![e].value = v, ![e].next = tab[h].next,
              ![e].front = h + 1, ![h].next = e + 2]

(* The entry is put into e and e linked between h and its successor.  The  *)
(* writes are made in the order of the code: e and the successor of h can  *)
(* be the same slot when links are stale.                                  *)
LinkAfter(tab, h, e, k, v) ==
  LET t1 == [tab EXCEPT ![e].key = k, ![e].value = v,
                        ![e].next = tab[h].next]
      t2 == IF tab[h].next = 0
            THEN t1
            ELSE [t1 EXCEPT ![tab[h].next - 1].front = e + 1]
  IN  [t2 EXCEPT ![e].front = h + 1, ![h].next = e + 1]

Insert(tab, n, k, v) ==
  LET h == Home(k, n)
  IN  IF tab[h].key = NoKey
      THEN PutAt(tab, h, k, v)
      ELSE LinkAfter(tab, h, FirstFree(tab, h, n), k, v)

-----------------------------------------------------------------------------
(* No map_resize is under way.                                             *)
Idle == newSlots = << >>

NoEntry == [key |-> NoKey, value |-> NoValue]

Init ==
  /\ size = InitSize
  /\ cap = 0
  /\ slots = EmptyTable(InitSize)
  /\ newSlots = << >>
  /\ resizeIdx = 0
  /\ pending = NoEntry
  /\ cursor = NoKey
  /\ seen = {}
  /\ stable = FALSE

QueryEnds(k) == WalkEnds(slots, Home(k, size), Passed(slots, k))

(* a2_map_set of a key the query finds: the value is overwritten in place. *)
SetExisting(k, v) ==
  /\ Idle
  /\ Hits(slots, k) # {}
  /\ slots' = [slots EXCEPT ![SlotOf(slots, k)].value = v]
  /\ UNCHANGED <<size, cap, resize, iter>>

(* The walk of a2_map_add along the chain of an occupied home slot, which, *)
(* unlike the query, does not stop at a free slot.  A duplicate ends the   *)
(* insertion without a change.                                             *)
AddWalk(tab, n, k) ==
  Walk(tab, Home(k, n), {s \in DOMAIN tab : tab[s].key # k})

Duplicate(tab, n, k) ==
  /\ tab[Home(k, n)].key # NoKey
  /\ \E s \in AddWalk(tab, n, k) : tab[s].key = k

AddWalkEnds(tab, n, k) ==
  \/ tab[Home(k, n)].key = NoKey
  \/ \E s \in AddWalk(tab, n, k) : tab[s].key = k \/ tab[s].next = 0

(* a2_map_add, reached when the query of the key failed.                   *)
AddNew(k, v) ==
  /\ Idle
  /\ Hits(slots, k) = {}
  /\ QueryEnds(k)
  /\ cap < size
  /\ AddWalkEnds(slots, size, k)
  /\ ~Duplicate(slots, size, k)
  /\ slots' = Insert(slots, size, k, v)
  /\ cap' = cap + 1
  /\ stable' = FALSE
  /\ UNCHANGED <<size, resize, cursor, seen>>

(* a2_map_add of a full table calls map_resize, which allocates the        *)
(* doubled table ...                                                       *)
AddResize(k, v) ==
  /\ Idle
  /\ Hits(slots, k) = {}
  /\ QueryEnds(k)
  /\ cap >= size
  /\ 2 * size <= MaxSize
  /\ newSlots' = EmptyTable(2 * size)
  /\ resizeIdx' = 0
  /\ pending' = [key |-> k, value |-> v]
  /\ UNCHANGED <<table, iter>>

(* Faulty variant of ResizeStep: home slots are computed with the old size.*)
ResizeStepOldSize ==
  /\ ~Idle
  /\ resizeIdx < size
  /\ newSlots' = Insert(newSlots, size,
                        slots[resizeIdx].key, slots[resizeIdx].value)
  /\ resizeIdx' = resizeIdx + 1
  /\ UNCHANGED <<table, pending, iter>>

(* ... moves the entries over one by one ...                               *)
ResizeStep ==
  /\ ~Idle
  /\ resizeIdx < size
  /\ newSlots' = Insert(newSlots, 2 * size,
                        slots[resizeIdx].key, slots[resizeIdx].value)
  /\ resizeIdx' = resizeIdx + 1
  /\ UNCHANGED <<table, pending, iter>>

(* ... and installs the new table, into which a2_map_add then inserts the  *)
(* entry it was called for, unless its walk meets the key there.           *)
ResizeDone ==
  /\ ~Idle
  /\ resizeIdx = size
  /\ size' = 2 * size
  /\ IF Duplicate(newSlots, 2 * size, pending.key)
     THEN slots' = newSlots /\ cap' = cap
     ELSE /\ slots' = Insert(newSlots, 2 * size, pending.key, pending.value)
          /\ cap' = cap + 1
  /\ newSlots' = << >>
  /\ resizeIdx' = 0
  /\ pending' = NoEntry
  /\ stable' = FALSE
  /\ UNCHANGED <<cursor, seen>>

(* a2_map_del of an entry that is not the head of its chain: its           *)
(* neighbours are joined, the successor first being read from the slot.    *)
Unlink(tab, s) ==
  LET t1 == [tab EXCEPT ![tab[s].front - 1].next = tab[s].next]
      t2 == IF t1[s].next = 0
            THEN t1
            ELSE [t1 EXCEPT ![t1[s].next - 1].front = t1[s].front]
  IN  [t2 EXCEPT ![s] = EmptySlot]

(* a2_map_del of the head of a chain: the second slot moves into the head. *)
(* The front link of the third one is not adjusted.                        *)
PopHead(tab, s) ==
  IF tab[s].next = 0
  THEN [tab EXCEPT ![s] = EmptySlot]
  ELSE LET n == tab[s].next - 1
       IN  [tab EXCEPT ![s] = [tab[n] EXCEPT !.front = 0], ![n] = EmptySlot]

Remove(tab, s) == IF tab[s].front # 0 THEN Unlink(tab, s) ELSE PopHead(tab, s)

(* Faulty variant of Del: cap is not decremented.                          *)
DelUncounted(k) ==
  /\ Idle
  /\ Hits(slots, k) # {}
  /\ slots' = Remove(slots, SlotOf(slots, k))
  /\ stable' = FALSE
  /\ UNCHANGED <<size, cap, resize, cursor, seen>>

Del(k) ==
  /\ Idle
  /\ Hits(slots, k) # {}
  /\ slots' = Remove(slots, SlotOf(slots, k))
  /\ cap' = cap - 1
  /\ stable' = FALSE
  /\ UNCHANGED <<size, resize, cursor, seen>>

(* a2_map_clear.                                                           *)
Clear ==
  /\ Idle
  /\ slots' = EmptyTable(size)
  /\ cap' = 0
  /\ stable' = FALSE
  /\ UNCHANGED <<size, resize, cursor, seen>>

-----------------------------------------------------------------------------
(* A foreach loop calls a2_map_next with the key of the previous round:    *)
(* the nil key starts at slot 0, any other one goes on behind its slot.    *)

(* Faulty variant of LowestFrom: the slot at b itself is passed over.      *)
LowestBehind(tab, b) ==
  {s \in Occupied(tab) : s > b /\ \A t \in Occupied(tab) : t > b => s <= t}

LowestFrom(tab, b) ==
  {s \in Occupied(tab) : s >= b /\ \A t \in Occupied(tab) : t >= b => s <= t}

(* Faulty variant of ResumeAt: the slot of the previous round itself.      *)
ResumeAtSame(k) == SlotOf(slots, k)

(* Where a call with the key k of the previous round starts to look.       *)
ResumeAt(k) == SlotOf(slots, k) + 1

IterGive(b) ==
  \E s \in LowestFrom(slots, b) :
    /\ cursor' = slots[s].key
    /\ seen' = IF b = 0 THEN {slots[s].key} ELSE seen \cup {slots[s].key}

(* The first call of the loop on a map that is not empty.                  *)
IterBegin ==
  /\ Idle
  /\ cursor = NoKey
  /\ IterGive(0)
  /\ stable' = TRUE
  /\ UNCHANGED <<table, resize>>

(* A further call: the key of the previous round is found, and an entry    *)
(* lies behind it.                                                         *)
IterNext ==
  /\ Idle
  /\ cursor # NoKey
  /\ Hits(slots, cursor) # {}
  /\ IterGive(ResumeAt(cursor))
  /\ UNCHANGED <<table, resize, stable>>

(* The call answers NULL: the key of the previous round is gone or is the  *)
(* last of the table.  The loop ends, whatever it has not reached.         *)
IterExhausted ==
  /\ cursor # NoKey
  /\ \/ Hits(slots, cursor) = {} /\ QueryEnds(cursor)
     \/ /\ Hits(slots, cursor) # {}
        /\ LowestFrom(slots, ResumeAt(cursor)) = {}

IterEnd ==
  /\ Idle
  /\ IterExhausted
  /\ cursor' = NoKey
  /\ seen' = {}
  /\ stable' = FALSE
  /\ UNCHANGED <<table, resize>>

-----------------------------------------------------------------------------
(* The operations that remove no single entry, and a foreach loop.         *)
TableNext ==
  \/ \E k \in Keys, v \in Values :
       SetExisting(k, v) \/ AddNew(k, v) \/ AddResize(k, v)
  \/ ResizeStep
  \/ ResizeDone
  \/ Clear

LoopNext == IterBegin \/ IterNext \/ IterEnd

(* A table from which nothing is ever deleted: the globals, the registry   *)
(* (a2_env.c), the symbol tables (a2_ir.c), many maps of a script.         *)
GrowNext == TableNext \/ LoopNext

(* The table of a map of a script (libmap's add and del).                  *)
DelNext == TableNext \/ \E k \in Keys : Del(k)

(* A map of a script and a foreach loop over it.                           *)
Next == GrowNext \/ \E k \in Keys : Del(k)

GrowSpec == Init /\ [][GrowNext]_vars

DelSpec == Init /\ [][DelNext]_vars

Spec == Init /\ [][Next]_vars

-----------------------------------------------------------------------------
SlotType(n) ==
  [key : Keys \cup {NoKey}, value : Values \cup {NoValue},
   next : 0 .. n, front : 0 .. n]

(* Every link of every table stays within the table: the code never        *)
(* indexes slot_p outside its allocation, even when links are stale.       *)
TypeOK ==
  /\ size \in Nat \ {0}
  /\ cap \in Nat
  /\ slots \in [SlotsOf(size) -> SlotType(size)]
  /\ resizeIdx \in 0 .. size
  /\ IF Idle THEN pending = NoEntry
             ELSE /\ pending \in [key : Keys, value : Values]
                  /\ newSlots \in [SlotsOf(2 * size) -> SlotType(2 * size)]
  /\ cursor \in Keys \cup {NoKey}
  /\ seen \subseteq Keys
  /\ stable \in BOOLEAN

(* cap counts the occupied slots through every mixture of insertions,      *)
(* deletions and resizes.  The linear probes of a2_map_add and map_resize  *)
(* have no other end than a free slot, and map_resize copies every slot on *)
(* the strength of its assertion that a full table has no free one         *)
(* (a2_map.c:72, 177-178, 200-201).                                        *)
CapIsOccupancy ==
  /\ cap = Cardinality(Occupied(slots))
  /\ ~Idle => /\ Free(slots) = {}
              /\ Cardinality(Occupied(newSlots)) = resizeIdx

(* No key is stored twice: a2_map_add treats that as impossible            *)
(* (a2_map.c:191-193).                                                     *)
NoDuplicateKeys ==
  \A s, t \in Occupied(slots) : slots[s].key = slots[t].key => s = t

(* Every entry is found under its key, from the home slot of the key, in   *)
(* the table in use and in the one being filled (a2_map.c:101-120).        *)
EntriesReachable(tab) == \A s \in Occupied(tab) : Hits(tab, tab[s].key) = {s}

(* The shape of a table nothing was deleted from: free slots have no       *)
(* links, links lead from one occupied slot to another, and every entry is *)
(* where a query finds it.  The assertions of a2_map_add at a2_map.c:182,  *)
(* 190, 192 and 203 hold in every table of that shape.                     *)
WellLinked(tab) ==
  /\ \A s \in Free(tab) : tab[s].next = 0 /\ tab[s].front = 0
  /\ \A s \in DOMAIN tab :
       tab[s].next # 0 => /\ tab[s].next - 1 \in Occupied(tab)
                          /\ tab[tab[s].next - 1].front = s + 1
  /\ EntriesReachable(tab)

(* A table that only grows keeps that shape, the one being filled too, and *)
(* a resize has so far moved exactly the entries before its index: none is *)
(* lost and none is copied twice.                                          *)
GrowInv ==
  /\ WellLinked(slots)
  /\ ~Idle =>
       /\ WellLinked(newSlots)
       /\ \A s \in Occupied(newSlots) :
            \E i \in 0 .. resizeIdx - 1 :
              /\ newSlots[s].key = slots[i].key
              /\ newSlots[s].value = slots[i].value
       /\ \A i \in 0 .. resizeIdx - 1 : Hits(newSlots, slots[i].key) # {}
       /\ Hits(slots, pending.key) = {}

(* The search for any key ends: no chain runs into a circle                *)
(* (a2_map.c:107-118).                                                     *)
QueriesEnd == Idle => \A k \in Keys : QueryEnds(k)

(* A foreach loop during which no entry is added or removed is given every *)
(* key of the map before it ends (a2_map.c:133-147).                       *)
IterationComplete ==
  stable /\ IterExhausted => seen = {slots[s].key : s \in Occupied(slots)}

(* Such a loop is given no key twice: what the next call finds is new.     *)
IterationFresh ==
  stable /\ Hits(slots, cursor) # {} =>
    \A s \in LowestFrom(slots, ResumeAt(cursor)) : slots[s].key \notin seen

-----------------------------------------------------------------------------
(* The table in use answers queries as a dictionary does; a resize is      *)
(* invisible until its last step.                                          *)
Dict == INSTANCE A2Dict WITH dict <- [k \in Keys |-> Query(slots, k)]

(* Every operation of the table changes what queries answer exactly as the *)
(* same operation of a dictionary would: no entry is lost, revived or      *)
(* mixed up by collisions, shared chains or resizes.                       *)
RefinesDict == Dict!Spec

=============================================================================
