---------------------------- MODULE A2Map_proofs ----------------------------
(***************************************************************************)
(* Proofs about A2Map, for every set of keys and values, every hash        *)
(* function and every initial size.                                        *)
(***************************************************************************)
EXTENDS A2Map, FiniteSetTheorems, TLAPS

(* A table of n slots.                                                     *)
TableType(n) == [SlotsOf(n) -> SlotType(n)]

-----------------------------------------------------------------------------
(* A nonempty finite set of numbers has a least one: what the linear       *)
(* probe, which starts nearest to the home slot, comes to first.           *)
LEMMA LeastElement ==
  ASSUME NEW S \in SUBSET Nat, IsFiniteSet(S), S # {}
  PROVE  \E m \in S : \A x \in S : m <= x
<1> DEFINE Below(x) == {y \in S : y <= x}
           T == {Below(x) : x \in S}
           R == StrictSubsetOrdering(S)
<1>1. T \subseteq FiniteSubsetsOf(S)
  <2> SUFFICES ASSUME NEW x \in S PROVE Below(x) \in FiniteSubsetsOf(S)
    OBVIOUS
  <2>1. Below(x) \in SUBSET S
    OBVIOUS
  <2>2. IsFiniteSet(Below(x))
    BY <2>1, FS_Subset
  <2> QED BY <2>1, <2>2 DEF FiniteSubsetsOf
<1>2. T # {}
  OBVIOUS
<1>3. PICK B \in T : \A C \in T : <<C, B>> \notin R
  BY <1>1, <1>2, FS_StrictSubsetOrderingWellFounded, WFMin
<1>4. PICK m \in S : B = Below(m)
  OBVIOUS
<1>5. ASSUME NEW x \in S, ~(m <= x) PROVE FALSE
  <2>1. x < m /\ x \in Nat /\ m \in Nat
    BY <1>5
  <2>2. Below(x) \subseteq Below(m)
    <3>1. ASSUME NEW y \in S, y <= x PROVE y <= m
      <4>1. y \in Nat
        OBVIOUS
      <4> QED BY <2>1, <3>1, <4>1
    <3> QED BY <3>1
  <2>3. m \in Below(m) /\ m \notin Below(x)
    BY <2>1
  <2>4. Below(x) \in T /\ Below(x) \in SUBSET S /\ Below(m) \in SUBSET S
    OBVIOUS
  <2>5. <<Below(x), Below(m)>> \in R
    BY <2>2, <2>3, <2>4 DEF StrictSubsetOrdering
  <2> QED BY <1>3, <1>4, <2>4, <2>5
<1> QED BY <1>5

-----------------------------------------------------------------------------
(* A home slot is a slot of the table.                                     *)
LEMMA HomeIsSlot ==
  ASSUME NEW n \in Nat \ {0}, NEW k \in Keys
  PROVE  Home(k, n) \in SlotsOf(n)
BY HashAssumption DEF Home, SlotsOf

(* The distance of two slots is less than the size of the table.           *)
LEMMA DistanceIsNat ==
  ASSUME NEW n \in Nat \ {0}, NEW h \in SlotsOf(n), NEW s \in SlotsOf(n)
  PROVE  Distance(h, s, n) \in SlotsOf(n)
<1>1. s + n - h \in Nat
  BY DEF SlotsOf
<1> QED BY <1>1 DEF Distance, SlotsOf

(* The probe ends on a free slot when there is one.                        *)
LEMMA FirstFreeIsFree ==
  ASSUME NEW n \in Nat \ {0}, NEW tab \in TableType(n), NEW h \in SlotsOf(n),
         Free(tab) # {}
  PROVE  FirstFree(tab, h, n) \in Free(tab)
<1> DEFINE D == {Distance(h, s, n) : s \in Free(tab)}
<1>1. Free(tab) \subseteq SlotsOf(n)
  BY DEF Free, TableType
<1>2. D \in SUBSET Nat /\ D \subseteq 0 .. n - 1
  <2>1. \A s \in Free(tab) : Distance(h, s, n) \in SlotsOf(n)
    BY <1>1, DistanceIsNat
  <2>2. D \subseteq 0 .. n - 1
    BY <2>1 DEF SlotsOf
  <2>3. 0 .. n - 1 \subseteq Nat
    OBVIOUS
  <2> QED BY <2>2, <2>3
<1>3. IsFiniteSet(D)
  <2>1. IsFiniteSet(0 .. n - 1)
    BY FS_Interval
  <2> QED BY <1>2, <2>1, FS_Subset
<1>4. D # {}
  OBVIOUS
<1>5. PICK m \in D : \A x \in D : m <= x
  BY <1>2, <1>3, <1>4, LeastElement
<1>6. \E e \in Free(tab) :
        \A f \in Free(tab) : Distance(h, e, n) <= Distance(h, f, n)
  BY <1>5
<1> QED BY <1>6 DEF FirstFree

(* What a walk visits is a slot.                                           *)
LEMMA WalkInTable ==
  ASSUME NEW n \in Nat \ {0}, NEW tab \in TableType(n), NEW h \in SlotsOf(n),
         NEW pass
  PROVE  Walk(tab, h, pass) \subseteq SlotsOf(n)
<1>1. Targets(tab) \subseteq SlotsOf(n)
  BY DEF Targets, TableType, SlotType, SlotsOf
<1> QED BY <1>1 DEF Walk

(* A query that finds a key finds it in an occupied slot of the table.     *)
LEMMA HitsInTable ==
  ASSUME NEW n \in Nat \ {0}, NEW tab \in TableType(n), NEW k \in Keys,
         Hits(tab, k) # {}
  PROVE  /\ SlotOf(tab, k) \in Hits(tab, k)
         /\ SlotOf(tab, k) \in SlotsOf(n)
         /\ tab[SlotOf(tab, k)].key = k
         /\ SlotOf(tab, k) \in Occupied(tab)
<1>1. Cardinality(DOMAIN tab) = n
  BY FS_Interval DEF TableType, SlotsOf
<1>2. Hits(tab, k) \subseteq SlotsOf(n)
  BY <1>1, HomeIsSlot, WalkInTable DEF Hits
<1>3. SlotOf(tab, k) \in Hits(tab, k)
  BY DEF SlotOf
<1>4. tab[SlotOf(tab, k)].key = k
  BY <1>3 DEF Hits
<1> QED BY <1>2, <1>3, <1>4, NoneAssumption DEF Occupied, TableType

(* A table of n slots has n occupied slots exactly if none is free.        *)
LEMMA TableFinite ==
  ASSUME NEW n \in Nat \ {0}, NEW tab \in TableType(n)
  PROVE  /\ IsFiniteSet(Occupied(tab))
         /\ Cardinality(Occupied(tab)) \in 0 .. n
         /\ Cardinality(Occupied(tab)) = n <=> Free(tab) = {}
<1>1. IsFiniteSet(SlotsOf(n)) /\ Cardinality(SlotsOf(n)) = n
  BY FS_Interval DEF SlotsOf
<1>2. Occupied(tab) \in SUBSET SlotsOf(n)
  BY DEF Occupied, TableType
<1>3. /\ IsFiniteSet(Occupied(tab))
      /\ Cardinality(Occupied(tab)) <= n
      /\ Cardinality(Occupied(tab)) = n => Occupied(tab) = SlotsOf(n)
  BY <1>1, <1>2, FS_Subset
<1>4. Occupied(tab) = SlotsOf(n) <=> Free(tab) = {}
  BY DEF Occupied, Free, TableType
<1> QED BY <1>1, <1>3, <1>4, FS_CardinalityType

-----------------------------------------------------------------------------
(* Inserting an entry: the fields of every slot afterwards.                *)

(* What PutAt writes.                                                      *)
LEMMA PutAtFields ==
  ASSUME NEW n \in Nat \ {0}, NEW tab \in TableType(n), NEW h \in SlotsOf(n),
         NEW k \in Keys, NEW v \in Values \cup {NoValue}
  PROVE  LET new == PutAt(tab, h, k, v)
         IN  /\ new \in TableType(n)
             /\ new[h].key = k /\ new[h].value = v
             /\ \A s \in SlotsOf(n) :
                  /\ new[s].next = tab[s].next
                  /\ new[s].front = tab[s].front
                  /\ s # h => new[s] = tab[s]
BY DEF PutAt, TableType, SlotType

(* What LinkAfter writes: a table again, with one more slot occupied.      *)
LEMMA LinkAfterFields ==
  ASSUME NEW n \in Nat \ {0}, NEW tab \in TableType(n), NEW h \in SlotsOf(n),
         NEW e \in SlotsOf(n), h # e, NEW k \in Keys, NEW v \in Values \cup {NoValue}
  PROVE  LET new == LinkAfter(tab, h, e, k, v)
         IN  /\ new \in TableType(n)
             /\ new[e].key = k /\ new[e].value = v
             /\ new[e].next = tab[h].next /\ new[e].front = h + 1
             /\ new[h].next = e + 1
             /\ \A s \in SlotsOf(n) \ {e} :
                  /\ new[s].key = tab[s].key
                  /\ new[s].value = tab[s].value
                  /\ s # h => new[s].next = tab[s].next
                  /\ new[s].front = IF tab[h].next = s + 1 THEN e + 1
                                                         ELSE tab[s].front
<1> DEFINE t1 == [tab EXCEPT ![e].key = k, ![e].value = v,
                             ![e].next = tab[h].next]
           t2 == IF tab[h].next = 0
                 THEN t1
                 ELSE [t1 EXCEPT ![tab[h].next - 1].front = e + 1]
           t3 == [t2 EXCEPT ![e].front = h + 1, ![h].next = e + 1]
<1> USE DEF TableType, SlotType
<1>1. h + 1 \in 0 .. n /\ e + 1 \in 0 .. n
  BY DEF SlotsOf
<1>2. /\ t1 \in TableType(n)
      /\ t1[e].key = k /\ t1[e].value = v /\ t1[e].next = tab[h].next
      /\ \A s \in SlotsOf(n) \ {e} : t1[s] = tab[s]
  OBVIOUS
<1>3. /\ t2 \in TableType(n)
      /\ \A s \in SlotsOf(n) :
           /\ t2[s].key = t1[s].key
           /\ t2[s].value = t1[s].value
           /\ t2[s].next = t1[s].next
           /\ t2[s].front = IF tab[h].next = s + 1 THEN e + 1
                                                 ELSE t1[s].front
  <2>1. CASE tab[h].next = 0
    BY <1>2, <2>1 DEF SlotsOf
  <2>2. CASE tab[h].next # 0
    <3>1. tab[h].next - 1 \in SlotsOf(n)
      BY <2>2 DEF SlotsOf
    <3>2. \A s \in SlotsOf(n) : tab[h].next = s + 1 <=> s = tab[h].next - 1
      BY <2>2 DEF SlotsOf
    <3> HIDE DEF t1
    <3> QED BY <1>1, <1>2, <2>2, <3>1, <3>2
  <2> QED BY <2>1, <2>2
<1> HIDE DEF t1, t2
<1>4. /\ t3 \in TableType(n)
      /\ t3[e].key = t2[e].key /\ t3[e].value = t2[e].value
      /\ t3[e].next = t2[e].next /\ t3[e].front = h + 1
      /\ t3[h].next = e + 1
      /\ \A s \in SlotsOf(n) \ {e} :
           /\ t3[s].key = t2[s].key
           /\ t3[s].value = t2[s].value
           /\ s # h => t3[s].next = t2[s].next
           /\ t3[s].front = t2[s].front
  BY <1>1, <1>3
<1>5. LinkAfter(tab, h, e, k, v) = t3
  BY DEF LinkAfter, t1, t2
<1> HIDE DEF t3
<1> QED BY <1>2, <1>3, <1>4, <1>5

(* One free slot becomes occupied, and no other changes its key or value.  *)
LEMMA InsertOccupies ==
  ASSUME NEW n \in Nat \ {0}, NEW tab \in TableType(n), NEW k \in Keys,
         NEW v \in Values \cup {NoValue}, Free(tab) # {}
  PROVE  /\ Insert(tab, n, k, v) \in TableType(n)
         /\ \E e \in Free(tab) :
              Occupied(Insert(tab, n, k, v)) = Occupied(tab) \cup {e}
<1> DEFINE h == Home(k, n)
           e == FirstFree(tab, h, n)
           new == Insert(tab, n, k, v)
<1>1. h \in SlotsOf(n)
  BY HomeIsSlot
<1>2. e \in Free(tab) /\ e \in SlotsOf(n)
  BY <1>1, FirstFreeIsFree DEF Free, TableType
<1>3. CASE tab[h].key = NoKey
  <2>1. new = PutAt(tab, h, k, v) /\ h \in Free(tab)
    BY <1>1, <1>3 DEF Insert, Free, TableType
  <2> HIDE DEF h, e, new
  <2>2. new \in TableType(n) /\ new[h].key = k
        /\ \A s \in SlotsOf(n) : s # h => new[s] = tab[s]
    BY <1>1, <2>1, PutAtFields
  <2>3. Occupied(new) = Occupied(tab) \cup {h}
    BY <1>1, <2>2, NoneAssumption DEF Occupied, TableType
  <2> QED BY <2>1, <2>2, <2>3 DEF new
<1>4. CASE tab[h].key # NoKey
  <2>1. new = LinkAfter(tab, h, e, k, v) /\ h # e
    BY <1>1, <1>2, <1>4 DEF Insert, Free
  <2> HIDE DEF h, e, new
  <2>2. new \in TableType(n) /\ new[e].key = k
        /\ \A s \in SlotsOf(n) \ {e} : new[s].key = tab[s].key
    BY <1>1, <1>2, <2>1, LinkAfterFields
  <2>3. Occupied(new) = Occupied(tab) \cup {e}
    BY <1>2, <2>2, NoneAssumption DEF Occupied, TableType
  <2> QED BY <1>2, <2>2, <2>3 DEF new
<1> QED BY <1>3, <1>4

(* Insertion into a table with a free slot raises the count by one.        *)
LEMMA InsertCounts ==
  ASSUME NEW n \in Nat \ {0}, NEW tab \in TableType(n), NEW k \in Keys,
         NEW v \in Values \cup {NoValue}, Cardinality(Occupied(tab)) < n
  PROVE  /\ Insert(tab, n, k, v) \in TableType(n)
         /\ Cardinality(Occupied(Insert(tab, n, k, v))) =
              Cardinality(Occupied(tab)) + 1
<1>1. Free(tab) # {} /\ IsFiniteSet(Occupied(tab))
  BY TableFinite
<1>2. PICK e \in Free(tab) :
        Occupied(Insert(tab, n, k, v)) = Occupied(tab) \cup {e}
  BY <1>1, InsertOccupies
<1>3. e \notin Occupied(tab)
  BY DEF Free, Occupied
<1>4. Cardinality(Occupied(tab) \cup {e}) = Cardinality(Occupied(tab)) + 1
  BY <1>1, <1>3, FS_AddElement
<1> QED BY <1>1, <1>2, <1>4, InsertOccupies

-----------------------------------------------------------------------------
(* Removing an entry: whatever its links are, exactly one occupied slot    *)
(* becomes free and no other gains or loses a key.                         *)
LEMMA RemoveFrees ==
  ASSUME NEW n \in Nat \ {0}, NEW tab \in TableType(n),
         NEW s \in SlotsOf(n), s \in Occupied(tab)
  PROVE  /\ Remove(tab, s) \in TableType(n)
         /\ \E e \in Occupied(tab) :
              Occupied(Remove(tab, s)) = Occupied(tab) \ {e}
<1> USE DEF TableType, SlotType
<1>0. EmptySlot \in SlotType(n) /\ EmptySlot.key = NoKey
  BY DEF EmptySlot
<1>1. CASE tab[s].front # 0
  <2> DEFINE t1 == [tab EXCEPT ![tab[s].front - 1].next = tab[s].next]
             t2 == IF t1[s].next = 0
                   THEN t1
                   ELSE [t1 EXCEPT ![t1[s].next - 1].front = t1[s].front]
             t3 == [t2 EXCEPT ![s] = EmptySlot]
  <2>1. tab[s].front - 1 \in SlotsOf(n)
    BY <1>1 DEF SlotsOf
  <2>2. t1 \in TableType(n) /\ \A x \in SlotsOf(n) : t1[x].key = tab[x].key
    BY <2>1
  <2> HIDE DEF t1
  <2>3. t2 \in TableType(n) /\ \A x \in SlotsOf(n) : t2[x].key = t1[x].key
    <3>1. CASE t1[s].next = 0
      BY <2>2, <3>1
    <3>2. CASE t1[s].next # 0
      <4>1. t1[s] \in SlotType(n)
        BY <2>2
      <4>2. t1[s].next \in 0 .. n
        BY <4>1
      <4>3. t1[s].next - 1 \in SlotsOf(n)
        BY <3>2, <4>2 DEF SlotsOf
      <4> QED BY <2>2, <3>2, <4>3
    <3> QED BY <3>1, <3>2
  <2> HIDE DEF t2
  <2>4. /\ t3 \in TableType(n) /\ t3[s].key = NoKey
        /\ \A x \in SlotsOf(n) \ {s} : t3[x].key = tab[x].key
    BY <1>0, <2>2, <2>3
  <2>5. Remove(tab, s) = t3
    BY <1>1 DEF Remove, Unlink, t1, t2
  <2> HIDE DEF t3
  <2>6. Occupied(t3) = Occupied(tab) \ {s}
    BY <2>4 DEF Occupied
  <2> QED BY <2>4, <2>5, <2>6
<1>2. CASE tab[s].front = 0 /\ tab[s].next = 0
  <2>1. Remove(tab, s) = [tab EXCEPT ![s] = EmptySlot]
    BY <1>2 DEF Remove, PopHead
  <2> DEFINE t3 == [tab EXCEPT ![s] = EmptySlot]
  <2>2. /\ t3 \in TableType(n) /\ t3[s].key = NoKey
        /\ \A x \in SlotsOf(n) \ {s} : t3[x].key = tab[x].key
    BY <1>0
  <2> HIDE DEF t3
  <2>3. Occupied(t3) = Occupied(tab) \ {s}
    BY <2>2 DEF Occupied
  <2> QED BY <2>1, <2>2, <2>3 DEF t3
<1>3. CASE tab[s].front = 0 /\ tab[s].next # 0
  <2> DEFINE m == tab[s].next - 1
             t3 == [tab EXCEPT ![s] = [tab[m] EXCEPT !.front = 0],
                               ![m] = EmptySlot]
  <2>1. m \in SlotsOf(n)
    BY <1>3 DEF SlotsOf
  <2>2. Remove(tab, s) = t3
    BY <1>3 DEF Remove, PopHead
  <2>3. [tab[m] EXCEPT !.front = 0] \in SlotType(n)
        /\ [tab[m] EXCEPT !.front = 0].key = tab[m].key
    BY <2>1
  <2>4. /\ t3 \in TableType(n)
        /\ t3[m].key = NoKey
        /\ s # m => t3[s].key = tab[m].key
        /\ \A x \in SlotsOf(n) \ {s, m} : t3[x].key = tab[x].key
    BY <1>0, <2>1, <2>3
  <2> HIDE DEF t3, m
  <2>5. CASE m \in Occupied(tab)
    <3>1. Occupied(t3) = Occupied(tab) \ {m}
      BY <2>1, <2>4, <2>5 DEF Occupied
    <3> QED BY <2>2, <2>4, <2>5, <3>1
  <2>6. CASE m \notin Occupied(tab)
    <3>1. Occupied(t3) = Occupied(tab) \ {s}
      BY <2>1, <2>4, <2>6 DEF Occupied
    <3> QED BY <2>2, <2>4, <3>1
  <2> QED BY <2>5, <2>6
<1> QED BY <1>1, <1>2, <1>3

(* Either way of removing an entry frees exactly one slot.                 *)
LEMMA RemoveCounts ==
  ASSUME NEW n \in Nat \ {0}, NEW tab \in TableType(n),
         NEW s \in SlotsOf(n), s \in Occupied(tab)
  PROVE  /\ Remove(tab, s) \in TableType(n)
         /\ Cardinality(Occupied(tab)) - 1 \in Nat
         /\ Cardinality(Occupied(Remove(tab, s))) =
              Cardinality(Occupied(tab)) - 1
<1>1. IsFiniteSet(Occupied(tab)) /\ Cardinality(Occupied(tab)) \in Nat
  BY TableFinite
<1>2. PICK e \in Occupied(tab) : Occupied(Remove(tab, s)) = Occupied(tab) \ {e}
  BY RemoveFrees
<1>3. Cardinality(Occupied(tab) \ {e}) = Cardinality(Occupied(tab)) - 1
  BY <1>1, <1>2, FS_RemoveElement
<1>4. Cardinality(Occupied(tab)) # 0
  BY <1>1, FS_EmptySet
<1> QED BY <1>1, <1>2, <1>3, <1>4, RemoveFrees

(* An empty table has no occupied slot.                                    *)
LEMMA EmptyTableCounts ==
  ASSUME NEW n \in Nat \ {0}
  PROVE  /\ EmptyTable(n) \in TableType(n)
         /\ Cardinality(Occupied(EmptyTable(n))) = 0
<1>1. EmptyTable(n) \in TableType(n)
  BY DEF EmptyTable, EmptySlot, TableType, SlotType
<1>2. Occupied(EmptyTable(n)) = {}
  BY DEF Occupied, EmptyTable, EmptySlot
<1> QED BY <1>1, <1>2, FS_EmptySet

(* A table under construction is not the empty sequence of an idle map.    *)
LEMMA TableIsNotIdle ==
  ASSUME NEW n \in Nat \ {0}, NEW tab \in TableType(n)
  PROVE  tab # << >>
<1>1. 0 \in DOMAIN tab
  BY DEF TableType, SlotsOf
<1>2. 0 \notin DOMAIN << >>
  OBVIOUS
<1> QED BY <1>1, <1>2

-----------------------------------------------------------------------------
(* The count and the types are inductive together: a probe needs a free    *)
(* slot to stay in the table, which the count promises, and map_resize     *)
(* needs a full table, of which the count is the only evidence.            *)
CountInv == TypeOK /\ CapIsOccupancy

(* The initial state satisfies the invariant.                              *)
LEMMA InitCountInv == Init => CountInv
<1> SUFFICES ASSUME Init PROVE CountInv
  OBVIOUS
<1>1. slots \in TableType(size) /\ Cardinality(Occupied(slots)) = 0
  BY SizeAssumption, EmptyTableCounts DEF Init
<1>2. size \in Nat \ {0} /\ cap \in Nat /\ resizeIdx \in 0 .. size
  BY SizeAssumption DEF Init
<1>3. Idle /\ pending = NoEntry /\ cap = 0
  BY DEF Init, Idle
<1>4. cursor \in Keys \cup {NoKey} /\ seen \subseteq Keys /\ stable \in BOOLEAN
  BY DEF Init
<1>5. TypeOK
  BY <1>1, <1>2, <1>3, <1>4 DEF TypeOK, TableType
<1> QED BY <1>1, <1>3, <1>5 DEF CountInv, CapIsOccupancy

(* Every step keeps it.                                                    *)
LEMMA NextCountInv == CountInv /\ [Next]_vars => CountInv'
<1> SUFFICES ASSUME CountInv, [Next]_vars PROVE CountInv'
  OBVIOUS
<1> USE DEF TableType
<1>0. /\ size \in Nat \ {0} /\ 2 * size \in Nat \ {0} /\ cap \in Nat
      /\ slots \in TableType(size)
      /\ cap = Cardinality(Occupied(slots))
      /\ resizeIdx \in 0 .. size
      /\ cursor \in Keys \cup {NoKey} /\ seen \subseteq Keys
      /\ stable \in BOOLEAN
  BY DEF CountInv, TypeOK, CapIsOccupancy
<1>1. ~Idle => /\ pending \in [key : Keys, value : Values]
               /\ newSlots \in TableType(2 * size)
               /\ Free(slots) = {}
               /\ Cardinality(Occupied(newSlots)) = resizeIdx
  BY DEF CountInv, TypeOK, CapIsOccupancy
<1>2. Idle => pending = NoEntry
  BY DEF CountInv, TypeOK
<1>3. ASSUME NEW k \in Keys, NEW v \in Values, SetExisting(k, v)
      PROVE  CountInv'
  <2>1. SlotOf(slots, k) \in SlotsOf(size)
    BY <1>0, <1>3, HitsInTable DEF SetExisting
  <2>2. slots' \in TableType(size) /\ Occupied(slots') = Occupied(slots)
    BY <1>0, <1>3, <2>1 DEF SetExisting, Occupied, SlotType
  <2> QED BY <1>0, <1>2, <1>3, <2>2
      DEF SetExisting, CountInv, TypeOK, CapIsOccupancy, Idle, resize, iter
<1>4. ASSUME NEW k \in Keys, NEW v \in Values, AddNew(k, v)
      PROVE  CountInv'
  <2>1. /\ slots' \in TableType(size)
        /\ Cardinality(Occupied(slots')) = cap + 1
    BY <1>0, <1>4, InsertCounts DEF AddNew
  <2>2. /\ size' = size /\ cap' = cap + 1 /\ cap' \in Nat
        /\ Idle' /\ pending' = NoEntry /\ resizeIdx' = resizeIdx
        /\ cursor' = cursor /\ seen' = seen
    BY <1>0, <1>2, <1>4 DEF AddNew, Idle, resize
  <2>3. stable' \in BOOLEAN
    BY <1>4 DEF AddNew
  <2> QED BY <1>0, <2>1, <2>2, <2>3 DEF CountInv, TypeOK, CapIsOccupancy
<1>5. ASSUME NEW k \in Keys, NEW v \in Values, AddResize(k, v)
      PROVE  CountInv'
  <2>1. newSlots' \in TableType(2 * size)
        /\ Cardinality(Occupied(newSlots')) = 0
    BY <1>0, <1>5, EmptyTableCounts DEF AddResize
  <2>2. Free(slots) = {}
    BY <1>0, <1>5, TableFinite DEF AddResize
  <2>3. ~Idle'
    BY <1>0, <2>1, TableIsNotIdle DEF Idle
  <2> QED BY <1>0, <1>5, <2>1, <2>2, <2>3
      DEF AddResize, CountInv, TypeOK, CapIsOccupancy, table, iter
<1>6. CASE ResizeStep
  <2>1. resizeIdx \in SlotsOf(size) /\ resizeIdx < 2 * size
    BY <1>0, <1>6 DEF ResizeStep, SlotsOf
  <2>2. /\ slots[resizeIdx].key \in Keys
        /\ slots[resizeIdx].value \in Values \cup {NoValue}
    BY <1>0, <1>1, <1>6, <2>1 DEF ResizeStep, Free, SlotType
  <2>3. newSlots' \in TableType(2 * size)
        /\ Cardinality(Occupied(newSlots')) = resizeIdx + 1
    BY <1>0, <1>1, <1>6, <2>1, <2>2, InsertCounts DEF ResizeStep
  <2>4. ~Idle'
    BY <1>0, <2>3, TableIsNotIdle DEF Idle
  <2>5. resizeIdx' \in 0 .. size /\ resizeIdx' = resizeIdx + 1
    BY <1>0, <1>6 DEF ResizeStep
  <2> QED BY <1>0, <1>1, <1>6, <2>3, <2>4, <2>5
      DEF ResizeStep, CountInv, TypeOK, CapIsOccupancy, table, iter
<1>7. CASE ResizeDone
  <2>1. /\ newSlots \in TableType(2 * size)
        /\ Cardinality(Occupied(newSlots)) = size
        /\ cap = size
        /\ pending.key \in Keys /\ pending.value \in Values
    BY <1>0, <1>1, <1>7, TableFinite DEF ResizeDone
  <2>2. /\ slots' \in TableType(2 * size)
        /\ cap' = Cardinality(Occupied(slots'))
        /\ cap' \in Nat
    BY <1>0, <1>7, <2>1, InsertCounts DEF ResizeDone
  <2>3. /\ size' = 2 * size /\ size' \in Nat \ {0} /\ Idle'
        /\ pending' = NoEntry /\ resizeIdx' \in 0 .. size'
        /\ cursor' = cursor /\ seen' = seen
    BY <1>0, <1>7 DEF ResizeDone, Idle
  <2>4. stable' \in BOOLEAN
    BY <1>7 DEF ResizeDone
  <2> QED BY <1>0, <2>2, <2>3, <2>4 DEF CountInv, TypeOK, CapIsOccupancy
<1>8. CASE Clear
  <2>1. slots' \in TableType(size) /\ Cardinality(Occupied(slots')) = 0
    BY <1>0, <1>8, EmptyTableCounts DEF Clear
  <2> QED BY <1>0, <1>2, <1>8, <2>1
      DEF Clear, CountInv, TypeOK, CapIsOccupancy, Idle, resize
<1>9. ASSUME NEW k \in Keys, Del(k)
      PROVE  CountInv'
  <2>1. /\ SlotOf(slots, k) \in SlotsOf(size)
        /\ SlotOf(slots, k) \in Occupied(slots)
    BY <1>0, <1>9, HitsInTable DEF Del
  <2>2. /\ slots' \in TableType(size) /\ cap' \in Nat
        /\ Cardinality(Occupied(slots')) = cap'
    BY <1>0, <1>9, <2>1, RemoveCounts DEF Del
  <2> QED BY <1>0, <1>2, <1>9, <2>2
      DEF Del, CountInv, TypeOK, CapIsOccupancy, Idle, resize
<1>10. ASSUME NEW b, IterGive(b)
       PROVE  cursor' \in Keys /\ seen' \subseteq Keys
  BY <1>0, <1>10 DEF IterGive, LowestFrom, Occupied, SlotType
<1>11. CASE IterBegin
  BY <1>0, <1>1, <1>2, <1>10, <1>11
  DEF IterBegin, CountInv, TypeOK, CapIsOccupancy, Idle, table, resize
<1>12. CASE IterNext
  <2>1. cursor' \in Keys /\ seen' \subseteq Keys
    BY <1>10, <1>12 DEF IterNext
  <2> QED BY <1>0, <1>1, <1>2, <1>12, <2>1
      DEF IterNext, CountInv, TypeOK, CapIsOccupancy, Idle, table, resize
<1>13. CASE IterEnd
  BY <1>0, <1>1, <1>2, <1>13
  DEF IterEnd, CountInv, TypeOK, CapIsOccupancy, Idle, table, resize
<1>14. CASE UNCHANGED vars
  BY <1>14 DEF CountInv, TypeOK, CapIsOccupancy, Idle, vars
<1> QED BY <1>3, <1>4, <1>5, <1>6, <1>7, <1>8, <1>9, <1>11, <1>12, <1>13, <1>14
    DEF Next, GrowNext, TableNext, LoopNext

(* Type correctness, for tables with and without deletions: every link     *)
(* stays inside the allocated slots (a2_map.c).                            *)
THEOREM TypeCorrect == Spec => []TypeOK
<1>1. CountInv => TypeOK
  BY DEF CountInv
<1> QED BY <1>1, InitCountInv, NextCountInv, PTL DEF Spec

(* The entry count of the map is the number of its occupied slots through  *)
(* every sequence of insertions, deletions and resizes, even when deletions*)
(* have left stale links behind: a probe for a free slot ends, and a       *)
(* resize never meets a free slot (a2_map.c:72, 79-80, 177-178, 200-201).  *)
THEOREM CapCorrect == Spec => []CapIsOccupancy
<1>1. CountInv => CapIsOccupancy
  BY DEF CountInv
<1> QED BY <1>1, InitCountInv, NextCountInv, PTL DEF Spec

=============================================================================
