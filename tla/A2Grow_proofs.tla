---------------------------- MODULE A2Grow_proofs ----------------------------
(***************************************************************************)
(* Proofs about the tables of A2Map from which nothing is deleted, for     *)
(* every set of keys and values, every hash function and every initial     *)
(* size: they answer queries as a dictionary does, through collisions,     *)
(* shared chains and resizes, and a foreach loop over them is complete.    *)
(***************************************************************************)
EXTENDS A2Map_proofs

-----------------------------------------------------------------------------
(* Walks.  A walk is the least set that holds its start and is closed      *)
(* under the links it follows.                                             *)

LEMMA WalkStart ==
  ASSUME NEW tab, NEW h, NEW pass
  PROVE  h \in Walk(tab, h, pass)
BY DEF Walk

LEMMA WalkFollows ==
  ASSUME NEW tab, NEW h, NEW pass, NEW s \in Walk(tab, h, pass),
         s \in pass, s \in DOMAIN tab, tab[s].next # 0
  PROVE  tab[s].next - 1 \in Walk(tab, h, pass)
<1>1. tab[s].next - 1 \in Targets(tab)
  BY DEF Targets
<1>2. ASSUME NEW S \in SUBSET Targets(tab), Closed(tab, pass, {h} \cup S)
      PROVE  tab[s].next - 1 \in {h} \cup S
  <2>1. s \in {h} \cup S
    BY <1>2 DEF Walk
  <2> QED BY <1>2, <2>1 DEF Closed
<1> QED BY <1>1, <1>2 DEF Walk

LEMMA WalkLeast ==
  ASSUME NEW n \in Nat \ {0}, NEW tab \in TableType(n), NEW h \in SlotsOf(n),
         NEW pass \in SUBSET SlotsOf(n), NEW T, h \in T, Closed(tab, pass, T)
  PROVE  Walk(tab, h, pass) \subseteq T
<1> DEFINE S == T \cap Targets(tab)
<1>1. Closed(tab, pass, {h} \cup S)
  <2> SUFFICES ASSUME NEW s \in ({h} \cup S) \cap pass, tab[s].next # 0
               PROVE  tab[s].next - 1 \in {h} \cup S
    BY DEF Closed
  <2>1. tab[s].next - 1 \in T
    BY DEF Closed
  <2>2. s \in DOMAIN tab
    BY DEF TableType
  <2>3. tab[s].next - 1 \in Targets(tab)
    BY <2>2 DEF Targets
  <2> QED BY <2>1, <2>3
<1>2. Walk(tab, h, pass) \subseteq {h} \cup S
  BY <1>1 DEF Walk
<1> QED BY <1>2

(* What a query finds.                                                     *)
LEMMA HitsAre ==
  ASSUME NEW n \in Nat \ {0}, NEW tab \in TableType(n), NEW k \in Keys
  PROVE  /\ Hits(tab, k) = {s \in SlotsOf(n) :
                              /\ s \in Walk(tab, Home(k, n), Passed(tab, k))
                              /\ tab[s].key = k}
         /\ Hits(tab, k) \subseteq {s \in Occupied(tab) : tab[s].key = k}
<1>1. Cardinality(DOMAIN tab) = n
  BY FS_Interval DEF TableType, SlotsOf
<1>2. Walk(tab, Home(k, n), Passed(tab, k)) \subseteq SlotsOf(n)
  BY HomeIsSlot, WalkInTable
<1> QED BY <1>1, <1>2, NoneAssumption DEF Hits, Occupied, TableType

(* Where every entry is found under its key, a query finds what is there.  *)
LEMMA HitsExact ==
  ASSUME NEW n \in Nat \ {0}, NEW tab \in TableType(n), NEW k \in Keys,
         EntriesReachable(tab)
  PROVE  /\ Hits(tab, k) = {s \in Occupied(tab) : tab[s].key = k}
         /\ \A s \in Hits(tab, k) : Hits(tab, k) = {s} /\ SlotOf(tab, k) = s
<1>1. \A s \in Occupied(tab) : tab[s].key = k => Hits(tab, k) = {s}
  BY DEF EntriesReachable
<1>2. Hits(tab, k) \subseteq {s \in Occupied(tab) : tab[s].key = k}
  BY HitsAre
<1> QED BY <1>1, <1>2 DEF SlotOf

-----------------------------------------------------------------------------
(* No set of slots leads only into itself: there is no circle of links.    *)
NoCircle(tab) ==
  \A S \in SUBSET DOMAIN tab :
    S # {} => \E s \in S : tab[s].next = 0 \/ tab[s].next - 1 \notin S

(* What a table that only grows looks like.                                *)
Grown(tab) == WellLinked(tab) /\ NoCircle(tab)

(* So the search for any key ends.                                         *)
LEMMA QueryEndsIn ==
  ASSUME NEW n \in Nat \ {0}, NEW tab \in TableType(n), NEW h \in SlotsOf(n),
         NEW pass, NoCircle(tab)
  PROVE  WalkEnds(tab, h, pass)
<1> DEFINE W == Walk(tab, h, pass)
<1>1. W \in SUBSET DOMAIN tab /\ W # {}
  BY WalkInTable, WalkStart DEF TableType
<1>2. PICK s \in W : tab[s].next = 0 \/ tab[s].next - 1 \notin W
  BY <1>1 DEF NoCircle
<1>3. s \notin pass \/ tab[s].next = 0
  BY <1>1, <1>2, WalkFollows
<1> QED BY <1>2, <1>3 DEF WalkEnds

(* An empty table.                                                         *)
LEMMA EmptyGrown ==
  ASSUME NEW n \in Nat \ {0}
  PROVE  Grown(EmptyTable(n)) /\ Occupied(EmptyTable(n)) = {}
<1>1. Occupied(EmptyTable(n)) = {}
  BY DEF Occupied, EmptyTable, EmptySlot
<1>2. \A s \in DOMAIN EmptyTable(n) :
        EmptyTable(n)[s].next = 0 /\ EmptyTable(n)[s].front = 0
  BY DEF EmptyTable, EmptySlot
<1>3. NoCircle(EmptyTable(n))
  BY <1>2 DEF NoCircle
<1>4. WellLinked(EmptyTable(n))
  BY <1>1, <1>2 DEF WellLinked, EntriesReachable, Free
<1> QED BY <1>1, <1>3, <1>4 DEF Grown

-----------------------------------------------------------------------------
(* Inserting the entry of a key that is not there.                         *)

(* new is tab with the key k and the value v in the free slot e.           *)
Adds(tab, new, e, k, v) ==
  /\ e \in Free(tab) /\ new[e].key = k /\ new[e].value = v
  /\ Occupied(new) = Occupied(tab) \cup {e}
  /\ \A s \in Occupied(tab) : new[s].key = tab[s].key /\ new[s].value = tab[s].value

(* Its links are those of tab, but that behind h it comes first.           *)
Links(tab, new, h, e) ==
  /\ h \in Occupied(tab)
  /\ new[e].next = tab[h].next /\ new[e].front = h + 1
  /\ new[h].next = e + 1
  /\ \A s \in DOMAIN tab \ {e} :
       /\ s # h => new[s].next = tab[s].next
       /\ new[s].front = IF tab[h].next = s + 1 THEN e + 1 ELSE tab[s].front

LEMMA InsertIs ==
  ASSUME NEW n \in Nat \ {0}, NEW tab \in TableType(n), NEW k \in Keys,
         NEW v \in Values \cup {NoValue}, Free(tab) # {}
  PROVE  LET new == Insert(tab, n, k, v)
             h   == Home(k, n)
         IN  /\ new \in TableType(n)
             /\ \E e \in Free(tab) :
                  /\ Adds(tab, new, e, k, v)
                  /\ \/ /\ e = h
                        /\ \A s \in DOMAIN tab : /\ new[s].next = tab[s].next
                                                 /\ new[s].front = tab[s].front
                     \/ Links(tab, new, h, e)
<1> DEFINE h == Home(k, n)
           e == FirstFree(tab, h, n)
           new == Insert(tab, n, k, v)
<1>1. h \in SlotsOf(n) /\ DOMAIN tab = SlotsOf(n)
  BY HomeIsSlot DEF TableType
<1>2. e \in Free(tab) /\ e \in SlotsOf(n)
  BY <1>1, FirstFreeIsFree DEF Free
<1>3. CASE tab[h].key = NoKey
  <2>1. new = PutAt(tab, h, k, v) /\ h \in Free(tab)
    BY <1>1, <1>3 DEF Insert, Free
  <2> HIDE DEF h, e, new
  <2>2. /\ new \in TableType(n) /\ new[h].key = k /\ new[h].value = v
        /\ \A s \in SlotsOf(n) : /\ new[s].next = tab[s].next
                                 /\ new[s].front = tab[s].front
                                 /\ s # h => new[s] = tab[s]
    BY <1>1, <2>1, PutAtFields
  <2>3. DOMAIN new = SlotsOf(n)
    BY <2>2 DEF TableType
  <2>4. Occupied(new) = Occupied(tab) \cup {h}
    BY <1>1, <2>2, <2>3, NoneAssumption DEF Occupied
  <2>5. \A s \in Occupied(tab) : s # h /\ s \in SlotsOf(n)
    BY <1>1, <1>3 DEF Occupied
  <2>6. Adds(tab, new, h, k, v)
    BY <2>1, <2>2, <2>4, <2>5 DEF Adds
  <2> QED BY <1>1, <2>1, <2>2, <2>6 DEF new, h
<1>4. CASE tab[h].key # NoKey
  <2>1. new = LinkAfter(tab, h, e, k, v) /\ h # e
    BY <1>1, <1>2, <1>4 DEF Insert, Free
  <2> HIDE DEF h, e, new
  <2>2. /\ new \in TableType(n)
        /\ new[e].key = k /\ new[e].value = v
        /\ new[e].next = tab[h].next /\ new[e].front = h + 1
        /\ new[h].next = e + 1
        /\ \A s \in SlotsOf(n) \ {e} :
             /\ new[s].key = tab[s].key
             /\ new[s].value = tab[s].value
             /\ s # h => new[s].next = tab[s].next
             /\ new[s].front = IF tab[h].next = s + 1 THEN e + 1
                                                    ELSE tab[s].front
    BY <1>1, <1>2, <2>1, LinkAfterFields
  <2>3. DOMAIN new = SlotsOf(n)
    BY <2>2 DEF TableType
  <2>4. Occupied(new) = Occupied(tab) \cup {e}
    BY <1>1, <1>2, <2>2, <2>3, NoneAssumption DEF Occupied
  <2>5. h \in Occupied(tab) /\ \A s \in Occupied(tab) : s # e /\ s \in SlotsOf(n)
    BY <1>1, <1>2, <1>4 DEF Occupied, Free
  <2>6. Adds(tab, new, e, k, v)
    BY <1>2, <2>2, <2>4, <2>5 DEF Adds
  <2>7. Links(tab, new, h, e)
    BY <1>1, <2>2, <2>5 DEF Links
  <2> QED BY <1>2, <2>2, <2>6, <2>7 DEF new, h
<1> QED BY <1>3, <1>4

(* Links lead from one occupied slot to another, and back.                 *)
LinkedUp(tab) ==
  /\ \A s \in Free(tab) : tab[s].next = 0 /\ tab[s].front = 0
  /\ \A s \in DOMAIN tab :
       tab[s].next # 0 => /\ tab[s].next - 1 \in Occupied(tab)
                          /\ tab[tab[s].next - 1].front = s + 1

LEMMA LinksStay ==
  ASSUME NEW n \in Nat \ {0}, NEW tab \in TableType(n), NEW new \in TableType(n),
         NEW k \in Keys, NEW v, NEW e, NEW h,
         LinkedUp(tab), NoCircle(tab), Adds(tab, new, e, k, v), Links(tab, new, h, e)
  PROVE  LinkedUp(new) /\ NoCircle(new)
<1>1. /\ DOMAIN tab = SlotsOf(n) /\ DOMAIN new = SlotsOf(n)
      /\ h \in SlotsOf(n) /\ e \in SlotsOf(n) /\ h # e
      /\ tab[e].next = 0 /\ tab[e].front = 0
      /\ e \in Occupied(new) /\ e \notin Occupied(tab)
      /\ Free(new) = Free(tab) \ {e}
      /\ Occupied(tab) \subseteq Occupied(new)
  BY DEF TableType, Adds, Links, LinkedUp, Free, Occupied
<1>2. \A s \in SlotsOf(n) : tab[s].next \in 0 .. n
  BY DEF TableType, SlotType
<1>3. \A s \in SlotsOf(n) : s \in Nat
  BY DEF SlotsOf
<1>4. \A s \in SlotsOf(n) : tab[s].next # 0 =>
        /\ tab[s].next - 1 \in Occupied(tab) /\ tab[s].next - 1 \in SlotsOf(n)
        /\ tab[tab[s].next - 1].front = s + 1
        /\ tab[s].next - 1 # e
  BY <1>1 DEF LinkedUp, Occupied
<1>5. ASSUME NEW s \in Free(new)
      PROVE  new[s].next = 0 /\ new[s].front = 0
  <2>1. s \in Free(tab) /\ s # e /\ s \in SlotsOf(n) /\ s \notin Occupied(tab)
    BY <1>1 DEF Free, Occupied
  <2>2. s # h /\ tab[s].next = 0 /\ tab[s].front = 0
    BY <2>1 DEF Links, LinkedUp
  <2>3. tab[h].next # s + 1
    <3>1. SUFFICES ASSUME tab[h].next = s + 1 PROVE FALSE
      OBVIOUS
    <3>2. tab[h].next # 0 /\ tab[h].next - 1 = s
      BY <1>3, <2>1, <3>1
    <3> QED BY <1>1, <1>4, <2>1, <3>2
  <2> QED BY <1>1, <2>1, <2>2, <2>3 DEF Links
<1>6. ASSUME NEW s \in SlotsOf(n), new[s].next # 0
      PROVE  /\ new[s].next - 1 \in Occupied(new)
             /\ new[new[s].next - 1].front = s + 1
  <2>1. CASE s = h
    <3>1. new[s].next # 0 /\ new[s].next - 1 = e
      BY <1>1, <1>3, <2>1 DEF Links
    <3> QED BY <1>1, <2>1, <3>1 DEF Links
  <2>2. CASE s = e
    <3> DEFINE t == tab[h].next - 1
    <3>1. new[s].next = tab[h].next /\ tab[h].next # 0
      BY <1>6, <2>2 DEF Links
    <3>2. t \in Occupied(tab) /\ t \in SlotsOf(n) /\ t # e
      BY <1>1, <1>4, <3>1
    <3>3. tab[h].next = t + 1
      BY <1>1, <1>2, <3>1
    <3>4. new[t].front = e + 1
      BY <1>1, <3>2, <3>3 DEF Links
    <3> QED BY <1>1, <2>2, <3>1, <3>2, <3>4
  <2>3. CASE s # h /\ s # e
    <3> DEFINE t == tab[s].next - 1
    <3>1. new[s].next = tab[s].next /\ tab[s].next # 0
      BY <1>1, <1>6, <2>3 DEF Links
    <3>2. t \in Occupied(tab) /\ t \in SlotsOf(n) /\ t # e /\ tab[t].front = s + 1
      BY <1>4, <3>1
    <3>3. tab[h].next # t + 1
      <4>1. SUFFICES ASSUME tab[h].next = t + 1 PROVE FALSE
        OBVIOUS
      <4>2. tab[h].next # 0 /\ tab[h].next - 1 = t
        BY <1>3, <3>2, <4>1
      <4>3. tab[t].front = h + 1
        BY <1>1, <1>4, <4>2
      <4> QED BY <1>1, <1>3, <2>3, <3>2, <4>3
    <3>4. new[t].front = s + 1
      BY <1>1, <3>2, <3>3 DEF Links
    <3> QED BY <1>1, <3>1, <3>2, <3>4
  <2> QED BY <2>1, <2>2, <2>3
<1>7. LinkedUp(new)
  BY <1>1, <1>5, <1>6 DEF LinkedUp
<1>8. ASSUME NEW S \in SUBSET SlotsOf(n), S # {}
      PROVE  \E s \in S : new[s].next = 0 \/ new[s].next - 1 \notin S
  <2>1. CASE S = {e}
    <3>1. new[e].next = tab[h].next
      BY DEF Links
    <3> QED BY <1>1, <1>4, <2>1, <3>1
  <2>2. CASE S # {e}
    <3>1. S \ {e} \in SUBSET DOMAIN tab /\ S \ {e} # {}
      BY <1>1, <1>8, <2>2
    <3>2. PICK s \in S \ {e} : tab[s].next = 0 \/ tab[s].next - 1 \notin S \ {e}
      BY <3>1 DEF NoCircle
    <3>3. s \in SlotsOf(n) /\ s # e /\ (tab[s].next = 0 \/ tab[s].next - 1 \notin S)
      BY <1>4, <3>2
    <3>4. CASE s # h
      BY <1>1, <3>2, <3>3, <3>4 DEF Links
    <3>5. CASE s = h /\ e \notin S
      <4>1. new[h].next # 0 /\ new[h].next - 1 = e
        BY <1>1, <1>3 DEF Links
      <4> QED BY <3>2, <3>5, <4>1
    <3>6. CASE s = h /\ e \in S
      <4>1. new[e].next = tab[h].next
        BY DEF Links
      <4> QED BY <3>3, <3>6, <4>1
    <3> QED BY <3>4, <3>5, <3>6
  <2> QED BY <2>1, <2>2
<1>9. NoCircle(new)
  BY <1>1, <1>8 DEF NoCircle
<1> QED BY <1>7, <1>9

(* The walk of another key goes the same way, by way of the new slot.      *)
LEMMA EntriesStay ==
  ASSUME NEW n \in Nat \ {0}, NEW tab \in TableType(n), NEW new \in TableType(n),
         NEW k \in Keys, NEW v, NEW e, NEW h, h = Home(k, n),
         LinkedUp(tab), EntriesReachable(tab), Hits(tab, k) = {},
         Adds(tab, new, e, k, v),
         \/ e = h /\ \A s \in DOMAIN tab : new[s].next = tab[s].next
         \/ Links(tab, new, h, e)
  PROVE  EntriesReachable(new)
<1>1. /\ DOMAIN tab = SlotsOf(n) /\ DOMAIN new = SlotsOf(n)
      /\ h \in SlotsOf(n) /\ e \in SlotsOf(n)
      /\ new[e].key = k /\ e \in Occupied(new) /\ e \notin Occupied(tab)
      /\ Occupied(new) = Occupied(tab) \cup {e}
      /\ \A s \in Occupied(tab) : new[s].key = tab[s].key
  BY HomeIsSlot DEF TableType, Adds, Free, Occupied
<1>2. \A s \in Occupied(tab) : s \in SlotsOf(n) /\ tab[s].key # k /\ tab[s].key \in Keys
  <2>1. Hits(tab, k) = {s \in Occupied(tab) : tab[s].key = k}
    BY HitsExact
  <2> QED BY <2>1 DEF Occupied, TableType, SlotType
<1>3. \A s \in SlotsOf(n) : s \in Nat
  BY DEF SlotsOf
<1>4. ASSUME NEW q \in Keys, q # k
      PROVE  Walk(tab, Home(q, n), Passed(tab, q)) \subseteq Walk(new, Home(q, n), Passed(new, q))
  <2> DEFINE W == Walk(new, Home(q, n), Passed(new, q))
  <2>1. Home(q, n) \in SlotsOf(n) /\ Home(q, n) \in W
    BY HomeIsSlot, WalkStart
  <2>2. Passed(tab, q) \in SUBSET SlotsOf(n) /\ Passed(tab, q) \subseteq Occupied(tab)
    BY <1>1 DEF Passed, Occupied
  <2>3. Passed(tab, q) \subseteq Passed(new, q) /\ e \in Passed(new, q)
    <3>1. e \in Passed(new, q)
      BY <1>1, <1>4, NoneAssumption DEF Passed
    <3>2. \A s \in Passed(tab, q) : new[s].key = tab[s].key /\ s \in SlotsOf(n)
      BY <1>1, <2>2
    <3> QED BY <1>1, <3>1, <3>2 DEF Passed
  <2>4. ASSUME NEW s \in W \cap Passed(tab, q), tab[s].next # 0
        PROVE  tab[s].next - 1 \in W
    <3>1. s \in Passed(new, q) /\ s \in DOMAIN new /\ s \in Occupied(tab) /\ s # e
      BY <1>1, <2>2, <2>3
    <3>2. CASE new[s].next = tab[s].next
      BY <2>4, <3>1, <3>2, WalkFollows
    <3>3. CASE new[s].next # tab[s].next
      <4>1. Links(tab, new, h, e) /\ s = h
        BY <1>1, <3>1, <3>3 DEF Links
      <4>2. new[s].next # 0 /\ new[s].next - 1 = e /\ new[e].next = tab[s].next
        BY <1>1, <1>3, <4>1 DEF Links
      <4>3. e \in W
        BY <3>1, <4>2, WalkFollows
      <4> QED BY <1>1, <2>3, <2>4, <4>2, <4>3, WalkFollows
    <3> QED BY <3>2, <3>3
  <2>5. Closed(tab, Passed(tab, q), W)
    BY <2>4 DEF Closed
  <2> QED BY <2>1, <2>2, <2>5, WalkLeast
<1>5. e \in Walk(new, h, Passed(new, k))
  <2>1. CASE e = h
    BY <2>1, WalkStart
  <2>2. CASE Links(tab, new, h, e)
    <3>1. h \in Occupied(tab) /\ new[h].next # 0 /\ new[h].next - 1 = e
      BY <1>1, <1>3, <2>2 DEF Links
    <3>2. h \in Passed(new, k)
      BY <1>1, <1>2, <3>1, NoneAssumption DEF Passed
    <3>3. h \in Walk(new, h, Passed(new, k)) /\ h \in DOMAIN new
      BY <1>1, WalkStart
    <3> QED BY <3>1, <3>2, <3>3, WalkFollows
  <2> QED BY <2>1, <2>2
<1>6. ASSUME NEW s \in Occupied(new)
      PROVE  Hits(new, new[s].key) = {s}
  <2>1. CASE s = e
    <3>1. Hits(new, k) = {t \in SlotsOf(n) : t \in Walk(new, h, Passed(new, k)) /\ new[t].key = k}
      BY HitsAre
    <3>2. \A t \in Hits(new, k) : t \in Occupied(new) /\ new[t].key = k
      BY HitsAre
    <3>3. \A t \in Hits(new, k) : t = e
      BY <1>1, <1>2, <3>2
    <3> QED BY <1>1, <1>5, <2>1, <3>1, <3>3
  <2>2. CASE s # e
    <3> DEFINE q == tab[s].key
    <3>1. s \in Occupied(tab) /\ new[s].key = q /\ q # k /\ q \in Keys /\ s \in SlotsOf(n)
      BY <1>1, <1>2, <2>2
    <3>2. s \in Hits(tab, q) /\ \A t \in Occupied(tab) : tab[t].key = q => t = s
      BY <3>1 DEF EntriesReachable
    <3>3. s \in Walk(tab, Home(q, n), Passed(tab, q))
      BY <3>1, <3>2, HitsAre
    <3>4. s \in Hits(new, q)
      <4>1. Hits(new, q) = {t \in SlotsOf(n) :
                              t \in Walk(new, Home(q, n), Passed(new, q)) /\ new[t].key = q}
        BY <3>1, HitsAre
      <4> QED BY <1>4, <3>1, <3>3, <4>1
    <3>5. \A t \in Hits(new, q) : t = s
      <4>1. \A t \in Hits(new, q) : t \in Occupied(new) /\ new[t].key = q
        BY <3>1, HitsAre
      <4> QED BY <1>1, <3>1, <3>2, <4>1
    <3> QED BY <3>1, <3>4, <3>5
  <2> QED BY <2>1, <2>2
<1> QED BY <1>6 DEF EntriesReachable

(* An insertion keeps the shape, and queries see exactly the new entry.    *)
LEMMA InsertGrows ==
  ASSUME NEW n \in Nat \ {0}, NEW tab \in TableType(n), NEW k \in Keys,
         NEW v \in Values \cup {NoValue}, Free(tab) # {},
         Grown(tab), Hits(tab, k) = {}
  PROVE  LET new == Insert(tab, n, k, v)
         IN  /\ new \in TableType(n) /\ Grown(new)
             /\ \E e \in Free(tab) : Adds(tab, new, e, k, v)
<1> DEFINE new == Insert(tab, n, k, v)
           h == Home(k, n)
<1>0. new \in TableType(n)
  BY InsertIs
<1>1. PICK e \in Free(tab) :
        /\ Adds(tab, new, e, k, v)
        /\ \/ /\ e = h
              /\ \A s \in DOMAIN tab : /\ new[s].next = tab[s].next
                                       /\ new[s].front = tab[s].front
           \/ Links(tab, new, h, e)
  BY InsertIs
<1> HIDE DEF new, h
<1>2. LinkedUp(tab) /\ EntriesReachable(tab) /\ NoCircle(tab)
  BY DEF Grown, WellLinked, LinkedUp
<1>3. EntriesReachable(new)
  BY <1>0, <1>1, <1>2, EntriesStay DEF h
<1>4. LinkedUp(new) /\ NoCircle(new)
  <2>1. CASE Links(tab, new, h, e)
    BY <1>0, <1>1, <1>2, <2>1, LinksStay
  <2>2. CASE e = h /\ \A s \in DOMAIN tab : /\ new[s].next = tab[s].next
                                            /\ new[s].front = tab[s].front
    <3>1. /\ DOMAIN tab = SlotsOf(n) /\ DOMAIN new = SlotsOf(n)
          /\ Free(new) \subseteq Free(tab) /\ Occupied(tab) \subseteq Occupied(new)
      BY <1>0, <1>1 DEF TableType, Adds, Free, Occupied
    <3>2. NoCircle(new)
      <4> SUFFICES ASSUME NEW S \in SUBSET DOMAIN new, S # {}
                   PROVE  \E s \in S : new[s].next = 0 \/ new[s].next - 1 \notin S
        BY DEF NoCircle
      <4>1. PICK s \in S : tab[s].next = 0 \/ tab[s].next - 1 \notin S
        BY <1>2, <3>1 DEF NoCircle
      <4> QED BY <2>2, <3>1, <4>1
    <3>3. \A s \in Free(new) : s \in SlotsOf(n) /\ s \in Free(tab)
      BY <3>1 DEF Free
    <3>4. \A s \in Occupied(tab) : s \in SlotsOf(n)
      BY <3>1 DEF Occupied
    <3>5. LinkedUp(new)
      BY <1>2, <2>2, <3>1, <3>3, <3>4 DEF LinkedUp
    <3> QED BY <3>2, <3>5
  <2> QED BY <1>1, <2>1, <2>2
<1>5. Grown(new)
  BY <1>3, <1>4 DEF Grown, WellLinked, LinkedUp
<1> QED BY <1>0, <1>1, <1>5 DEF new

-----------------------------------------------------------------------------
(* What queries answer.                                                    *)

Answers(tab) == [k \in Keys |-> Query(tab, k)]

(* Keys and links decide what is found.                                    *)
LEMMA SameShape ==
  ASSUME NEW n \in Nat \ {0}, NEW tab \in TableType(n), NEW new \in TableType(n),
         \A s \in SlotsOf(n) : /\ new[s].key = tab[s].key
                               /\ new[s].next = tab[s].next
                               /\ new[s].front = tab[s].front
  PROVE  /\ \A k \in Keys : Hits(new, k) = Hits(tab, k) /\ SlotOf(new, k) = SlotOf(tab, k)
         /\ Occupied(new) = Occupied(tab)
         /\ Grown(tab) => Grown(new)
<1>1. DOMAIN tab = SlotsOf(n) /\ DOMAIN new = SlotsOf(n)
  BY DEF TableType
<1>2. Occupied(new) = Occupied(tab) /\ Free(new) = Free(tab)
  BY <1>1 DEF Occupied, Free
<1>3. Targets(new) = Targets(tab)
  BY <1>1 DEF Targets
<1>4. ASSUME NEW k \in Keys
      PROVE  Hits(new, k) = Hits(tab, k)
  <2>1. Passed(new, k) = Passed(tab, k) /\ Passed(tab, k) \subseteq SlotsOf(n)
    BY <1>1 DEF Passed
  <2>2. \A S : Closed(new, Passed(tab, k), S) <=> Closed(tab, Passed(tab, k), S)
    BY <2>1 DEF Closed
  <2>3. \A h : Walk(new, h, Passed(tab, k)) = Walk(tab, h, Passed(tab, k))
    BY <1>3, <2>2 DEF Walk
  <2>4. /\ Hits(new, k) = {s \in SlotsOf(n) : s \in Walk(new, Home(k, n), Passed(new, k))
                                              /\ new[s].key = k}
        /\ Hits(tab, k) = {s \in SlotsOf(n) : s \in Walk(tab, Home(k, n), Passed(tab, k))
                                              /\ tab[s].key = k}
    BY HitsAre
  <2> QED BY <2>1, <2>3, <2>4
<1>5. \A k \in Keys : SlotOf(new, k) = SlotOf(tab, k)
  BY <1>4 DEF SlotOf
<1>6. Grown(tab) => Grown(new)
  <2> SUFFICES ASSUME Grown(tab) PROVE Grown(new)
    OBVIOUS
  <2>1. NoCircle(new)
    <3> SUFFICES ASSUME NEW S \in SUBSET DOMAIN new, S # {}
                 PROVE  \E s \in S : new[s].next = 0 \/ new[s].next - 1 \notin S
      BY DEF NoCircle
    <3>1. PICK s \in S : tab[s].next = 0 \/ tab[s].next - 1 \notin S
      BY <1>1 DEF NoCircle, Grown
    <3> QED BY <1>1, <3>1
  <2>2. EntriesReachable(new)
    <3> SUFFICES ASSUME NEW s \in Occupied(new) PROVE Hits(new, new[s].key) = {s}
      BY DEF EntriesReachable
    <3>1. s \in Occupied(tab) /\ new[s].key = tab[s].key /\ new[s].key \in Keys
      BY <1>1, <1>2 DEF Occupied, TableType, SlotType
    <3> QED BY <1>4, <3>1 DEF Grown, WellLinked, EntriesReachable
  <2>3. LinkedUp(new)
    <3>1. LinkedUp(tab)
      BY DEF Grown, WellLinked, LinkedUp
    <3>2. \A s \in Free(tab) : s \in SlotsOf(n)
      BY <1>1 DEF Free
    <3>3. \A s \in Occupied(tab) : s \in SlotsOf(n)
      BY <1>1 DEF Occupied
    <3> QED BY <1>1, <1>2, <3>1, <3>2, <3>3 DEF LinkedUp
  <2> QED BY <2>1, <2>2, <2>3 DEF Grown, WellLinked, LinkedUp
<1> QED BY <1>2, <1>4, <1>5, <1>6

LEMMA QueryIs ==
  ASSUME NEW n \in Nat \ {0}, NEW tab \in TableType(n), NEW k \in Keys, Grown(tab)
  PROVE  /\ \A s \in Occupied(tab) : tab[s].key = k => Query(tab, k) = tab[s].value
         /\ (\A s \in Occupied(tab) : tab[s].key # k) => Query(tab, k) = NoValue
<1>1. EntriesReachable(tab)
  BY DEF Grown, WellLinked
<1>2. /\ Hits(tab, k) = {s \in Occupied(tab) : tab[s].key = k}
      /\ \A s \in Hits(tab, k) : Hits(tab, k) = {s} /\ SlotOf(tab, k) = s
  BY <1>1, HitsExact
<1> QED BY <1>2 DEF Query

(* An entry more.                                                          *)
LEMMA AnswersAdded ==
  ASSUME NEW n \in Nat \ {0}, NEW tab \in TableType(n),
         NEW m \in Nat \ {0}, NEW new \in TableType(m),
         NEW k \in Keys, NEW v, NEW e, Grown(tab), Grown(new), Adds(tab, new, e, k, v)
  PROVE  Answers(new) = [Answers(tab) EXCEPT ![k] = v]
<1>1. /\ e \in Occupied(new) /\ new[e].key = k /\ new[e].value = v
      /\ Occupied(new) = Occupied(tab) \cup {e}
      /\ \A s \in Occupied(tab) : new[s].key = tab[s].key /\ new[s].value = tab[s].value
  BY DEF Adds
<1>2. Query(new, k) = v
  BY <1>1, QueryIs
<1>3. ASSUME NEW q \in Keys, q # k
      PROVE  Query(new, q) = Query(tab, q)
  <2>1. CASE \E s \in Occupied(tab) : tab[s].key = q
    <3>1. PICK s \in Occupied(tab) : tab[s].key = q
      BY <2>1
    <3>2. Query(tab, q) = tab[s].value
      BY <3>1, QueryIs
    <3>3. s \in Occupied(new) /\ new[s].key = q /\ new[s].value = tab[s].value
      BY <1>1, <3>1
    <3>4. Query(new, q) = new[s].value
      BY <3>3, QueryIs
    <3> QED BY <3>2, <3>3, <3>4
  <2>2. CASE \A s \in Occupied(tab) : tab[s].key # q
    <3>1. \A s \in Occupied(new) : new[s].key # q
      BY <1>1, <1>3, <2>2
    <3> QED BY <2>2, <3>1, QueryIs
  <2> QED BY <2>1, <2>2
<1> QED BY <1>2, <1>3 DEF Answers

(* Two tables with the same entries.                                       *)
LEMMA AnswersSame ==
  ASSUME NEW n \in Nat \ {0}, NEW tab \in TableType(n),
         NEW m \in Nat \ {0}, NEW new \in TableType(m), Grown(tab), Grown(new),
         \A s \in Occupied(new) : \E t \in Occupied(tab) :
           tab[t].key = new[s].key /\ tab[t].value = new[s].value,
         \A t \in Occupied(tab) : \E s \in Occupied(new) : new[s].key = tab[t].key
  PROVE  Answers(new) = Answers(tab)
<1>1. ASSUME NEW q \in Keys
      PROVE  Query(new, q) = Query(tab, q)
  <2>1. CASE \E s \in Occupied(new) : new[s].key = q
    <3>1. PICK s \in Occupied(new) : new[s].key = q
      BY <2>1
    <3>2. PICK t \in Occupied(tab) : tab[t].key = q /\ tab[t].value = new[s].value
      BY <3>1
    <3>3. Query(new, q) = new[s].value
      BY <3>1, QueryIs
    <3>4. Query(tab, q) = tab[t].value
      BY <3>2, QueryIs
    <3> QED BY <3>2, <3>3, <3>4
  <2>2. CASE \A s \in Occupied(new) : new[s].key # q
    <3>1. \A t \in Occupied(tab) : tab[t].key # q
      BY <2>2
    <3> QED BY <2>2, <3>1, QueryIs
  <2> QED BY <2>1, <2>2
<1> QED BY <1>1 DEF Answers

-----------------------------------------------------------------------------
(* The inductive invariant: the shape of the tables, what a resize has     *)
(* moved, and what a foreach loop has been given, with the counts and      *)
(* types of CountInv.                                                      *)

Moved ==
  /\ \A s \in Occupied(newSlots) :
       \E i \in 0 .. resizeIdx - 1 : /\ newSlots[s].key = slots[i].key
                                     /\ newSlots[s].value = slots[i].value
  /\ \A i \in 0 .. resizeIdx - 1 :
       \E s \in Occupied(newSlots) : newSlots[s].key = slots[i].key

ShapeInv ==
  /\ Grown(slots)
  /\ ~Idle => Grown(newSlots) /\ Moved /\ Hits(slots, pending.key) = {}

(* A loop that nothing disturbed has been given the keys up to its cursor. *)
LoopInv ==
  stable =>
    /\ cursor \in Keys /\ Hits(slots, cursor) # {}
    /\ seen = {slots[s].key : s \in {t \in Occupied(slots) : t <= SlotOf(slots, cursor)}}

(* What queries answer changes as a dictionary does.                       *)
DictStep ==
  \/ \E k \in Keys, v \in Values : Answers(slots') = [Answers(slots) EXCEPT ![k] = v]
  \/ Answers(slots') = [k \in Keys |-> NoValue]
  \/ Answers(slots') = Answers(slots)

Good == ShapeInv' /\ LoopInv' /\ DictStep

LEMMA TableFacts ==
  ASSUME CountInv
  PROVE  /\ size \in Nat \ {0} /\ 2 * size \in Nat \ {0} /\ cap \in Nat
         /\ slots \in TableType(size) /\ DOMAIN slots = SlotsOf(size)
         /\ cap = Cardinality(Occupied(slots)) /\ resizeIdx \in 0 .. size
         /\ cursor \in Keys \cup {NoKey}
         /\ ~Idle => /\ pending \in [key : Keys, value : Values]
                     /\ newSlots \in TableType(2 * size)
                     /\ Free(slots) = {}
                     /\ Cardinality(Occupied(newSlots)) = resizeIdx
BY DEF CountInv, TypeOK, CapIsOccupancy, TableType

LEMMA InitGood == Init => ShapeInv /\ LoopInv /\ Answers(slots) = [k \in Keys |-> NoValue]
<1> SUFFICES ASSUME Init
             PROVE  ShapeInv /\ LoopInv /\ Answers(slots) = [k \in Keys |-> NoValue]
  OBVIOUS
<1>1. slots = EmptyTable(size) /\ size \in Nat \ {0} /\ Idle /\ ~stable
  BY SizeAssumption DEF Init, Idle
<1>2. slots \in TableType(size) /\ Grown(slots) /\ Occupied(slots) = {}
  BY <1>1, EmptyGrown, EmptyTableCounts
<1>3. \A k \in Keys : Query(slots, k) = NoValue
  BY <1>1, <1>2, QueryIs
<1> QED BY <1>1, <1>2, <1>3 DEF ShapeInv, LoopInv, Answers

LEMMA SetExistingGood ==
  ASSUME CountInv, ShapeInv, LoopInv, NEW k \in Keys, NEW v \in Values, SetExisting(k, v)
  PROVE  Good
<1> DEFINE q == SlotOf(slots, k)
<1>1. /\ size \in Nat \ {0} /\ slots \in TableType(size) /\ DOMAIN slots = SlotsOf(size)
      /\ Idle /\ Grown(slots)
  BY TableFacts DEF SetExisting, ShapeInv
<1>2. q \in SlotsOf(size) /\ q \in Occupied(slots) /\ slots[q].key = k
  BY <1>1, HitsInTable DEF SetExisting
<1>3. /\ slots' = [slots EXCEPT ![q].value = v]
      /\ UNCHANGED <<size, newSlots, cursor, seen, stable>>
  BY DEF SetExisting, resize, iter
<1> HIDE DEF q
<1>4. /\ slots' \in TableType(size)
      /\ \A s \in SlotsOf(size) : /\ slots'[s].key = slots[s].key
                                  /\ slots'[s].next = slots[s].next
                                  /\ slots'[s].front = slots[s].front
                                  /\ s # q => slots'[s].value = slots[s].value
      /\ slots'[q].value = v
  BY <1>1, <1>2, <1>3 DEF TableType, SlotType
<1>5. /\ \A c \in Keys : Hits(slots', c) = Hits(slots, c) /\ SlotOf(slots', c) = SlotOf(slots, c)
      /\ Occupied(slots') = Occupied(slots) /\ Grown(slots')
  BY <1>1, <1>4, SameShape
<1>6. ShapeInv'
  BY <1>1, <1>3, <1>5 DEF ShapeInv, Idle
<1>7. LoopInv'
  <2>1. \A s \in Occupied(slots) : slots'[s].key = slots[s].key
    BY <1>1, <1>4 DEF Occupied
  <2> SUFFICES ASSUME stable
               PROVE  /\ cursor \in Keys /\ Hits(slots', cursor) # {}
                      /\ seen = {slots'[s].key : s \in {t \in Occupied(slots') : t <= SlotOf(slots', cursor)}}
    BY <1>3 DEF LoopInv
  <2>2. /\ cursor \in Keys /\ Hits(slots, cursor) # {}
        /\ seen = {slots[s].key : s \in {t \in Occupied(slots) : t <= SlotOf(slots, cursor)}}
    BY DEF LoopInv
  <2>3. {slots[s].key : s \in {t \in Occupied(slots) : t <= SlotOf(slots, cursor)}}
          = {slots'[s].key : s \in {t \in Occupied(slots) : t <= SlotOf(slots, cursor)}}
    BY <2>1
  <2> QED BY <1>5, <2>2, <2>3
<1>8. Answers(slots') = [Answers(slots) EXCEPT ![k] = v]
  <2>1. Query(slots', k) = v
    BY <1>1, <1>2, <1>4, <1>5, QueryIs
  <2>2. ASSUME NEW c \in Keys, c # k
        PROVE  Query(slots', c) = Query(slots, c)
    <3>1. CASE Hits(slots, c) = {}
      BY <1>5, <3>1 DEF Query
    <3>2. CASE Hits(slots, c) # {}
      <4>1. SlotOf(slots, c) \in SlotsOf(size) /\ slots[SlotOf(slots, c)].key = c
        BY <1>1, <3>2, HitsInTable
      <4>2. slots'[SlotOf(slots, c)].value = slots[SlotOf(slots, c)].value
        BY <1>2, <1>4, <2>2, <4>1
      <4> QED BY <1>5, <3>2, <4>2 DEF Query
    <3> QED BY <3>1, <3>2
  <2> QED BY <2>1, <2>2 DEF Answers
<1> QED BY <1>6, <1>7, <1>8 DEF Good, DictStep

LEMMA AddNewGood ==
  ASSUME CountInv, ShapeInv, NEW k \in Keys, NEW v \in Values, AddNew(k, v)
  PROVE  Good
<1>1. /\ size \in Nat \ {0} /\ slots \in TableType(size) /\ Idle /\ Grown(slots)
      /\ cap = Cardinality(Occupied(slots)) /\ cap < size /\ Hits(slots, k) = {}
  BY TableFacts DEF AddNew, ShapeInv
<1>2. slots' = Insert(slots, size, k, v) /\ UNCHANGED newSlots /\ ~stable'
  BY DEF AddNew, resize
<1>3. Free(slots) # {}
  BY <1>1, TableFinite
<1>4. /\ slots' \in TableType(size) /\ Grown(slots')
      /\ \E e \in Free(slots) : Adds(slots, slots', e, k, v)
  BY <1>1, <1>2, <1>3, InsertGrows
<1>5. Answers(slots') = [Answers(slots) EXCEPT ![k] = v]
  BY <1>1, <1>4, AnswersAdded
<1> QED BY <1>1, <1>2, <1>4, <1>5 DEF Good, ShapeInv, LoopInv, DictStep, Idle

LEMMA AddResizeGood ==
  ASSUME CountInv, ShapeInv, LoopInv, NEW k \in Keys, NEW v \in Values, AddResize(k, v)
  PROVE  Good
<1>1. /\ 2 * size \in Nat \ {0} /\ Grown(slots)
      /\ newSlots' = EmptyTable(2 * size) /\ resizeIdx' = 0
      /\ Hits(slots, k) = {} /\ pending'.key = k
      /\ UNCHANGED <<slots, cursor, seen, stable>>
  BY TableFacts DEF AddResize, ShapeInv, table, iter
<1>2. Grown(newSlots') /\ Occupied(newSlots') = {}
  BY <1>1, EmptyGrown
<1>3. Moved'
  BY <1>1, <1>2 DEF Moved
<1>4. ShapeInv'
  BY <1>1, <1>2, <1>3 DEF ShapeInv
<1>5. LoopInv'
  BY <1>1 DEF LoopInv
<1> QED BY <1>1, <1>4, <1>5 DEF Good, DictStep

(* No slot is moved twice, for no key is in two of them.                   *)
LEMMA ResizeStepGood ==
  ASSUME CountInv, ShapeInv, LoopInv, ResizeStep
  PROVE  Good
<1> DEFINE i == resizeIdx
           k == slots[i].key
           v == slots[i].value
           n == 2 * size
<1>1. /\ size \in Nat \ {0} /\ n \in Nat \ {0} /\ slots \in TableType(size)
      /\ DOMAIN slots = SlotsOf(size)
      /\ newSlots \in TableType(n) /\ Free(slots) = {} /\ i \in 0 .. size /\ i < size
      /\ Cardinality(Occupied(newSlots)) = i /\ ~Idle
      /\ Grown(slots) /\ Grown(newSlots) /\ Moved /\ Hits(slots, pending.key) = {}
  BY TableFacts DEF ResizeStep, ShapeInv
<1>2. /\ newSlots' = Insert(newSlots, n, k, v) /\ resizeIdx' = i + 1
      /\ UNCHANGED <<size, slots, pending, cursor, seen, stable>>
  BY DEF ResizeStep, table, iter
<1>3. Occupied(slots) = SlotsOf(size)
  BY <1>1 DEF Occupied, Free
<1>4. i \in SlotsOf(size) /\ k \in Keys /\ v \in Values \cup {NoValue}
  <2>1. i \in SlotsOf(size) /\ slots[i] \in SlotType(size)
    BY <1>1 DEF SlotsOf, TableType
  <2>2. k # NoKey
    BY <1>3, <2>1 DEF Occupied
  <2> QED BY <2>1, <2>2 DEF SlotType
<1>5. \A j \in 0 .. i - 1 : slots[j].key # k
  <2>1. \A s \in Hits(slots, k) : Hits(slots, k) = {s}
    BY <1>1, <1>4, HitsExact DEF Grown, WellLinked
  <2>2. Hits(slots, k) = {s \in SlotsOf(size) : slots[s].key = k}
    BY <1>1, <1>3, <1>4, HitsExact DEF Grown, WellLinked
  <2>3. \A j \in 0 .. i - 1 : j \in SlotsOf(size) /\ j # i
    BY <1>1, <1>4 DEF SlotsOf
  <2> QED BY <1>4, <2>1, <2>2, <2>3
<1>6. Hits(newSlots, k) = {}
  <2>1. Hits(newSlots, k) \subseteq {s \in Occupied(newSlots) : newSlots[s].key = k}
    BY <1>1, <1>4, HitsAre
  <2> QED BY <1>1, <1>5, <2>1 DEF Moved
<1>7. Free(newSlots) # {}
  <2>1. i # n
    BY <1>1
  <2> QED BY <1>1, <2>1, TableFinite
<1> HIDE DEF k, v, n
<1>8. /\ newSlots' \in TableType(n) /\ Grown(newSlots')
      /\ \E e \in Free(newSlots) : Adds(newSlots, newSlots', e, k, v)
  BY <1>1, <1>2, <1>4, <1>6, <1>7, InsertGrows
<1>9. PICK e \in Free(newSlots) : Adds(newSlots, newSlots', e, k, v)
  BY <1>8
<1>10. /\ Occupied(newSlots') = Occupied(newSlots) \cup {e}
       /\ newSlots'[e].key = k /\ newSlots'[e].value = v
       /\ \A s \in Occupied(newSlots) : /\ newSlots'[s].key = newSlots[s].key
                                        /\ newSlots'[s].value = newSlots[s].value
  BY <1>9 DEF Adds
<1>11. \A j \in 0 .. i : j \in 0 .. i - 1 \/ j = i
  BY <1>1
<1>12. /\ resizeIdx' - 1 = i /\ i \in 0 .. i
       /\ \A j \in 0 .. i - 1 : j \in 0 .. i
  BY <1>1, <1>2
<1>13. Moved'
  <2>1. ASSUME NEW s \in Occupied(newSlots')
        PROVE  \E j \in 0 .. i : /\ newSlots'[s].key = slots[j].key
                                 /\ newSlots'[s].value = slots[j].value
    <3>1. CASE s = e
      BY <1>10, <1>12, <3>1 DEF k, v
    <3>2. CASE s \in Occupied(newSlots)
      <4>1. PICK j \in 0 .. i - 1 : /\ newSlots[s].key = slots[j].key
                                    /\ newSlots[s].value = slots[j].value
        BY <1>1, <3>2 DEF Moved
      <4> QED BY <1>10, <1>12, <3>2, <4>1
    <3> QED BY <1>10, <2>1, <3>1, <3>2
  <2>2. ASSUME NEW j \in 0 .. i
        PROVE  \E s \in Occupied(newSlots') : newSlots'[s].key = slots[j].key
    <3>1. CASE j = i
      BY <1>10, <3>1 DEF k
    <3>2. CASE j \in 0 .. i - 1
      <4>1. PICK s \in Occupied(newSlots) : newSlots[s].key = slots[j].key
        BY <1>1, <3>2 DEF Moved
      <4> QED BY <1>10, <4>1
    <3> QED BY <1>11, <3>1, <3>2
  <2> QED BY <1>2, <1>12, <2>1, <2>2 DEF Moved
<1>14. ShapeInv'
  BY <1>1, <1>2, <1>8, <1>13 DEF ShapeInv
<1>15. LoopInv'
  BY <1>2 DEF LoopInv
<1> QED BY <1>2, <1>14, <1>15 DEF Good, DictStep

(* The new table has the entries of the old one.                           *)
LEMMA ResizeDoneGood ==
  ASSUME CountInv, ShapeInv, ResizeDone
  PROVE  Good
<1> DEFINE k == pending.key
           v == pending.value
           n == 2 * size
<1>1. /\ size \in Nat \ {0} /\ n \in Nat \ {0} /\ slots \in TableType(size)
      /\ DOMAIN slots = SlotsOf(size)
      /\ newSlots \in TableType(n) /\ Free(slots) = {} /\ resizeIdx = size
      /\ Cardinality(Occupied(newSlots)) = size /\ ~Idle
      /\ Grown(slots) /\ Grown(newSlots) /\ Moved /\ Hits(slots, k) = {}
      /\ k \in Keys /\ v \in Values
  BY TableFacts DEF ResizeDone, ShapeInv
<1>2. Occupied(slots) = SlotsOf(size) /\ SlotsOf(size) = 0 .. resizeIdx - 1
  BY <1>1 DEF Occupied, Free, SlotsOf
<1>3. \A s \in Occupied(newSlots) : newSlots[s].key # k
  <2>1. \A i \in SlotsOf(size) : slots[i].key # k
    BY <1>1, <1>2, HitsExact DEF Grown, WellLinked
  <2> QED BY <1>1, <1>2, <2>1 DEF Moved
<1>4. Hits(newSlots, k) = {}
  BY <1>1, <1>3, HitsAre
<1>5. ~Duplicate(newSlots, n, k)
  <2>1. \A s \in AddWalk(newSlots, n, k) : s \in SlotsOf(n)
    BY <1>1, HomeIsSlot, WalkInTable DEF AddWalk
  <2>2. \A s \in AddWalk(newSlots, n, k) : newSlots[s].key # k
    BY <1>1, <1>3, <2>1, NoneAssumption DEF Occupied, TableType
  <2> QED BY <2>2 DEF Duplicate
<1>6. slots' = Insert(newSlots, n, k, v) /\ newSlots' = << >> /\ ~stable'
  BY <1>5 DEF ResizeDone
<1>7. Free(newSlots) # {}
  <2>1. size # n
    BY <1>1
  <2> QED BY <1>1, <2>1, TableFinite
<1> HIDE DEF k, v, n
<1>8. /\ slots' \in TableType(n) /\ Grown(slots')
      /\ \E e \in Free(newSlots) : Adds(newSlots, slots', e, k, v)
  BY <1>1, <1>4, <1>6, <1>7, InsertGrows
<1>9. Answers(newSlots) = Answers(slots)
  <2>0. Occupied(slots) = 0 .. resizeIdx - 1
    BY <1>2
  <2>1. \A s \in Occupied(newSlots) : \E t \in Occupied(slots) :
          slots[t].key = newSlots[s].key /\ slots[t].value = newSlots[s].value
    <3> TAKE s \in Occupied(newSlots)
    <3>1. PICK i \in 0 .. resizeIdx - 1 : /\ newSlots[s].key = slots[i].key
                                          /\ newSlots[s].value = slots[i].value
      BY <1>1 DEF Moved
    <3> QED BY <2>0, <3>1
  <2>2. \A t \in Occupied(slots) : \E s \in Occupied(newSlots) : newSlots[s].key = slots[t].key
    BY <1>1, <2>0 DEF Moved
  <2> QED BY <1>1, <2>1, <2>2, AnswersSame
<1>10. Answers(slots') = [Answers(newSlots) EXCEPT ![k] = v]
  BY <1>1, <1>8, AnswersAdded
<1>11. DictStep
  BY <1>1, <1>9, <1>10 DEF DictStep
<1> QED BY <1>6, <1>8, <1>11 DEF Good, ShapeInv, LoopInv, Idle

LEMMA ClearGood ==
  ASSUME CountInv, ShapeInv, Clear
  PROVE  Good
<1>1. /\ size \in Nat \ {0} /\ slots' = EmptyTable(size) /\ Idle /\ Idle' /\ ~stable'
  BY TableFacts DEF Clear, Idle, resize
<1>2. slots' \in TableType(size) /\ Grown(slots') /\ Occupied(slots') = {}
  BY <1>1, EmptyGrown, EmptyTableCounts
<1>3. \A k \in Keys : Query(slots', k) = NoValue
  BY <1>1, <1>2, QueryIs
<1>4. Answers(slots') = [k \in Keys |-> NoValue]
  BY <1>3 DEF Answers
<1> QED BY <1>1, <1>2, <1>4 DEF Good, ShapeInv, LoopInv, DictStep

-----------------------------------------------------------------------------
(* A foreach loop.                                                         *)

LEMMA LoopGood ==
  ASSUME CountInv, ShapeInv, LoopInv, LoopNext
  PROVE  Good
<1>1. /\ size \in Nat \ {0} /\ slots \in TableType(size) /\ DOMAIN slots = SlotsOf(size)
      /\ Grown(slots) /\ EntriesReachable(slots)
  BY TableFacts DEF ShapeInv, Grown, WellLinked
<1>2. UNCHANGED <<slots, newSlots, resizeIdx, pending>>
  BY DEF LoopNext, IterBegin, IterNext, IterEnd, table, resize
<1>3. ShapeInv'
  BY <1>2 DEF ShapeInv, Moved, Idle
<1>4. \A s \in Occupied(slots) : s \in SlotsOf(size) /\ s \in Nat /\ slots[s].key \in Keys
  BY <1>1 DEF Occupied, TableType, SlotType, SlotsOf
<1>5. \A s \in Occupied(slots) :
        Hits(slots, slots[s].key) = {s} /\ SlotOf(slots, slots[s].key) = s
  BY <1>1, <1>4, HitsExact DEF EntriesReachable
<1>6. LoopInv'
  <2>1. CASE IterBegin
    <3>1. PICK s \in LowestFrom(slots, 0) : cursor' = slots[s].key /\ seen' = {slots[s].key}
      BY <2>1 DEF IterBegin, IterGive
    <3>2. s \in Occupied(slots) /\ \A t \in Occupied(slots) : t >= 0 => s <= t
      BY <3>1 DEF LowestFrom
    <3>3. {t \in Occupied(slots) : t <= s} = {s}
      BY <1>4, <3>2
    <3>4. seen' = {slots[t].key : t \in {u \in Occupied(slots) : u <= s}}
      BY <3>1, <3>3
    <3> QED BY <1>2, <1>4, <1>5, <3>1, <3>2, <3>4 DEF LoopInv
  <2>2. CASE IterNext
    <3> SUFFICES ASSUME stable
                 PROVE  /\ cursor' \in Keys /\ Hits(slots, cursor') # {}
                        /\ seen' = {slots[t].key : t \in {u \in Occupied(slots) : u <= SlotOf(slots, cursor')}}
      BY <1>2, <2>2 DEF LoopInv, IterNext
    <3> DEFINE q == SlotOf(slots, cursor)
    <3>1. /\ cursor \in Keys /\ Hits(slots, cursor) # {}
          /\ seen = {slots[t].key : t \in {u \in Occupied(slots) : u <= q}}
      BY DEF LoopInv
    <3>2. q \in Occupied(slots) /\ q \in Nat /\ ResumeAt(cursor) = q + 1
      BY <1>1, <1>4, <3>1, HitsInTable DEF ResumeAt
    <3> HIDE DEF q
    <3>3. PICK s \in LowestFrom(slots, q + 1) :
            cursor' = slots[s].key /\ seen' = seen \cup {slots[s].key}
      BY <2>2, <3>2 DEF IterNext, IterGive
    <3>4. s \in Occupied(slots) /\ s >= q + 1 /\ \A t \in Occupied(slots) : t >= q + 1 => s <= t
      BY <3>3 DEF LowestFrom
    <3>5. {t \in Occupied(slots) : t <= s} = {t \in Occupied(slots) : t <= q} \cup {s}
      <4>1. s \in Nat /\ q \in Nat
        BY <1>4, <3>2, <3>4
      <4>2. \A t \in Occupied(slots) : t <= s <=> t <= q \/ t = s
        <5> TAKE t \in Occupied(slots)
        <5>1. t \in Nat /\ (t >= q + 1 => s <= t)
          BY <1>4, <3>4
        <5>2. s >= q + 1
          BY <3>4
        <5> QED BY <4>1, <5>1, <5>2
      <4> QED BY <3>4, <4>2
    <3>6. seen' = {slots[t].key : t \in {u \in Occupied(slots) : u <= s}}
      BY <3>1, <3>3, <3>5
    <3> QED BY <1>4, <1>5, <3>3, <3>4, <3>6
  <2>3. CASE IterEnd
    BY <2>3 DEF IterEnd, LoopInv
  <2> QED BY <2>1, <2>2, <2>3 DEF LoopNext
<1> QED BY <1>2, <1>3, <1>6 DEF Good, DictStep

LEMMA GrowStepGood ==
  ASSUME CountInv, ShapeInv, LoopInv, [GrowNext]_vars
  PROVE  Good
<1>1. CASE UNCHANGED vars
  BY <1>1 DEF vars, Good, ShapeInv, Moved, Idle, LoopInv, DictStep
<1>2. CASE LoopNext
  BY <1>2, LoopGood
<1>3. CASE TableNext
  BY <1>3, SetExistingGood, AddNewGood, AddResizeGood, ResizeStepGood, ResizeDoneGood,
     ClearGood DEF TableNext
<1> QED BY <1>1, <1>2, <1>3 DEF GrowNext

(* The invariant of a table that only grows.                               *)
GrownInv == CountInv /\ ShapeInv /\ LoopInv

LEMMA GrownInvInit == Init => GrownInv
BY InitCountInv, InitGood DEF GrownInv

LEMMA GrownInvStep == GrownInv /\ [GrowNext]_vars => GrownInv'
BY NextCountInv, GrowStepGood DEF GrownInv, Good, Next

-----------------------------------------------------------------------------
(* A table that only grows keeps its shape: the assertions of a2_map_add   *)
(* (a2_map.c:182, 190, 192, 203) hold, every entry is where the query      *)
(* looks for it (a2_map.c:101-120), and a resize moves each entry once.    *)
THEOREM GrowInvHolds == GrowSpec => []GrowInv
<1>1. GrownInv => GrowInv
  <2> SUFFICES ASSUME GrownInv PROVE GrowInv
    OBVIOUS
  <2>1. ~Idle => \A i \in 0 .. resizeIdx - 1 : Hits(newSlots, slots[i].key) # {}
    <3> SUFFICES ASSUME ~Idle, NEW i \in 0 .. resizeIdx - 1
                 PROVE  Hits(newSlots, slots[i].key) # {}
      OBVIOUS
    <3>1. PICK s \in Occupied(newSlots) : newSlots[s].key = slots[i].key
      BY DEF GrownInv, ShapeInv, Moved
    <3> QED BY <3>1 DEF GrownInv, ShapeInv, Grown, WellLinked, EntriesReachable
  <2> QED BY <2>1 DEF GrownInv, ShapeInv, Moved, Grown, GrowInv
<1> QED BY <1>1, GrownInvInit, GrownInvStep, PTL DEF GrowSpec

(* The search for any key ends: no chain of links runs into a circle, in a *)
(* table of any size and with any hash function (a2_map.c:107-118).        *)
THEOREM QueriesEndHolds == GrowSpec => []QueriesEnd
<1>1. GrownInv => QueriesEnd
  <2> SUFFICES ASSUME GrownInv, NEW k \in Keys PROVE QueryEnds(k)
    BY DEF QueriesEnd
  <2>1. /\ size \in Nat \ {0} /\ slots \in TableType(size) /\ NoCircle(slots)
        /\ Home(k, size) \in SlotsOf(size)
    BY TableFacts, HomeIsSlot DEF GrownInv, ShapeInv, Grown
  <2> QED BY <2>1, QueryEndsIn DEF QueryEnds
<1> QED BY <1>1, GrownInvInit, GrownInvStep, PTL DEF GrowSpec

(* A foreach loop during which no entry is added or removed is given every *)
(* key of the map before it ends (a2_map.c:133-147).                       *)
THEOREM IterationCompleteHolds == GrowSpec => []IterationComplete
<1>1. GrownInv => IterationComplete
  <2> SUFFICES ASSUME GrownInv, stable, IterExhausted
               PROVE  seen = {slots[s].key : s \in Occupied(slots)}
    BY DEF IterationComplete
  <2> DEFINE q == SlotOf(slots, cursor)
             Rest == {t \in Occupied(slots) : t >= q + 1}
  <2>1. /\ cursor \in Keys /\ Hits(slots, cursor) # {}
        /\ seen = {slots[t].key : t \in {u \in Occupied(slots) : u <= q}}
    BY DEF GrownInv, LoopInv
  <2>2. size \in Nat \ {0} /\ slots \in TableType(size)
    BY TableFacts DEF GrownInv
  <2>3. q \in SlotsOf(size)
    BY <2>1, <2>2, HitsInTable
  <2>4. LowestFrom(slots, q + 1) = {}
    BY <2>1 DEF IterExhausted, ResumeAt
  <2>5. Occupied(slots) \subseteq Nat /\ IsFiniteSet(Occupied(slots)) /\ q \in Nat
    BY <2>2, <2>3, TableFinite DEF Occupied, TableType, SlotsOf
  <2>6. Rest = {}
    <3>1. SUFFICES ASSUME Rest # {} PROVE FALSE
      OBVIOUS
    <3>2. Rest \in SUBSET Nat /\ IsFiniteSet(Rest)
      BY <2>5, FS_Subset
    <3>3. PICK m \in Rest : \A x \in Rest : m <= x
      BY <3>1, <3>2, LeastElement
    <3> QED BY <2>4, <3>3 DEF LowestFrom
  <2>7. {u \in Occupied(slots) : u <= q} = Occupied(slots)
    BY <2>5, <2>6
  <2> QED BY <2>1, <2>7
<1> QED BY <1>1, GrownInvInit, GrownInvStep, PTL DEF GrowSpec

(* Such a loop is given no key twice.                                      *)
THEOREM IterationFreshHolds == GrowSpec => []IterationFresh
<1>1. GrownInv => IterationFresh
  <2> SUFFICES ASSUME GrownInv, stable, Hits(slots, cursor) # {},
                      NEW s \in LowestFrom(slots, ResumeAt(cursor))
               PROVE  slots[s].key \notin seen
    BY DEF IterationFresh
  <2> DEFINE q == SlotOf(slots, cursor)
  <2>1. /\ cursor \in Keys
        /\ seen = {slots[t].key : t \in {u \in Occupied(slots) : u <= q}}
    BY DEF GrownInv, LoopInv
  <2>2. size \in Nat \ {0} /\ slots \in TableType(size) /\ EntriesReachable(slots)
    BY TableFacts DEF GrownInv, ShapeInv, Grown, WellLinked
  <2>3. q \in Nat /\ s \in Occupied(slots) /\ s >= q + 1 /\ Occupied(slots) \subseteq Nat
    BY <2>1, <2>2, HitsInTable DEF LowestFrom, ResumeAt, Occupied, TableType, SlotsOf
  <2>4. \A t \in Occupied(slots) : slots[t].key = slots[s].key => t = s
    BY <2>2, <2>3 DEF EntriesReachable
  <2> QED BY <2>1, <2>3, <2>4
<1> QED BY <1>1, GrownInvInit, GrownInvStep, PTL DEF GrowSpec

(* The hash table implements a dictionary: through collisions, chains that *)
(* several home slots share, and resizes, every operation changes what     *)
(* queries answer as the same operation of a dictionary would.             *)
THEOREM RefinesDictHolds == GrowSpec => RefinesDict
<1> DEFINE dict == [k \in Keys |-> Query(slots, k)]
<1>1. Init => Dict!Init
  BY InitGood DEF Dict!Init, Answers
<1>2. GrownInv /\ [GrowNext]_vars => [Dict!Next]_dict
  <2> SUFFICES ASSUME GrownInv, [GrowNext]_vars PROVE [Dict!Next]_dict
    OBVIOUS
  <2>1. DictStep
    BY GrowStepGood DEF GrownInv, Good
  <2>2. dict = Answers(slots) /\ dict' = Answers(slots')
    BY DEF Answers
  <2> QED BY <2>1, <2>2 DEF DictStep, Dict!Next, Dict!Set, Dict!Clear
<1> QED BY <1>1, <1>2, GrownInvInit, GrownInvStep, PTL DEF GrowSpec, RefinesDict, Dict!Spec

=============================================================================
