------------------------- MODULE PlannerCacheProofs -------------------------
(***************************************************************************)
(* Theorems about module PlannerCache for any number of threads, contexts  *)
(* and plans and any limit.                                                *)
(***************************************************************************)
EXTENDS PlannerCache, FiniteSetTheorems, TLAPS

\* The dict and the calls of set under way are finite.
LEMMA Finite ==
    /\ IsFiniteSet(Cached) /\ Size \in Nat
    /\ IsFiniteSet(Setters) /\ Cardinality(Setters) \in Nat
<1>1. Cached \subseteq Keys /\ Setters \subseteq Threads
  BY DEF Cached, Setters
<1>2. IsFiniteSet(Cached) /\ IsFiniteSet(Setters)
  BY <1>1, FS_Subset, ConstantsAssumption
<1> QED
  BY <1>2, FS_CardinalityType DEF Size

\* A step of a thread that changes neither the dict nor whether it is inside set.
LEMMA SameSetters ==
    ASSUME NEW t \in Threads, NEW where, pc \in [Threads -> {"idle", "set", "use"} \cup Setting],
           pc' = [pc EXCEPT ![t] = where], where \in Setting <=> pc[t] \in Setting
    PROVE  Setters' = Setters
  BY DEF Setters

\* A call of set begins.
LEMMA SetterJoins ==
    ASSUME NEW t \in Threads, NEW where \in Setting,
           pc \in [Threads -> {"idle", "set", "use"} \cup Setting],
           pc' = [pc EXCEPT ![t] = where], pc[t] \notin Setting
    PROVE  /\ Setters' = Setters \cup {t}
           /\ Cardinality(Setters') = Cardinality(Setters) + 1
<1>1. Setters' = Setters \cup {t} /\ t \notin Setters
  BY DEF Setters
<1> QED
  BY <1>1, Finite, FS_AddElement

\* A call of set ends.
LEMMA SetterLeaves ==
    ASSUME NEW t \in Threads, NEW where, where \notin Setting,
           pc \in [Threads -> {"idle", "set", "use"} \cup Setting],
           pc' = [pc EXCEPT ![t] = where], pc[t] \in Setting
    PROVE  /\ Setters' = Setters \ {t}
           /\ Cardinality(Setters') = Cardinality(Setters) - 1
           /\ Cardinality(Setters) >= 1
<1>1. Setters' = Setters \ {t} /\ t \in Setters
  BY DEF Setters
<1>2. Cardinality(Setters') = Cardinality(Setters) - 1
  BY <1>1, Finite, FS_RemoveElement
<1>3. Cardinality(Setters) # 0
  BY <1>1, Finite, FS_EmptySet
<1> QED
  BY <1>1, <1>2, <1>3, Finite

\* Only a key that is there can be popped.
LEMMA Popped ==
    ASSUME NEW k \in Keys, items \in [Keys -> Entry \cup {None}],
           items' = [items EXCEPT ![k] = None]
    PROVE  /\ Cached' = Cached \ {k}
           /\ Size' = IF k \in Cached THEN Size - 1 ELSE Size
<1>1. Cached' = Cached \ {k}
  BY DEF Cached
<1>2. CASE k \in Cached
  BY <1>1, <1>2, Finite, FS_RemoveElement DEF Size
<1>3. CASE k \notin Cached
  <2>1. Cached' = Cached
    BY <1>1, <1>3
  <2> QED
    BY <1>1, <1>3, <2>1 DEF Size
<1> QED
  BY <1>2, <1>3

\* An assignment adds a key at most.
LEMMA Stored ==
    ASSUME NEW k \in Keys, NEW e \in Entry, items \in [Keys -> Entry \cup {None}],
           items' = [items EXCEPT ![k] = e]
    PROVE  /\ Cached' = Cached \cup {k}
           /\ Size' <= Size + 1
<1>1. e # None
  BY ConstantsAssumption DEF Entry
<1>2. Cached' = Cached \cup {k}
  BY <1>1 DEF Cached
<1>3. Cardinality(Cached \cup {k}) \in {Size, Size + 1}
  <2>1. CASE k \in Cached
    <3>1. Cached \cup {k} = Cached
      BY <2>1
    <3> QED
      BY <3>1 DEF Size
  <2>2. CASE k \notin Cached
    BY <2>2, Finite, FS_AddElement DEF Size
  <2> QED
    BY <2>1, <2>2
<1>4. Size' \in {Size, Size + 1}
  BY <1>2, <1>3 DEF Size
<1>5. Size \in Nat
  BY Finite
<1> QED
  BY <1>2, <1>4, <1>5

\* The initial state.
LEMMA Initial == Init => IInv
<1> SUFFICES ASSUME Init PROVE IInv
  OBVIOUS
<1>1. TypeOK
  BY DEF Init, TypeOK
<1>2. Cached = {} /\ Setters = {}
  BY DEF Init, Cached, Setters, Setting
<1>3. Size = 0 /\ Cardinality(Setters) = 0
  BY <1>2, FS_EmptySet DEF Size
<1>4. Growth
  BY <1>2, <1>3, ConstantsAssumption DEF Init, Growth, Owed
<1>5. Busy
  BY DEF Init, Busy, Setting
<1>6. PlansIntact
  BY <1>2 DEF Init, PlansIntact
<1> QED
  BY <1>1, <1>4, <1>5, <1>6 DEF IInv
-----------------------------------------------------------------------------
\* The types after any step.
LEMMA TypeStep ==
    ASSUME TypeOK, Busy, PlansIntact, [Next]_vars
    PROVE  TypeOK'
<1>1. ASSUME NEW t \in Threads, Lookup(t) PROVE TypeOK'
  <2>1. PICK k \in Keys : wanted' = [wanted EXCEPT ![t] = k] /\ (Hit(t, k) \/ Miss(t, k))
    BY <1>1 DEF Lookup
  <2>2. CASE Hit(t, k)
    <3>1. items[k] \in Entry
      BY <2>2 DEF Hit, Cached, TypeOK
    <3>2. items[k].plan \in Nat
      BY <3>1 DEF Entry
    <3> QED
      BY <1>1, <2>1, <2>2, <3>2 DEF Lookup, Hit, Goto, TypeOK
  <2>3. CASE Miss(t, k)
    <3>1. plans' \in Seq(Plan) /\ Len(plans) + 1 \in Nat
      BY <2>3 DEF Miss, TypeOK, Plan
    <3> QED
      BY <1>1, <2>1, <2>3, <3>1 DEF Lookup, Miss, Goto, TypeOK
  <2> QED
    BY <2>1, <2>2, <2>3
<1>2. ASSUME NEW t \in Threads, SetBegins(t) PROVE TypeOK'
  BY <1>2 DEF SetBegins, Goto, Setting, TypeOK
<1>3. ASSUME NEW t \in Threads, SetIter(t) PROVE TypeOK'
  BY <1>3, Finite DEF SetIter, Goto, Setting, TypeOK
<1>4. ASSUME NEW t \in Threads, SetNext(t) PROVE TypeOK'
  BY <1>4 DEF SetNext, Goto, Setting, TypeOK
<1>5. ASSUME NEW t \in Threads, SetNextFails(t) PROVE TypeOK'
  BY <1>5 DEF SetNextFails, Goto, TypeOK
<1>6. ASSUME NEW t \in Threads, SetPop(t) PROVE TypeOK'
  BY <1>6 DEF SetPop, Goto, Setting, TypeOK
<1>7. ASSUME NEW t \in Threads, SetInsert(t) PROVE TypeOK'
  <2> DEFINE k == wanted[t]
             at == IF k \in Cached THEN items[k].at ELSE inserted + 1
  <2>1. k \in Keys /\ held[t] \in Nat
    BY <1>7 DEF SetInsert, Busy, Setting, TypeOK
  <2>2. at \in Nat
    BY <2>1 DEF Cached, Entry, TypeOK
  <2>3. [plan |-> held[t], at |-> at] \in Entry
    BY <2>1, <2>2 DEF Entry
  <2>4. inserted' \in Nat
    BY <1>7 DEF SetInsert, TypeOK
  <2>5. items' \in [Keys -> Entry \cup {None}]
    BY <1>7, <2>3 DEF SetInsert, TypeOK
  <2> QED
    BY <1>7, <2>4, <2>5 DEF SetInsert, Goto, TypeOK
<1>8. ASSUME NEW t \in Threads, Reflect(t) \/ Answered(t) PROVE TypeOK'
  BY <1>8 DEF Reflect, Answered, Goto, TypeOK
<1>9. ASSUME UNCHANGED vars PROVE TypeOK'
  BY <1>9 DEF vars, TypeOK
<1> QED
  BY <1>1, <1>2, <1>3, <1>4, <1>5, <1>6, <1>7, <1>8, <1>9 DEF Next, Store, Done

\* What a thread needs at each point of set, after any step.
LEMMA BusyStep ==
    ASSUME TypeOK, Busy, PlansIntact, [Next]_vars
    PROVE  Busy'
<1> USE DEF Setting
<1>1. ASSUME NEW t \in Threads, Lookup(t) PROVE Busy'
  <2>1. PICK k \in Keys : wanted' = [wanted EXCEPT ![t] = k] /\ (Hit(t, k) \/ Miss(t, k))
    BY <1>1 DEF Lookup
  <2>2. CASE Hit(t, k)
    BY <1>1, <2>1, <2>2 DEF Lookup, Hit, Goto, Busy, TypeOK
  <2>3. CASE Miss(t, k)
    <3>1. Len(plans) + 1 # None
      BY ConstantsAssumption DEF TypeOK
    <3> QED
      BY <1>1, <2>1, <2>3, <3>1 DEF Lookup, Miss, Goto, Busy, TypeOK
  <2> QED
    BY <2>1, <2>2, <2>3
<1>2. ASSUME NEW t \in Threads, SetBegins(t) PROVE Busy'
  BY <1>2 DEF SetBegins, Goto, Busy, TypeOK
<1>3. ASSUME NEW t \in Threads, SetIter(t) PROVE Busy'
  BY <1>3 DEF SetIter, Goto, Busy, TypeOK
<1>4. ASSUME NEW t \in Threads, SetNext(t) PROVE Busy'
  BY <1>4 DEF SetNext, Goto, Busy, TypeOK
<1>5. ASSUME NEW t \in Threads, SetNextFails(t) PROVE Busy'
  BY <1>5 DEF SetNextFails, Goto, Busy, TypeOK
<1>6. ASSUME NEW t \in Threads, SetPop(t) PROVE Busy'
  BY <1>6 DEF SetPop, Goto, Busy, TypeOK
<1>7. ASSUME NEW t \in Threads, SetInsert(t) PROVE Busy'
  BY <1>7 DEF SetInsert, Goto, Busy, TypeOK
<1>8. ASSUME NEW t \in Threads, Reflect(t) \/ Answered(t) PROVE Busy'
  BY <1>8 DEF Reflect, Answered, Goto, Busy, TypeOK
<1>9. ASSUME UNCHANGED vars PROVE Busy'
  BY <1>9 DEF vars, Busy
<1> QED
  BY <1>1, <1>2, <1>3, <1>4, <1>5, <1>6, <1>7, <1>8, <1>9 DEF Next, Store, Done

\* A plan that is handed out is the one made for the context, after any step.
LEMMA IntactStep ==
    ASSUME TypeOK, Busy, PlansIntact, [Next]_vars
    PROVE  PlansIntact'
<1>1. ASSUME NEW t \in Threads, Lookup(t) PROVE PlansIntact'
  <2>1. PICK k \in Keys : wanted' = [wanted EXCEPT ![t] = k] /\ (Hit(t, k) \/ Miss(t, k))
    BY <1>1 DEF Lookup
  <2>2. items' = items /\ Cached' = Cached
    BY <1>1 DEF Lookup, Cached
  <2>3. CASE Hit(t, k)
    BY <1>1, <2>1, <2>2, <2>3 DEF Hit, PlansIntact, IsPlanFor, TypeOK
  <2>4. CASE Miss(t, k)
    <3> DEFINE new == [key |-> k, changed |-> FALSE]
    <3>1. plans \in Seq(Plan) /\ new \in Plan /\ plans' = Append(plans, new)
      BY <2>4 DEF Miss, TypeOK, Plan
    <3> HIDE DEF new
    <3>2. /\ Len(plans) \in Nat
          /\ DOMAIN plans = 1 .. Len(plans) /\ DOMAIN plans' = 1 .. Len(plans) + 1
          /\ \A p \in DOMAIN plans : plans'[p] = plans[p]
          /\ plans'[Len(plans) + 1] = new
      BY <3>1
    <3>3. ASSUME NEW p, NEW j, IsPlanFor(p, j)
          PROVE  p \in DOMAIN plans' /\ plans'[p] = [key |-> j, changed |-> FALSE]
      <4>1. p \in DOMAIN plans
        BY <3>3 DEF IsPlanFor
      <4>2. DOMAIN plans \subseteq DOMAIN plans'
        BY <3>2
      <4>3. plans'[p] = plans[p]
        BY <3>2, <4>1, Zenon
      <4> QED
        BY <3>3, <4>1, <4>2, <4>3, Zenon DEF IsPlanFor
    <3>4. Len(plans) + 1 \in DOMAIN plans' /\ plans'[Len(plans) + 1] = new
      BY <3>2
    <3>5. held' = [held EXCEPT ![t] = Len(plans) + 1]
      BY <2>4 DEF Miss
    <3>6. ASSUME NEW j \in Cached'
          PROVE  IsPlanFor(items[j].plan, j)'
      <4>1. IsPlanFor(items[j].plan, j)
        BY <2>2 DEF PlansIntact
      <4> QED
        BY <2>2, <3>3, <4>1 DEF IsPlanFor
    <3>7. ASSUME NEW u \in Threads, held'[u] # None
          PROVE  IsPlanFor(held[u], wanted[u])'
      <4>1. CASE u = t
        BY <2>1, <3>4, <3>5, <4>1 DEF IsPlanFor, TypeOK, new
      <4>2. CASE u # t
        <5>1. held'[u] = held[u] /\ wanted'[u] = wanted[u]
          BY <2>1, <3>5, <4>2 DEF TypeOK
        <5>2. IsPlanFor(held[u], wanted[u])
          BY <3>7, <5>1 DEF PlansIntact
        <5> QED
          BY <3>3, <5>1, <5>2 DEF IsPlanFor
      <4> QED
        BY <4>1, <4>2
    <3> QED
      BY <3>6, <3>7 DEF PlansIntact
  <2> QED
    BY <2>1, <2>3, <2>4
<1>2. ASSUME NEW t \in Threads, SetBegins(t) \/ SetIter(t) \/ SetNext(t)
      PROVE  PlansIntact'
  BY <1>2 DEF SetBegins, SetIter, SetNext, PlansIntact, IsPlanFor, Cached
<1>3. ASSUME NEW t \in Threads, SetNextFails(t) \/ Reflect(t) \/ Answered(t)
      PROVE  PlansIntact'
  BY <1>3 DEF SetNextFails, Reflect, Answered, PlansIntact, IsPlanFor, Cached, TypeOK
<1>4. ASSUME NEW t \in Threads, SetPop(t) PROVE PlansIntact'
  BY <1>4 DEF SetPop, PlansIntact, IsPlanFor, Cached, TypeOK
<1>5. ASSUME NEW t \in Threads, SetInsert(t) PROVE PlansIntact'
  <2>1. wanted[t] \in Keys /\ held[t] # None
    BY <1>5 DEF SetInsert, Busy, Setting
  <2>2. PICK at : items' = [items EXCEPT ![wanted[t]] = [plan |-> held[t], at |-> at]]
    BY <1>5 DEF SetInsert
  <2>3. Cached' \subseteq Cached \cup {wanted[t]}
    BY <2>1, <2>2 DEF Cached, TypeOK
  <2>4. \A k \in Cached' : items'[k].plan = IF k = wanted[t] THEN held[t] ELSE items[k].plan
    BY <2>1, <2>2 DEF Cached, TypeOK
  <2> QED
    BY <1>5, <2>1, <2>3, <2>4 DEF SetInsert, PlansIntact, IsPlanFor
<1>6. ASSUME UNCHANGED vars PROVE PlansIntact'
  BY <1>6 DEF vars, PlansIntact, IsPlanFor, Cached
<1> QED
  BY <1>1, <1>2, <1>3, <1>4, <1>5, <1>6 DEF Next, Store, Done
-----------------------------------------------------------------------------
\* The size of the dict after any step: an eviction that is owed makes up for the
\* first of the calls under way, every other one has overlapped.
LEMMA GrowthStep ==
    ASSUME TypeOK, Busy, Growth, [Next]_vars
    PROVE  Growth'
<1> DEFINE C == Cardinality(Setters)
           Credit == IF Owed THEN 1 ELSE 0
<1> USE DEF Setting
<1>0. /\ Size \in Nat /\ C \in Nat /\ overlaps \in Nat /\ MaxItems \in Nat
      /\ C <= overlaps + 1 /\ Size + C <= MaxItems + overlaps + Credit
      /\ Credit \in {0, 1} /\ Credit' \in {0, 1}
  BY Finite, ConstantsAssumption DEF TypeOK, Growth
<1>1. ASSUME NEW t \in Threads, Lookup(t) \/ Reflect(t) \/ Answered(t)
      PROVE  Growth'
  <2>1. Setters' = Setters /\ \A u \in Setters : pc'[u] = pc[u]
    BY <1>1 DEF Lookup, Hit, Miss, Reflect, Answered, Goto, Setters, TypeOK
  <2>2. Cached' = Cached /\ oldest' = oldest /\ overlaps' = overlaps
    BY <1>1 DEF Lookup, Reflect, Answered, Cached
  <2>3. Owed => Owed'
    BY <2>1, <2>2 DEF Owed
  <2>4. C' = C /\ Size' = Size /\ Credit <= Credit'
    BY <2>1, <2>2, <2>3 DEF Size
  <2> QED
    BY <1>0, <2>2, <2>4 DEF Growth
<1>2. ASSUME NEW t \in Threads, SetBegins(t) PROVE Growth'
  <2> DEFINE where == IF Full THEN "iter" ELSE "insert"
  <2>1. /\ pc' = [pc EXCEPT ![t] = where] /\ where \in Setting /\ pc[t] \notin Setting
        /\ pc \in [Threads -> {"idle", "set", "use"} \cup Setting]
    BY <1>2 DEF SetBegins, Goto, TypeOK
  <2> HIDE DEF where
  <2>2. Setters' = Setters \cup {t} /\ C' = C + 1
    BY <2>1, SetterJoins
  <2>3. Cached' = Cached /\ oldest' = oldest
    BY <1>2 DEF SetBegins, Cached
  <2>4. Size' = Size
    BY <2>3 DEF Size
  <2>5. Full => pc'[t] = "iter"
    BY <2>1 DEF where
  <2>6. CASE Setters = {}
    <3>1. C = 0 /\ ~ Owed /\ overlaps' = overlaps
      BY <1>2, <2>6, FS_EmptySet DEF SetBegins, Owed
    <3>2. Full => Owed'
      BY <2>2, <2>5, <2>6 DEF Owed
    <3>3. CASE Full
      BY <1>0, <2>2, <2>4, <3>1, <3>2, <3>3 DEF Growth
    <3>4. CASE ~ Full
      BY <1>0, <2>2, <2>4, <3>1, <3>4 DEF Growth, Full
    <3> QED
      BY <3>3, <3>4
  <2>7. CASE Setters # {}
    <3>1. overlaps' = overlaps + 1
      BY <1>2, <2>7 DEF SetBegins
    <3>2. \A u \in Setters : pc'[u] = pc[u]
      BY <2>1 DEF Setters
    <3>3. CASE Full
      <4>1. Owed => Owed'
        BY <2>2, <2>3, <2>5, <3>2, <3>3 DEF Owed
      <4> QED
        BY <1>0, <2>2, <2>4, <3>1, <4>1 DEF Growth
    <3>4. CASE ~ Full
      BY <1>0, <2>2, <2>4, <3>1, <3>4 DEF Growth, Full
    <3> QED
      BY <3>3, <3>4
  <2> QED
    BY <2>6, <2>7
<1>3. ASSUME NEW t \in Threads, SetIter(t) \/ SetNext(t) PROVE Growth'
  <2>1. Setters' = Setters /\ pc'[t] # "insert"
        /\ \A u \in Setters \ {t} : pc'[u] = pc[u] /\ oldest'[u] = oldest[u]
    BY <1>3 DEF SetIter, SetNext, Goto, Setters, TypeOK
  <2>2. Cached' = Cached /\ overlaps' = overlaps
    BY <1>3 DEF SetIter, SetNext, Cached
  <2>3. pc'[t] = "pop" => oldest'[t] \in Cached
    BY <1>3 DEF SetIter, SetNext, IsOldest, Goto, TypeOK
  <2>4. Owed => Owed'
    BY <2>1, <2>2, <2>3 DEF Owed
  <2>5. C' = C /\ Size' = Size
    BY <2>1, <2>2 DEF Size
  <2> QED
    BY <1>0, <2>2, <2>4, <2>5 DEF Growth
<1>4. ASSUME NEW t \in Threads, SetNextFails(t) PROVE Growth'
  <2>1. /\ Setters' = Setters \ {t} /\ C' = C - 1 /\ C >= 1
    BY <1>4, SetterLeaves DEF SetNextFails, Goto, TypeOK
  <2>2. \A u \in Setters \ {t} : pc'[u] = pc[u]
    BY <1>4 DEF SetNextFails, Goto, Setters, TypeOK
  <2>3. Cached' = Cached /\ oldest' = oldest /\ overlaps' = overlaps
    BY <1>4 DEF SetNextFails, Cached
  <2>4. Size' = Size
    BY <2>3 DEF Size
  <2>5. CASE Setters' = {}
    <3>1. C' = 0
      BY <2>5, FS_EmptySet
    <3> QED
      BY <1>0, <2>1, <2>3, <2>4, <3>1 DEF Growth
  <2>6. CASE Setters' # {}
    <3>1. Owed => Owed'
      BY <2>1, <2>2, <2>3, <2>6 DEF Owed
    <3> QED
      BY <1>0, <2>1, <2>3, <2>4, <3>1 DEF Growth
  <2> QED
    BY <2>5, <2>6
<1>5. ASSUME NEW t \in Threads, SetPop(t) PROVE Growth'
  <2>1. Setters' = Setters /\ overlaps' = overlaps /\ t \in Setters /\ pc[t] = "pop"
    BY <1>5 DEF SetPop, Goto, Setters, TypeOK
  <2>2. oldest[t] \in Keys
    BY <1>5 DEF SetPop, Busy
  <2>3. Size' = IF oldest[t] \in Cached THEN Size - 1 ELSE Size
    BY <1>5, <2>2, Popped DEF SetPop, TypeOK
  <2>4. C' = C
    BY <2>1
  <2>5. CASE oldest[t] \in Cached
    BY <1>0, <2>1, <2>3, <2>4, <2>5 DEF Growth
  <2>6. CASE oldest[t] \notin Cached
    <3>1. ~ Owed
      BY <2>1, <2>6 DEF Owed
    <3> QED
      BY <1>0, <2>1, <2>3, <2>4, <2>6, <3>1 DEF Growth
  <2> QED
    BY <2>5, <2>6
<1>6. ASSUME NEW t \in Threads, SetInsert(t) PROVE Growth'
  <2>1. /\ Setters' = Setters \ {t} /\ C' = C - 1 /\ C >= 1
    BY <1>6, SetterLeaves DEF SetInsert, Goto, TypeOK
  <2>2. ~ Owed /\ overlaps' = overlaps
    BY <1>6 DEF SetInsert, Owed, Setters
  <2>3. Size' <= Size + 1
    <3> DEFINE k == wanted[t]
               at == IF k \in Cached THEN items[k].at ELSE inserted + 1
    <3>1. k \in Keys /\ held[t] \in Nat
      BY <1>6 DEF SetInsert, Busy, TypeOK
    <3>2. [plan |-> held[t], at |-> at] \in Entry
      BY <3>1 DEF Cached, Entry, TypeOK
    <3>3. items' = [items EXCEPT ![k] = [plan |-> held[t], at |-> at]]
      BY <1>6 DEF SetInsert
    <3>4. items \in [Keys -> Entry \cup {None}]
      BY DEF TypeOK
    <3> HIDE DEF at, k
    <3> QED
      BY <3>1, <3>2, <3>3, <3>4, Stored
  <2>4. Size' \in Nat
    <3>1. Cached' \in SUBSET Keys
      BY DEF Cached
    <3> QED
      BY <3>1, FS_Subset, FS_CardinalityType, ConstantsAssumption DEF Size
  <2> QED
    BY <1>0, <2>1, <2>2, <2>3, <2>4 DEF Growth
<1>7. ASSUME UNCHANGED vars PROVE Growth'
  <2>1. Setters' = Setters /\ Cached' = Cached /\ overlaps' = overlaps
    BY <1>7 DEF vars, Setters, Cached
  <2>2. Owed' <=> Owed
    BY <1>7, <2>1 DEF vars, Owed
  <2>3. Size' = Size /\ C' = C
    BY <2>1 DEF Size
  <2> QED
    BY <1>0, <2>1, <2>2, <2>3 DEF Growth
<1> QED
  BY <1>1, <1>2, <1>3, <1>4, <1>5, <1>6, <1>7 DEF Next, Store, Done
-----------------------------------------------------------------------------
\* The invariant of the cache (graph.py PlannerCache, plan_request).
THEOREM Inductive == Spec => []IInv
<1>1. IInv /\ [Next]_vars => IInv'
  BY TypeStep, BusyStep, IntactStep, GrowthStep DEF IInv
<1> QED
  BY Initial, <1>1, PTL DEF Spec

\* Every variable has its type, however the threads interleave (graph.py PlannerCache).
THEOREM TypeCorrect == Spec => []TypeOK
<1>1. IInv => TypeOK
  BY DEF IInv
<1> QED
  BY <1>1, Inductive, PTL

\* The dict outgrows max_items only by as many entries as calls of set overlapped, for
\* any number of threads; without overlaps it never does (graph.py PlannerCache.set).
THEOREM LimitedButForRaces == Spec => []GrowsByRacesOnly
<1>1. IInv => GrowsByRacesOnly
  <2> SUFFICES ASSUME IInv PROVE GrowsByRacesOnly
    OBVIOUS
  <2>1. /\ Size + Cardinality(Setters) <= MaxItems + overlaps + (IF Owed THEN 1 ELSE 0)
        /\ overlaps \in Nat /\ MaxItems \in Nat
    BY ConstantsAssumption DEF IInv, Growth, TypeOK
  <2>2. CASE Owed
    <3>1. Cardinality(Setters) # 0
      BY <2>2, Finite, FS_EmptySet DEF Owed
    <3> QED
      BY <2>1, <2>2, <3>1, Finite DEF GrowsByRacesOnly
  <2>3. CASE ~ Owed
    BY <2>1, <2>3, Finite DEF GrowsByRacesOnly
  <2> QED
    BY <2>2, <2>3
<1> QED
  BY <1>1, Inductive, PTL

\* No run changes a plan another run may be given (graph.py reflect_step, reflect_answer).
THEOREM Intact == Spec => []PlansIntact
<1>1. IInv => PlansIntact
  BY DEF IInv
<1> QED
  BY <1>1, Inductive, PTL
=============================================================================
