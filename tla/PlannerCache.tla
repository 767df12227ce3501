---------------------------- MODULE PlannerCache ----------------------------
(***************************************************************************)
(* The cache of plans that the threads of the Python runtime share         *)
(* (graph.py PlannerCache): a dict without a lock.  A chat looks its       *)
(* context up; on a miss it plans, which takes long, and then stores the   *)
(* plan, evicting the oldest entry when the dict is full.                  *)
(*                                                                         *)
(* The interpreter may switch threads between any two operations on the    *)
(* dict, so each of them is an action: len, iter, next, pop, the           *)
(* assignment.  The dict keeps its insertion order, and the list it stores *)
(* is the object the graph goes on working with.                           *)
(***************************************************************************)
EXTENDS Naturals, Sequences, FiniteSets

CONSTANTS
    Threads,   \* threads that serve /chat
    Keys,      \* contexts that _hash_plan_key tells apart
    MaxItems,  \* max_items, 256 by default
    MaxPlans,  \* bound: plans made
    None       \* the null value

ASSUME ConstantsAssumption ==
    /\ IsFiniteSet(Threads)
    /\ IsFiniteSet(Keys)
    /\ MaxItems \in Nat \ {0}
    /\ MaxPlans \in Nat
    /\ None \notin Keys
    /\ None \notin Nat
    /\ None \notin [plan : Nat, at : Nat]

VARIABLES
    items,     \* _items: for each key its plan and when the key was inserted, or None
    plans,     \* the lists made so far: the key each was made for, whether it was changed
    inserted,  \* keys inserted so far
    pc,        \* what each thread is about to do
    wanted,    \* the key of its chat
    held,      \* the list it plans with, or None when it works with one of its own
    size,      \* the size of the dict when it called iter
    oldest,    \* oldest_key
    overlaps   \* history: calls of set that began while another was under way

vars == <<items, plans, inserted, pc, wanted, held, size, oldest, overlaps>>

Entry == [plan : Nat, at : Nat]
Plan == [key : Keys, changed : BOOLEAN]
-----------------------------------------------------------------------------
Cached == {k \in Keys : items[k] # None}
Size == Cardinality(Cached)

\* The key that a new iterator returns first.
IsOldest(k) == k \in Cached /\ \A j \in Cached : items[k].at <= items[j].at

\* Calls of set under way.
Setting == {"iter", "next", "pop", "insert"}
Setters == {t \in Threads : pc[t] \in Setting}

Goto(t, where) == pc' = [pc EXCEPT ![t] = where]

\* plan_request: the context is looked up.  On a miss a list is made, by the model or,
\* when it fails, by the rules; either is stored.
Hit(t, k) ==
    /\ k \in Cached
    /\ held' = [held EXCEPT ![t] = items[k].plan]
    /\ Goto(t, "use")
    /\ UNCHANGED plans

\* Mutation: the model fails, the rules are not asked, and nothing is stored as a plan.
MissUnplanned(t, k) ==
    /\ k \notin Cached
    /\ Len(plans) < MaxPlans
    /\ plans' = Append(plans, [key |-> k, changed |-> FALSE])
    /\ held' = [held EXCEPT ![t] = None]
    /\ Goto(t, "set")

Miss(t, k) ==
    /\ k \notin Cached
    /\ Len(plans) < MaxPlans
    /\ plans' = Append(plans, [key |-> k, changed |-> FALSE])
    /\ held' = [held EXCEPT ![t] = Len(plans) + 1]
    /\ Goto(t, "set")

Lookup(t) ==
    /\ pc[t] = "idle"
    /\ \E k \in Keys :
        /\ wanted' = [wanted EXCEPT ![t] = k]
        /\ Hit(t, k) \/ Miss(t, k)
    /\ UNCHANGED <<items, inserted, size, oldest, overlaps>>

\* Mutation: the dict is full one item too late.
FullTooLate == Size > MaxItems

\* len(self._items) >= self._max_items
Full == Size >= MaxItems

SetBegins(t) ==
    /\ pc[t] = "set"
    /\ Goto(t, IF Full THEN "iter" ELSE "insert")
    /\ overlaps' = IF Setters = {} THEN overlaps ELSE overlaps + 1
    /\ UNCHANGED <<items, plans, inserted, wanted, held, size, oldest>>

SetIter(t) ==
    /\ pc[t] = "iter"
    /\ size' = [size EXCEPT ![t] = Size]
    /\ Goto(t, "next")
    /\ UNCHANGED <<items, plans, inserted, wanted, held, oldest, overlaps>>

SetNext(t) ==
    /\ pc[t] = "next"
    /\ size[t] = Size
    /\ \E k \in Keys : IsOldest(k) /\ oldest' = [oldest EXCEPT ![t] = k]
    /\ Goto(t, "pop")
    /\ UNCHANGED <<items, plans, inserted, wanted, held, size, overlaps>>

\* The dict has changed size since iter was called, or is empty: the exception ends the
\* request with an HTTP error and nothing is stored.
SetNextFails(t) ==
    /\ pc[t] = "next"
    /\ size[t] # Size \/ Size = 0
    /\ held' = [held EXCEPT ![t] = None]
    /\ Goto(t, "idle")
    /\ UNCHANGED <<items, plans, inserted, wanted, size, oldest, overlaps>>

\* pop(oldest_key, None): nothing happens when another thread has popped the key.
SetPop(t) ==
    /\ pc[t] = "pop"
    /\ items' = [items EXCEPT ![oldest[t]] = None]
    /\ Goto(t, "insert")
    /\ UNCHANGED <<plans, inserted, wanted, held, size, oldest, overlaps>>

\* A key that is there keeps its place.
SetInsert(t) ==
    /\ pc[t] = "insert"
    /\ LET k == wanted[t]
           at == IF k \in Cached THEN items[k].at ELSE inserted + 1
       IN  /\ items' = [items EXCEPT ![k] = [plan |-> held[t], at |-> at]]
           /\ inserted' = IF k \in Cached THEN inserted ELSE inserted + 1
    /\ Goto(t, "use")
    /\ UNCHANGED <<plans, wanted, held, size, oldest, overlaps>>

\* Mutation: the list that was looked up or stored is itself changed.
ReflectInPlace(t) ==
    /\ pc[t] = "use"
    /\ held[t] # None
    /\ plans' = [plans EXCEPT ![held[t]].changed = TRUE]
    /\ held' = [held EXCEPT ![t] = None]
    /\ UNCHANGED <<items, inserted, pc, wanted, size, oldest, overlaps>>

\* reflect_step and reflect_answer copy the list before they change it.
Reflect(t) ==
    /\ pc[t] = "use"
    /\ held[t] # None
    /\ held' = [held EXCEPT ![t] = None]
    /\ UNCHANGED <<items, plans, inserted, pc, wanted, size, oldest, overlaps>>

\* The graph has ended.
Answered(t) ==
    /\ pc[t] = "use"
    /\ held' = [held EXCEPT ![t] = None]
    /\ Goto(t, "idle")
    /\ UNCHANGED <<items, plans, inserted, wanted, size, oldest, overlaps>>
-----------------------------------------------------------------------------
Init ==
    /\ items = [k \in Keys |-> None]
    /\ plans = <<>>
    /\ inserted = 0
    /\ pc = [t \in Threads |-> "idle"]
    /\ wanted = [t \in Threads |-> None]
    /\ held = [t \in Threads |-> None]
    /\ size = [t \in Threads |-> 0]
    /\ oldest = [t \in Threads |-> None]
    /\ overlaps = 0

Store(t) == SetBegins(t) \/ SetIter(t) \/ SetNext(t) \/ SetNextFails(t) \/ SetPop(t)
            \/ SetInsert(t)

\* No chat is being served.
Done == (\A t \in Threads : pc[t] = "idle") /\ UNCHANGED vars

Next ==
    \/ \E t \in Threads : Lookup(t) \/ Store(t) \/ Reflect(t) \/ Answered(t)
    \/ Done

Spec == Init /\ [][Next]_vars
-----------------------------------------------------------------------------
(* Properties.                                                             *)

\* Every variable has its type; a thread that stores a plan holds one.
TypeOK ==
    /\ items \in [Keys -> Entry \cup {None}]
    /\ plans \in Seq(Plan)
    /\ inserted \in Nat
    /\ pc \in [Threads -> {"idle", "set", "use"} \cup Setting]
    /\ wanted \in [Threads -> Keys \cup {None}]
    /\ held \in [Threads -> Nat \cup {None}]
    /\ size \in [Threads -> Nat]
    /\ oldest \in [Threads -> Keys \cup {None}]
    /\ overlaps \in Nat

\* The dict outgrows its limit by one for every two calls of set that overlapped, never
\* for another reason (graph.py PlannerCache.set).
GrowsByRacesOnly == Size <= MaxItems + overlaps

\* What is handed out for a context is the plan made for that context as it was made,
\* whatever the runs that were given it do with it (graph.py PlannerCache.get, the
\* copies in reflect_step and reflect_answer).
IsPlanFor(p, k) == p \in DOMAIN plans /\ plans[p] = [key |-> k, changed |-> FALSE]

PlansIntact ==
    /\ \A k \in Cached : IsPlanFor(items[k].plan, k)
    /\ \A t \in Threads : held[t] # None => IsPlanFor(held[t], wanted[t])
-----------------------------------------------------------------------------
(* The inductive invariant.                                                *)

\* As long as no call under way has evicted anything, the first eviction will succeed.
Owed ==
    /\ Setters # {}
    /\ \A t \in Setters : pc[t] # "insert" /\ (pc[t] = "pop" => oldest[t] \in Cached)

Growth ==
    /\ Cardinality(Setters) <= overlaps + 1
    /\ Size + Cardinality(Setters) <= MaxItems + overlaps + (IF Owed THEN 1 ELSE 0)

Busy ==
    \A t \in Threads :
        /\ pc[t] # "idle" => wanted[t] \in Keys
        /\ pc[t] \in Setting \cup {"set"} => held[t] # None
        /\ pc[t] = "pop" => oldest[t] \in Keys

IInv == TypeOK /\ Growth /\ Busy /\ PlansIntact
=============================================================================
