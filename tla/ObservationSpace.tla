-------------------------- MODULE ObservationSpace --------------------------
(***************************************************************************)
(* The observation namespace of observe/mod.rs: keyed subject generations, *)
(* the observations that captured them, and the pool of recycled slots.    *)
(*                                                                         *)
(* A step is one critical section of the entries lock, one drop of an Arc, *)
(* or one operation on a slot, whose inside ObserveSlot models.  The pool  *)
(* is a set: which recycled slot is popped is not observable.              *)
(* Generations number the subjects, and stand for their outcomes and for   *)
(* the wakers registered while they were current.                          *)
(***************************************************************************)
EXTENDS Integers, FiniteSets, Sequences

CONSTANTS
    Keys,
    Handles,        \* Observation handles a client may hold
    MaxGeneration,  \* bound: generations the namespace hands out
    PoolCap,        \* SLOT_POOL_CAP
    InlineCap,      \* INLINE_CAP
    Hostile,        \* generations whose outcome and wakers panic when dropped
    Nothing

Generations == 1 .. MaxGeneration
Slots == Generations    \* a generation allocates one slot at most

ASSUME MaxGenerationAssumption == MaxGeneration \in Nat
ASSUME PoolCapAssumption == PoolCap \in Nat
ASSUME InlineCapAssumption == InlineCap \in Nat
ASSUME HostileAssumption == Hostile \subseteq Generations
ASSUME NothingAssumption == Nothing \notin Generations

VARIABLES
    next,       \* Inner.next_generation
    map,        \* Entries.map: inline rows <<key, generation>>, or a hash map
    pool,       \* Entries.pool
    slots,      \* the Slot of each allocation
    subjects,   \* the Subject of each generation
    obs,        \* handle -> slot and captured generation
    disposed,   \* how often each outcome left its cell, dropped or moved out
    uses        \* of the latest step: <<outcome read, generation captured>>, or
                \* <<generation of the waker, generation whose completion woke it>>

spaceVars == <<next, map, pool, slots, subjects, obs, disposed, uses>>

NoHandle == [slot |-> Nothing, generation |-> Nothing]
NoSubject == [key |-> Nothing, slot |-> Nothing, phase |-> "unborn"]

\* Slot::new
Pristine == [completed |-> FALSE, valid |-> FALSE, outcome |-> Nothing, waiters |-> {}]

Held == {"live", "retiring"}

-----------------------------------------------------------------------------
(* SmallMap: inline rows, promoted for good to a hash map by the insertion *)
(* that finds INLINE_CAP of them                                           *)

Inline(rows) == [inline |-> TRUE, rows |-> rows]
Hashed(rows) == [inline |-> FALSE, rows |-> rows]
EmptyMap == Inline(<<>>)

RowsOf(table) == IF table.inline THEN {table.rows[i] : i \in DOMAIN table.rows} ELSE table.rows

\* SmallMap::get
Get(k) == LET rows == {row \in RowsOf(map) : row[1] = k}
          IN  IF rows = {} THEN Nothing ELSE (CHOOSE row \in rows : TRUE)[2]

Vacant(k) == Get(k) = Nothing

\* SmallMap::insert_vacant
InsertVacant(table, row) ==
    IF ~table.inline \/ Len(table.rows) >= InlineCap
        THEN Hashed(RowsOf(table) \cup {row}) ELSE Inline(Append(table.rows, row))

\* Vec::swap_remove
RemoveAt(rows, i) ==
    SubSeq([rows EXCEPT ![i] = rows[Len(rows)]], 1, Len(rows) - 1)

\* SmallMap::remove_if, when the key has exactly this generation.
RemoveRow(table, row) ==
    IF table.inline
        THEN Inline(RemoveAt(table.rows, CHOOSE i \in DOMAIN table.rows : table.rows[i] = row))
        ELSE Hashed(table.rows \ {row})

-----------------------------------------------------------------------------
\* The Arcs to a slot, other than the entry's, which lives and dies with the map.
Subjects(s) == {g \in Generations : subjects[g].slot = s /\ subjects[g].phase \in Held}
Observations(s) == {o \in Handles : obs[o].slot = s}
Mapped(s) == {k \in Keys : ~Vacant(k) /\ subjects[Get(k)].slot = s}

-----------------------------------------------------------------------------
(* Disposal of an outcome *)

Dispose(s) == disposed' = [disposed EXCEPT ![slots[s].outcome] = @ + 1]

\* Drop for Slot, when the Arc that goes is the last one.
Reclaim(s, last) ==
    /\ slots' = [slots EXCEPT ![s].valid = IF last THEN FALSE ELSE @]
    /\ IF last /\ slots[s].valid THEN Dispose(s) ELSE UNCHANGED disposed

-----------------------------------------------------------------------------
(* ObservationSpace::subject *)

Insert(k, s) ==
    /\ map' = InsertVacant(map, <<k, next>>)
    /\ subjects' = [subjects EXCEPT ![next] = [key |-> k, slot |-> s, phase |-> "live"]]

\* No pooled slot: the generation allocates its own.
SubjectFresh(k) ==
    /\ next \in Generations
    /\ Vacant(k)
    /\ pool = {}
    /\ slots' = [slots EXCEPT ![next] = Pristine]
    /\ Insert(k, next)
    /\ next' = next + 1
    /\ uses' = {}
    /\ UNCHANGED <<pool, obs, disposed>>

\* Mutant of Reset: registrations survive into the next generation.
ResetKeepsWaiters(s) == [Pristine EXCEPT !.waiters = slots[s].waiters]

\* Slot::reset, once the outcome is disposed of.
Reset(s) == Pristine

\* Does a destructor that reset runs panic?
Unwinds(s) == (slots[s].valid /\ slots[s].outcome \in Hostile) \/ slots[s].waiters \cap Hostile # {}

\* A pooled slot is reset and serves the new generation.
SubjectReuse(k) ==
    /\ next \in Generations
    /\ Vacant(k)
    /\ \E s \in pool :
        /\ ~Unwinds(s)
        /\ pool' = pool \ {s}
        /\ slots' = [slots EXCEPT ![s] = Reset(s)]
        /\ IF slots[s].valid THEN Dispose(s) ELSE UNCHANGED disposed
        /\ Insert(k, s)
    /\ next' = next + 1
    /\ uses' = {}
    /\ UNCHANGED <<obs>>

\* A destructor panics in reset: the outcome's claim was given up first, the popped
\* slot is dropped by the unwinding and the generation number is spent.
SubjectPanics(k) ==
    /\ next \in Generations
    /\ Vacant(k)
    /\ \E s \in pool :
        /\ Unwinds(s)
        /\ pool' = pool \ {s}
        /\ slots' = [slots EXCEPT ![s].valid = FALSE]
        /\ IF slots[s].valid THEN Dispose(s) ELSE UNCHANGED disposed
    /\ next' = next + 1
    /\ uses' = {}
    /\ UNCHANGED <<map, subjects, obs>>

-----------------------------------------------------------------------------
(* ObservationSpace::observe and the observations *)

Observe(o, k) ==
    /\ obs[o] = NoHandle
    /\ ~Vacant(k)
    /\ obs' = [obs EXCEPT ![o] = [slot |-> subjects[Get(k)].slot, generation |-> Get(k)]]
    /\ uses' = {}
    /\ UNCHANGED <<next, map, pool, slots, subjects, disposed>>

Clone(o, p) ==
    /\ obs[o] # NoHandle
    /\ obs[p] = NoHandle
    /\ obs' = [obs EXCEPT ![p] = obs[o]]
    /\ uses' = {}
    /\ UNCHANGED <<next, map, pool, slots, subjects, disposed>>

\* register_waker while the outcome is pending.
RegisterWaiter(o) ==
    /\ obs[o] # NoHandle
    /\ ~slots[obs[o].slot].completed
    /\ slots' = [slots EXCEPT ![obs[o].slot].waiters = @ \cup {obs[o].generation}]
    /\ uses' = {}
    /\ UNCHANGED <<next, map, pool, subjects, obs, disposed>>

ReadOutcome(o) ==
    /\ obs[o] # NoHandle
    /\ slots[obs[o].slot].completed
    /\ uses' = {<<slots[obs[o].slot].outcome, obs[o].generation>>}
    /\ UNCHANGED <<next, map, pool, slots, subjects, obs, disposed>>

\* Is this handle the only Arc to its slot?
Sole(o) ==
    LET s == obs[o].slot
    IN  Observations(s) = {o} /\ Subjects(s) = {} /\ Mapped(s) = {} /\ s \notin pool

DropObservation(o) ==
    /\ obs[o] # NoHandle
    /\ obs' = [obs EXCEPT ![o] = NoHandle]
    /\ Reclaim(obs[o].slot, Sole(o))
    /\ uses' = {}
    /\ UNCHANGED <<next, map, pool, subjects>>

\* into_outcome by the last handle; any other call of it only drops the handle.
TakeSole(o) ==
    /\ obs[o] # NoHandle
    /\ Sole(o)
    /\ slots[obs[o].slot].completed
    /\ slots' = [slots EXCEPT ![obs[o].slot].valid = FALSE]
    /\ Dispose(obs[o].slot)
    /\ uses' = {<<slots[obs[o].slot].outcome, obs[o].generation>>}
    /\ obs' = [obs EXCEPT ![o] = NoHandle]
    /\ UNCHANGED <<next, map, pool, subjects>>

-----------------------------------------------------------------------------
(* Subject::complete and Drop for Subject *)

Complete(g) ==
    LET s == subjects[g].slot IN
    /\ subjects[g].phase = "live"
    /\ ~slots[s].completed
    /\ slots' = [slots EXCEPT ![s] = [completed |-> TRUE, valid |-> TRUE, outcome |-> g, waiters |-> {}]]
    /\ uses' = {<<r, g>> : r \in slots[s].waiters}
    /\ UNCHANGED <<next, map, pool, subjects, obs, disposed>>

\* strong_count == 1 once the entry is gone, and room in the pool.
Recyclable(g) ==
    /\ Observations(subjects[g].slot) = {}
    /\ Subjects(subjects[g].slot) = {g}
    /\ subjects[g].slot \notin pool
    /\ Cardinality(pool) < PoolCap

\* Under the lock: remove the exact generation and recycle its slot.
DropSubject(g) ==
    /\ subjects[g].phase = "live"
    /\ IF Get(subjects[g].key) = g
        THEN /\ map' = RemoveRow(map, <<subjects[g].key, g>>)
             /\ pool' = IF Recyclable(g) THEN pool \cup {subjects[g].slot} ELSE pool
        ELSE UNCHANGED <<map, pool>>
    /\ subjects' = [subjects EXCEPT ![g].phase = "retiring"]
    /\ uses' = {}
    /\ UNCHANGED <<next, slots, obs, disposed>>

\* Then the fields go, the Arc of the slot among them.
DropFields(g) ==
    LET s == subjects[g].slot IN
    /\ subjects[g].phase = "retiring"
    /\ subjects' = [subjects EXCEPT ![g].phase = "dropped"]
    /\ Reclaim(s, Subjects(s) = {g} /\ Observations(s) = {} /\ Mapped(s) = {} /\ s \notin pool)
    /\ uses' = {}
    /\ UNCHANGED <<next, map, pool, obs>>

-----------------------------------------------------------------------------
(* Specification *)

SpaceInit ==
    /\ next = 1
    /\ map = EmptyMap
    /\ pool = {}
    /\ slots = [s \in Slots |-> Pristine]
    /\ subjects = [g \in Generations |-> NoSubject]
    /\ obs = [o \in Handles |-> NoHandle]
    /\ disposed = [g \in Generations |-> 0]
    /\ uses = {}

SpaceNext ==
    \/ \E k \in Keys : SubjectFresh(k) \/ SubjectReuse(k) \/ SubjectPanics(k)
    \/ \E o \in Handles :
        \/ RegisterWaiter(o) \/ ReadOutcome(o) \/ DropObservation(o) \/ TakeSole(o)
        \/ \E k \in Keys : Observe(o, k)
        \/ \E p \in Handles : Clone(o, p)
    \/ \E g \in Generations : Complete(g) \/ DropSubject(g) \/ DropFields(g)

SpaceSpec == SpaceInit /\ [][SpaceNext]_spaceVars

-----------------------------------------------------------------------------
(* Properties *)

\* The key table and the pool are exact: the table, inline or promoted, holds one row for
\* every live subject and no other; a recycled slot is reached by no row and no
\* observation, and a subject that still has its Arc is past its Drop; the pool keeps
\* to its cap.
NamespaceExact ==
    /\ RowsOf(map) = {<<subjects[g].key, g>> : g \in {h \in Generations : subjects[h].phase = "live"}}
    /\ \A s \in pool :
        /\ Observations(s) = {} /\ Mapped(s) = {}
        /\ \A g \in Subjects(s) : subjects[g].phase = "retiring"
    /\ Cardinality(pool) <= PoolCap

\* An observation only ever reads the outcome of the generation it captured, however
\* often its slot's allocation, its key or its handle was used before and after, and a
\* completion wakes no waker registered for another generation of its slot.
GenerationExact == \A use \in uses : use[1] = use[2]

\* A published outcome is disposed of exactly once: by the reset of a pooled slot, by
\* the last Arc, or by into_outcome; until then some Arc still reaches its slot.
DisposedOnce ==
    \A g \in Generations :
        /\ disposed[g] <= 1
        /\ \A s \in Slots : slots[s].valid /\ slots[s].outcome = g =>
            disposed[g] = 0 /\ (s \in pool \/ Subjects(s) # {} \/ Observations(s) # {})

\* Slots are recycled and keys reused without one generation reaching another's outcome,
\* row or disposal.
GenerationsExact == NamespaceExact /\ GenerationExact /\ DisposedOnce
=============================================================================
