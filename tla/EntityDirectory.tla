--------------------------- MODULE EntityDirectory ---------------------------
(***************************************************************************)
(* The sharded entity directory (entity/directory.rs): stable slots behind *)
(* one entry per entity, each with its lifecycle state, the effects its    *)
(* decisions queued and at most one interpreter of that queue.             *)
(*                                                                         *)
(* A mapped slot never acquires a second activation, so a slot is named by *)
(* the activation its entry was created for.  Every operation is atomic    *)
(* under the mutex of one shard or of one slot; what two of them do in     *)
(* sequence is two steps of the modules that use the directory.            *)
(***************************************************************************)
EXTENDS EntityLifecycle, FiniteSets

CONSTANTS
    Entities,           \* stable entity identities
    MaxActivation       \* the last identity next_activation can allocate

ASSUME MaxActivationAssumption == MaxActivation \in Nat \ {0}

VARIABLES
    directory,          \* the shards: the slot each entity is mapped to
    next,               \* next_activation
    slots,              \* SlotExecution.state
    pending,            \* SlotExecution.pending
    dispatching         \* SlotExecution.dispatch = Dispatching

directoryVars == <<directory, next, slots, pending, dispatching>>

Activations == 1 .. MaxActivation

\* LocalDirectory::with_hasher over Slot::new
DirectoryInit ==
    /\ directory = [e \in Entities |-> NoActivation]
    /\ next = 1
    /\ slots = [a \in Activations |-> Inactive]
    /\ pending = [a \in Activations |-> <<>>]
    /\ dispatching = [a \in Activations |-> FALSE]

-----------------------------------------------------------------------------
(* Shards *)

\* allocate: the sequence ends at its last identity and never wraps.
Exhausted(last) == next > last

\* An entry, under its shard's lock.
Mapped(e) == directory[e] # NoActivation

\* LocalDirectory::current_activation
CurrentActivation(e) == IF Mapped(e) THEN slots[directory[e]].activation ELSE NoActivation

\* LocalDirectory::take_slot and remove_matching: the entry of that very slot, if it is there.
TakeSlot(a) == [e \in Entities |-> IF directory[e] = a THEN NoActivation ELSE directory[e]]

\* LocalDirectory::take_family: the slots of every shard.
Represented == {directory[e] : e \in Entities} \ {NoActivation}
Emptied == [e \in Entities |-> NoActivation]

-----------------------------------------------------------------------------
(* Slots *)

\* SlotExecution::submit under the slot mutex.
Submit(a, ev) ==
    LET d == Decide(slots[a], ev)
    IN  /\ slots' = [slots EXCEPT ![a] = d.state]
        /\ pending' = [pending EXCEPT ![a] = @ \o d.effects]

\* LocalDirectory::dispatch on a vacant entry, under the shard lock.
Install(e, c) ==
    /\ next' = next + 1
    /\ Submit(next, ClaimActivation(next, c))
    /\ directory' = [directory EXCEPT ![e] = next]

\* submit_absent: a fact for an absent entry is decided by an Inactive slot nobody keeps.
Absent(ev) == Decide(Inactive, ev)

\* Slot::begin_retirement is refused for a slot without incarnation.
Retirable(a) == slots[a].phase \notin {"Inactive", "Activating"}

\* Slot::has_pending
HasPending(a) == pending[a] # <<>>

\* SlotDispatch::acquire: a slot already being dispatched keeps its interpreter.
AcquireDispatch(a) == ~dispatching[a] /\ dispatching' = [dispatching EXCEPT ![a] = TRUE]

\* SlotDispatch::next on an empty queue, and SlotDispatch::drop.
ReleaseDispatch(a) == dispatching' = [dispatching EXCEPT ![a] = FALSE]

\* SlotDispatch::next on a queue that starts with an effect of the given kinds.
PopEffect(a, effects) ==
    /\ HasPending(a)
    /\ Head(pending[a]).effect \in effects
    /\ pending' = [pending EXCEPT ![a] = Tail(@)]

-----------------------------------------------------------------------------
(* Properties of every directory *)

\* The queue of a slot has one interpreter while it is dispatching, and a queued effect has
\* an interpreter that drains the slot or is about to acquire it.
InterpreterExact(a, draining, acquiring) ==
    /\ Cardinality(draining) = IF dispatching[a] THEN 1 ELSE 0
    /\ HasPending(a) => dispatching[a] \/ acquiring # {}

\* An entry routes to a slot that still answers for it: a slot is mapped from its creation
\* to the interpretation of its removal, and is Inactive only while that removal is queued;
\* two entities never share a slot, and identities are never allocated twice.
EntriesExact(retained) ==
    /\ \A a \in Activations :
        LET mapped == \E e \in Entities : directory[e] = a
        IN  /\ slots[a].phase # "Inactive" => mapped \/ a \in retained
            /\ mapped /\ slots[a].phase = "Inactive" =>
                  \E j \in DOMAIN pending[a] : pending[a][j].effect = "Remove"
            /\ mapped \/ slots[a].phase # "Inactive" => a < next
    /\ \A e, f \in Entities : Mapped(e) /\ directory[e] = directory[f] => e = f
=============================================================================
