---------------------------- MODULE DirectoryUser ----------------------------
(***************************************************************************)
(* The public LocalDirectory driven by its user: threads dispatch commands *)
(* and submit facts in any order, late, repeated, or for an activation     *)
(* that was replaced, and interpret the decisions with an EffectInterpreter *)
(* of their own.  EntityRuntime is one such user, and a disciplined one.   *)
(***************************************************************************)
EXTENDS EntityDirectory

CONSTANTS
    Users,              \* threads
    Orders,             \* commands they dispatch
    Leases,             \* retirement leases, each created for one reported activation
    FactLimit,          \* facts submitted, in all
    NoEvent

VARIABLES
    user,               \* per thread: [pc, slot, event, effects]
    place,              \* per command: who holds it, and for which activation
    lessor,             \* per lease: who holds it, and the activation it was reported for
    facts               \* facts submitted so far

userVars == <<user, place, lessor, facts>>

Resting == [pc |-> "idle", slot |-> NoActivation, event |-> NoEvent, effects |-> <<>>]
At(who, a) == [who |-> who, activation |-> a]

UserInit ==
    /\ user = [u \in Users |-> Resting]
    /\ place = [c \in Orders |-> At("user", NoActivation)]
    /\ lessor = [l \in Leases |-> At("unborn", NoActivation)]
    /\ facts = 0

\* The slot is cloned out of its entry; it decides after the shard lock is released.
Selected(u, e, ev) ==
    user' = [user EXCEPT ![u] = [@ EXCEPT !.pc = "submit", !.slot = directory[e], !.event = ev]]

\* An installed decision about to be interpreted.
Installed(u, a) ==
    user' = [user EXCEPT ![u] = [Resting EXCEPT !.pc = "interpret", !.slot = a]]

\* LocalDirectory::dispatch
UserDispatch(u, e, c) ==
    /\ user[u].pc = "idle" /\ place[c] = At("user", NoActivation)
    /\ IF Mapped(e)
       THEN /\ Selected(u, e, Dispatch(c)) /\ place' = [place EXCEPT ![c] = At("directory", NoActivation)]
            /\ UNCHANGED directoryVars
       ELSE IF Exhausted(MaxActivation)
       THEN place' = [place EXCEPT ![c] = At("returned", NoActivation)] /\ UNCHANGED <<user, directoryVars>>
       ELSE /\ Install(e, c) /\ Installed(u, next)
            /\ place' = [place EXCEPT ![c] = At("directory", NoActivation)]
            /\ UNCHANGED dispatching
    /\ UNCHANGED <<lessor, facts>>

\* What a user may report of an activation that was allocated: activation_succeeded with a
\* lease of its own, activation_failed, cancel_waiter, delivery_resolved, begin_drain,
\* fence_acknowledged, force_drain and terminated.
Reports(a) ==
    {ActivationSucceeded(a, l) : l \in {m \in Leases : lessor[m].who = "unborn"}}
        \cup {DeliveryResolved(a, failed, c) : failed \in BOOLEAN, c \in {d \in Orders : place[d] = At("delivering", a)}}
        \cup {CancelWaiter(a, c) : c \in Orders}
        \cup {ActivationFailed(a), BeginDrain(a), FenceAcknowledged(a), Terminated(a),
              ForceDrain(a, Failure("FenceEnqueue", 0))}

\* What the directory owns once the fact is submitted.
HandOver(ev) ==
    /\ lessor' = IF ev.event = "ActivationSucceeded"
                 THEN [lessor EXCEPT ![ev.lease] = At("directory", ev.activation)] ELSE lessor
    /\ place' = IF ev.event # "DeliveryResolved" THEN place
                ELSE [place EXCEPT ![ev.command] =
                         At(IF ev.failed THEN "directory" ELSE "processed", ev.activation)]

\* LocalDirectory::submit_or_inactive: of an absent entry only transient effects remain.
UserFact(u, e, ev) ==
    /\ user[u].pc = "idle" /\ facts < FactLimit
    /\ facts' = facts + 1
    /\ HandOver(ev)
    /\ IF Mapped(e) THEN Selected(u, e, ev)
       ELSE user' = [user EXCEPT ![u] = [@ EXCEPT !.pc = "transient", !.effects = Absent(ev).effects]]
    /\ UNCHANGED directoryVars

\* The evidence tells that a waiter was cancelled; its command is dropped with it.
Cancelled(a, ev) == ev.event = "CancelWaiter" /\ Decide(slots[a], ev).evidence = "SelfLoop"

\* Slot::submit, and the installed decision that describes it.
UserSubmit(u) ==
    /\ user[u].pc = "submit"
    /\ Submit(user[u].slot, user[u].event)
    /\ Installed(u, user[u].slot)
    /\ place' = IF Cancelled(user[u].slot, user[u].event)
                THEN [place EXCEPT ![user[u].event.command] = At("cancelled", NoActivation)] ELSE place
    /\ UNCHANGED <<directory, next, dispatching, lessor, facts>>

\* LocalDirectory::interpret of a mapped slot
UserAcquire(u) ==
    LET a == user[u].slot
    IN  /\ user[u].pc = "interpret"
        /\ IF dispatching[a] THEN user' = [user EXCEPT ![u] = Resting] /\ UNCHANGED dispatching
           ELSE AcquireDispatch(a) /\ user' = [user EXCEPT ![u].pc = "drain"]
        /\ UNCHANGED <<directory, next, slots, pending, place, lessor, facts>>

UserDrained(u) ==
    /\ user[u].pc = "drain" /\ ~HasPending(user[u].slot)
    /\ ReleaseDispatch(user[u].slot)
    /\ user' = [user EXCEPT ![u] = Resting]
    /\ UNCHANGED <<directory, next, slots, pending, place, lessor, facts>>

\* EffectInterpreter: what the user gets back with a call.
Called(effect) ==
    /\ place' = CASE effect.effect = "Deliver" ->
                        [place EXCEPT ![effect.command] = At("delivering", effect.activation)]
                  [] effect.effect = "Reject" -> [place EXCEPT ![effect.command] = At("returned", NoActivation)]
                  [] OTHER -> place
    /\ lessor' = IF effect.effect = "Retire"
                 THEN [lessor EXCEPT ![effect.lease] = At("retired", effect.activation)] ELSE lessor

\* LocalDirectory::apply_effect: Remove needs the slot it came from.
ApplyEffect(a, effect) ==
    /\ Called(effect)
    /\ directory' = IF effect.effect = "Remove" /\ a # NoActivation THEN TakeSlot(a) ELSE directory

UserApply(u) ==
    LET a == user[u].slot
    IN  /\ user[u].pc = "drain"
        /\ HasPending(a)
        /\ ApplyEffect(a, Head(pending[a]))
        /\ pending' = [pending EXCEPT ![a] = Tail(@)]
        /\ UNCHANGED <<next, slots, dispatching, user, facts>>

\* LocalDirectory::interpret of transient effects
UserTransient(u) ==
    /\ user[u].pc = "transient"
    /\ IF user[u].effects = <<>>
       THEN user' = [user EXCEPT ![u] = Resting] /\ UNCHANGED <<directory, place, lessor>>
       ELSE /\ ApplyEffect(NoActivation, Head(user[u].effects))
            /\ user' = [user EXCEPT ![u].effects = Tail(@)]
    /\ UNCHANGED <<next, slots, pending, dispatching, facts>>

UserNext(users, entities) ==
    \E u \in users :
        \/ \E e \in entities, c \in Orders : UserDispatch(u, e, c)
        \/ \E e \in entities, a \in 1 .. (next - 1) : \E ev \in Reports(a) : UserFact(u, e, ev)
        \/ UserSubmit(u) \/ UserAcquire(u) \/ UserDrained(u) \/ UserApply(u) \/ UserTransient(u)

-----------------------------------------------------------------------------
(* Properties *)

Using(a, pc) == {u \in Users : user[u].pc = pc /\ user[u].slot = a}

\* Effects that wait to be interpreted: of a slot, or of an absent entry.
Queued ==
    UNION {{<<"slot", a, i>> : i \in DOMAIN pending[a]} : a \in Activations}
        \cup UNION {{<<"user", u, i>> : i \in DOMAIN user[u].effects} : u \in Users}
EffectAt(q) == IF q[1] = "slot" THEN pending[q[2]][q[3]] ELSE user[q[2]].effects[q[3]]

\* How often the directory holds a command, and a lease.
Holding(c) ==
    Cardinality({q \in Queued : EffectAt(q).effect \in {"Deliver", "Reject"} /\ EffectAt(q).command = c})
        + Cardinality({<<a, i>> \in Activations \X (1 .. WaiterLimit) :
                          i \in DOMAIN slots[a].waiters /\ slots[a].waiters[i] = c})
        + Cardinality({u \in Users :
                          /\ user[u].pc = "submit"
                          /\ \/ user[u].event = Dispatch(c)
                             \/ \E a \in Activations : user[u].event = DeliveryResolved(a, TRUE, c)})
Leasing(l) ==
    Cardinality({q \in Queued : EffectAt(q).effect = "Retire" /\ EffectAt(q).lease = l})
        + Cardinality({a \in Activations : slots[a].lease = l})
        + Cardinality({u \in Users :
                          user[u].pc = "submit" /\ user[u].event = ActivationSucceeded(lessor[l].activation, l)})

\* Whatever order, repetition or staleness its user's facts have, the directory holds what it
\* was given in exactly one place until an EffectInterpreter call returns it or a cancellation
\* drops it: no command and no lease is lost or returned twice.  A lease only ever serves, and
\* is only ever retired for, the activation it was reported for, so a late report never
\* installs or retires the incarnation that replaced its own.
FactsExact ==
    /\ \A c \in Orders : Holding(c) = IF place[c].who = "directory" THEN 1 ELSE 0
    /\ \A l \in Leases :
        /\ Leasing(l) = IF lessor[l].who = "directory" THEN 1 ELSE 0
        /\ \A a \in Activations : slots[a].lease = l => lessor[l].activation = a /\ slots[a].activation = a
        /\ \A q \in Queued : EffectAt(q).effect = "Retire" /\ EffectAt(q).lease = l =>
              EffectAt(q).activation = lessor[l].activation
=============================================================================
