---------------------------- MODULE ObserveSlot ----------------------------
(***************************************************************************)
(* One completion slot of observe/mod.rs: the state word, the outcome cell *)
(* and the waiter registry, shared by one publisher, by threads blocked in *)
(* `wait` and `wait_timeout`, by polled futures and by adapters that use   *)
(* `register_waker`.                                                       *)
(*                                                                         *)
(* One step is one atomic operation on the state word or one critical      *)
(* section of the waiters mutex.  A section that pushes and then loads the *)
(* word is one step, taken at the load: nobody sees the registry meanwhile.*)
(* Memory is sequentially consistent.                                      *)
(***************************************************************************)
EXTENDS Integers, FiniteSets, Sequences

CONSTANTS
    Threads,        \* Observation handles used by blocking threads
    Futures,        \* ObservationFuture and AffineObservation handles
    Adapters,       \* Observation handles registered with register_waker
    Wakers,         \* task wakers, equal when they will_wake each other
    Panicking,      \* wakers whose Wake implementation panics
    Affine,         \* the futures that are an AffineObservation
    Casts,          \* sets of handles a slot may be created with or cloned to
    MaxSpurious,    \* bound: parks that return without a token or a timeout
    NoWaker

ASSUME SpuriousAssumption == MaxSpurious \in Nat
ASSUME PanickingAssumption == Panicking \subseteq Wakers
\* affine_pair hands out one future and no other observation.
ASSUME CastsAssumption == \A cast \in Casts, f \in Affine : f \in cast => cast = {f}
\* A handle is of one kind, and none of them is the publisher's.
ASSUME HandlesAssumption ==
    /\ Threads \cap Futures = {} /\ Threads \cap Adapters = {} /\ Futures \cap Adapters = {}
    /\ "publisher" \notin Threads \cup Futures \cup Adapters
    /\ Affine \subseteq Futures /\ IsFiniteSet(Futures)
ASSUME NoWakerAssumption == NoWaker \notin Wakers

VARIABLES
    bits,       \* Slot.state: the flags that are set
    cell,       \* Slot.outcome
    waiters,    \* Slot.waiters
    pub,        \* where the publisher stands
    taken,      \* waiters `complete` took and has yet to notify
    pc,         \* where each observer stands
    timed,      \* deadline of a thread's wait: none, running or passed
    waker,      \* waker of a future's or an adapter's latest poll
    reg,        \* FutureRegistration.waker
    token,      \* threads holding an unpark token
    notified,   \* futures and adapters scheduled by a wake of their latest waker
    reads,      \* what the observers found in the cell
    spurious    \* spurious wakeups so far

slot == <<bits, cell, waiters>>
publisher == <<pub, taken>>
polling == <<waker, reg>>
wakes == <<token, notified>>
vars == <<bits, cell, waiters, pub, taken, pc, timed, waker, reg, token, notified, reads, spurious>>

Observers == Threads \cup Futures \cup Adapters
Completed == "COMPLETED" \in bits

\* Waiter: a parked thread, or a waker with its logical owners.
ThreadWaiter(t) == [thread |-> t]
WakerWaiter(w, persistent, owners) == [waker |-> w, persistent |-> persistent, owners |-> owners]
IsWaker(entry) == "waker" \in DOMAIN entry
-----------------------------------------------------------------------------
(* The waiter registry *)

\* Waiters::retain and retain_mut: the entries at the positions kept, in their order.
Retain(list, kept) ==
    [i \in 1 .. Cardinality(kept) |->
        list[CHOOSE j \in kept : Cardinality({k \in kept : k <= j}) = i]]

\* retain as wait and wait_timeout use it.
WithoutThread(list, t) == Retain(list, {i \in DOMAIN list : list[i] # ThreadWaiter(t)})

\* A thread pushes itself unless it is the last waiter already.
PushThread(list, t) ==
    IF list # <<>> /\ list[Len(list)] = ThreadWaiter(t) THEN list ELSE Append(list, ThreadWaiter(t))

Registered(list, w) == {i \in DOMAIN list : IsWaker(list[i]) /\ list[i].waker = w}

AddOwner(list, w) ==
    IF Registered(list, w) = {}
        THEN Append(list, WakerWaiter(w, FALSE, 1))
        ELSE [i \in DOMAIN list |->
                IF i \in Registered(list, w) THEN [list[i] EXCEPT !.owners = @ + 1] ELSE list[i]]

\* remove_future_waker_owner: an entry no future owns stays only if persistent.
RemoveOwner(list, w) ==
    LET lowered == [i \in DOMAIN list |->
                      IF i \in Registered(list, w) THEN [list[i] EXCEPT !.owners = @ - 1] ELSE list[i]]
    IN  Retain(lowered, {i \in DOMAIN list : IsWaker(lowered[i]) =>
                            lowered[i].persistent \/ lowered[i].owners > 0})

\* update_future_waker under the lock: install the new waker, then leave the old entry.
MigrateOwner(list, previous, next) ==
    IF previous = NoWaker THEN AddOwner(list, next) ELSE RemoveOwner(AddOwner(list, next), previous)

\* register_waker under the lock: an entry that will_wake becomes persistent.
Persist(list, w) ==
    IF Registered(list, w) = {}
        THEN Append(list, WakerWaiter(w, TRUE, 0))
        ELSE [i \in DOMAIN list |->
                IF i \in Registered(list, w) THEN [list[i] EXCEPT !.persistent = TRUE] ELSE list[i]]

-----------------------------------------------------------------------------
(* Handles: Slot is reclaimed with its last Arc. *)

Holders == {o \in Observers : pc[o] # "gone"} \cup (IF pub = "gone" THEN {} ELSE {"publisher"})

\* Drop for Slot, run by whoever drops the last handle.
DropHandle(o) ==
    cell' = IF Holders = {o} /\ "OUTCOME_VALID" \in bits
                THEN (IF cell = "live" THEN "dropped" ELSE "twice") ELSE cell

\* try_take_outcome after COMPLETED was seen: claim OUTCOME_VALID, then move.
TakeOutcome(o) ==
    /\ bits' = bits \ {"OUTCOME_VALID"}
    /\ reads' = reads \cup {IF "OUTCOME_VALID" \in bits THEN cell ELSE "panic"}
    /\ cell' = IF cell = "live" THEN "moved" ELSE "twice"

-----------------------------------------------------------------------------
(* Publisher::complete and the publisher's drop *)

\* set_outcome: only the publisher can reach the cell before COMPLETED.
SetOutcome ==
    /\ pub = "held"
    /\ cell' = "live"
    /\ pub' = "publish"
    /\ UNCHANGED <<bits, waiters, taken, pc, timed, polling, wakes, reads, spurious>>

\* The Release fetch_or; the flags it replaced say whether anyone may wait.
Publish ==
    /\ pub = "publish"
    /\ bits' = bits \cup {"COMPLETED", "OUTCOME_VALID"}
    /\ pub' = IF "HAS_WAITER" \in bits THEN "drain" ELSE "leave"
    /\ UNCHANGED <<cell, waiters, taken, pc, timed, polling, wakes, reads, spurious>>

Drain ==
    /\ pub = "drain"
    /\ taken' = waiters
    /\ waiters' = <<>>
    /\ pub' = "notify"
    /\ UNCHANGED <<bits, cell, pc, timed, polling, wakes, reads, spurious>>

Wake(w) == {o \in Futures \cup Adapters : waker[o] = w}

\* Mutant of Notify: a panicking waker ends the loop.
NotifyStops ==
    /\ pub = "notify"
    /\ taken # <<>>
    /\ LET entry == Head(taken) IN
        IF IsWaker(entry)
            THEN /\ notified' = IF entry.waker \in Panicking
                                    THEN notified ELSE notified \cup Wake(entry.waker)
                 /\ taken' = IF entry.waker \in Panicking THEN <<>> ELSE Tail(taken)
                 /\ UNCHANGED token
            ELSE token' = token \cup {entry.thread} /\ taken' = Tail(taken) /\ UNCHANGED notified
    /\ UNCHANGED <<slot, pub, pc, timed, polling, reads, spurious>>

\* One round of for_each; a waker's panic is kept until every waiter had its turn.
Notify ==
    /\ pub = "notify"
    /\ taken # <<>>
    /\ LET entry == Head(taken) IN
        IF IsWaker(entry)
            THEN /\ notified' = IF entry.waker \in Panicking
                                    THEN notified ELSE notified \cup Wake(entry.waker)
                 /\ UNCHANGED token
            ELSE token' = token \cup {entry.thread} /\ UNCHANGED notified
    /\ taken' = Tail(taken)
    /\ UNCHANGED <<slot, pub, pc, timed, polling, reads, spurious>>

\* complete returns or resumes the first panic; either way its Arc is dropped.
Leave ==
    /\ pub = "leave" \/ (pub = "notify" /\ taken = <<>>)
    /\ pub' = "gone"
    /\ DropHandle("publisher")
    /\ UNCHANGED <<bits, waiters, taken, pc, timed, polling, wakes, reads, spurious>>

\* Dropping the publisher before completion synthesizes nothing.
DropPublisher ==
    /\ pub = "held"
    /\ pub' = "gone"
    /\ DropHandle("publisher")
    /\ UNCHANGED <<bits, waiters, taken, pc, timed, polling, wakes, reads, spurious>>

-----------------------------------------------------------------------------
(* Steps the observers share *)

Goto(o, label) == pc' = [pc EXCEPT ![o] = label]

\* The Acquire load every operation starts with.
Check(o, label) ==
    /\ pc[o] = "check"
    /\ Goto(o, IF Completed THEN "read" ELSE label)
    /\ UNCHANGED <<slot, publisher, timed, polling, wakes, reads, spurious>>

\* The SeqCst fetch_or that precedes the lock.
Announce(o) ==
    /\ pc[o] = "announce"
    /\ bits' = bits \cup {"HAS_WAITER"}
    /\ Goto(o, "register")
    /\ UNCHANGED <<cell, waiters, publisher, timed, polling, wakes, reads, spurious>>

\* outcome_ref().clone(), after COMPLETED was seen.
Read(o, label) ==
    /\ pc[o] = "read"
    /\ reads' = reads \cup {cell}
    /\ Goto(o, label)
    /\ timed' = [t \in Threads |-> IF t = o THEN "none" ELSE timed[t]]
    /\ UNCHANGED <<slot, publisher, polling, wakes, spurious>>

\* Drop of an Observation handle that no call is using.
Release(o) ==
    /\ pc[o] \in {"idle", "pending"}
    /\ Goto(o, "gone")
    /\ DropHandle(o)
    /\ waker' = [p \in DOMAIN waker |-> IF p = o THEN NoWaker ELSE waker[p]]
    /\ notified' = notified \ {o}
    /\ UNCHANGED <<bits, waiters, publisher, timed, reg, token, reads, spurious>>

-----------------------------------------------------------------------------
(* Threads: try_get, wait, wait_timeout, into_outcome *)

TryGet(t) ==
    /\ pc[t] = "idle"
    /\ Completed
    /\ Goto(t, "read")
    /\ UNCHANGED <<slot, publisher, timed, polling, wakes, reads, spurious>>

Wait(t, deadline) ==
    /\ pc[t] = "idle"
    /\ Goto(t, "check")
    /\ timed' = [timed EXCEPT ![t] = deadline]
    /\ UNCHANGED <<slot, publisher, polling, wakes, reads, spurious>>

\* Mutant of RegisterThread: the outcome is not looked for again under the lock.
RegisterThreadBlindly(t) ==
    /\ pc[t] = "register"
    /\ waiters' = PushThread(waiters, t)
    /\ Goto(t, IF timed[t] = "none" THEN "park" ELSE "deadline")
    /\ UNCHANGED <<bits, cell, publisher, timed, polling, wakes, reads, spurious>>

\* Push, recheck under the lock, and deregister when the outcome is there.
RegisterThread(t) ==
    /\ pc[t] = "register"
    /\ IF Completed
        THEN waiters' = WithoutThread(waiters, t) /\ Goto(t, "read")
        ELSE /\ waiters' = PushThread(waiters, t)
             /\ Goto(t, IF timed[t] = "none" THEN "park" ELSE "deadline")
    /\ UNCHANGED <<bits, cell, publisher, timed, polling, wakes, reads, spurious>>

\* The deadline test between the registration and the park.
Deadline(t) ==
    /\ pc[t] = "deadline"
    /\ \/ timed[t] = "running" /\ Goto(t, "park") /\ UNCHANGED timed
       \/ Goto(t, "expired") /\ timed' = [timed EXCEPT ![t] = "passed"]
    /\ UNCHANGED <<slot, publisher, polling, wakes, reads, spurious>>

\* The deadline passed: deregister and return None.
Expire(t) ==
    /\ pc[t] = "expired"
    /\ waiters' = WithoutThread(waiters, t)
    /\ Goto(t, "idle")
    /\ timed' = [timed EXCEPT ![t] = "none"]
    /\ UNCHANGED <<bits, cell, publisher, polling, wakes, reads, spurious>>

\* park returns on a token, park_timeout also when its time is over.
Unpark(t) ==
    /\ pc[t] = "park"
    /\ Goto(t, "check")
    /\ \/ t \in token /\ token' = token \ {t} /\ UNCHANGED <<timed, spurious>>
       \/ /\ timed[t] = "running"
          /\ timed' = [timed EXCEPT ![t] = "passed"]
          /\ UNCHANGED <<token, spurious>>
    /\ UNCHANGED <<slot, publisher, polling, notified, reads>>

\* park may also return for no reason.
UnparkSpuriously(t) ==
    /\ pc[t] = "park"
    /\ spurious < MaxSpurious
    /\ spurious' = spurious + 1
    /\ Goto(t, "check")
    /\ UNCHANGED <<slot, publisher, timed, polling, wakes, reads>>

\* into_outcome: Arc::try_unwrap, and the outcome if it is published.
IntoOutcome(t) ==
    /\ pc[t] = "idle"
    /\ Holders = {t}
    /\ Completed
    /\ TakeOutcome(t)
    /\ Goto(t, "gone")
    /\ UNCHANGED <<waiters, publisher, timed, polling, wakes, spurious>>

-----------------------------------------------------------------------------
(* Futures: poll, waker migration, drop *)

\* poll starts; the task's earlier wake is used up.
Poll(f, w) ==
    /\ pc[f] \in {"idle", "pending"}
    /\ Goto(f, "check")
    /\ waker' = [waker EXCEPT ![f] = w]
    /\ notified' = notified \ {f}
    /\ UNCHANGED <<slot, publisher, timed, reg, token, reads, spurious>>

\* FutureRegistration::update, up to the load of update_future_waker.
Update(f) ==
    /\ pc[f] = "update"
    /\ Goto(f, IF reg[f] = waker[f] \/ Completed THEN "recheck" ELSE "announce")
    /\ UNCHANGED <<slot, publisher, timed, polling, wakes, reads, spurious>>

RegisterFuture(f) ==
    /\ pc[f] = "register"
    /\ IF Completed
        THEN UNCHANGED <<waiters, reg>>
        ELSE /\ waiters' = MigrateOwner(waiters, reg[f], waker[f])
             /\ reg' = [reg EXCEPT ![f] = waker[f]]
    /\ Goto(f, "recheck")
    /\ UNCHANGED <<bits, cell, publisher, timed, waker, wakes, reads, spurious>>

\* The second load of poll.
Recheck(f) ==
    /\ pc[f] = "recheck"
    /\ Goto(f, IF Completed THEN "read" ELSE "pending")
    /\ UNCHANGED <<slot, publisher, timed, polling, wakes, reads, spurious>>

\* Mutant of Take: the outcome is moved out and its flag left set.
TakeUnclaimed(f) ==
    /\ pc[f] = "read"
    /\ reads' = reads \cup {cell}
    /\ cell' = "moved"
    /\ Goto(f, "ready")
    /\ UNCHANGED <<bits, waiters, publisher, timed, polling, wakes, spurious>>

\* AffineObservation moves the outcome out.
Take(f) ==
    /\ pc[f] = "read"
    /\ TakeOutcome(f)
    /\ Goto(f, "ready")
    /\ UNCHANGED <<waiters, publisher, timed, polling, wakes, spurious>>

\* What dies with the future.
Forget(f) ==
    /\ reg' = [reg EXCEPT ![f] = NoWaker]
    /\ waker' = [waker EXCEPT ![f] = NoWaker]
    /\ notified' = notified \ {f}

\* Drop for FutureRegistration, then its Arc.
DropFuture(f) ==
    /\ pc[f] \in {"idle", "pending", "ready"}
    /\ waiters' = IF reg[f] = NoWaker THEN waiters ELSE RemoveOwner(waiters, reg[f])
    /\ Forget(f)
    /\ Goto(f, "gone")
    /\ DropHandle(f)
    /\ UNCHANGED <<bits, publisher, timed, token, reads, spurious>>

-----------------------------------------------------------------------------
(* Adapters: register_waker, then try_get after the wake *)

RegisterWaker(a, w) ==
    /\ pc[a] \in {"idle", "pending"}
    /\ Goto(a, "check")
    /\ waker' = [waker EXCEPT ![a] = w]
    /\ notified' = notified \ {a}
    /\ UNCHANGED <<slot, publisher, timed, reg, token, reads, spurious>>

RegisterAdapter(a) ==
    /\ pc[a] = "register"
    /\ IF Completed
        THEN Goto(a, "read") /\ UNCHANGED waiters
        ELSE Goto(a, "pending") /\ waiters' = Persist(waiters, waker[a])
    /\ UNCHANGED <<bits, cell, publisher, timed, polling, wakes, reads, spurious>>

-----------------------------------------------------------------------------
(* Specification *)

Init ==
    /\ bits = {} /\ cell = "uninit" /\ waiters = <<>>
    /\ pub = "held" /\ taken = <<>>
    /\ \E cast \in Casts : pc = [o \in Observers |-> IF o \in cast THEN "idle" ELSE "gone"]
    /\ timed = [t \in Threads |-> "none"]
    /\ waker = [o \in Futures \cup Adapters |-> NoWaker]
    /\ reg = [f \in Futures |-> NoWaker]
    /\ token = {} /\ notified = {}
    /\ reads = {}
    /\ spurious = 0

Completing == Publish \/ Drain \/ Notify \/ Leave

ThreadCall(t) == Check(t, "announce") \/ Announce(t) \/ RegisterThread(t) \/ Deadline(t)
                    \/ Expire(t) \/ Unpark(t) \/ Read(t, "idle")

FuturePoll(f) == Check(f, "update") \/ Update(f) \/ Announce(f) \/ RegisterFuture(f) \/ Recheck(f)
                    \/ IF f \in Affine THEN Take(f) ELSE Read(f, "ready")

AdapterCall(a) == Check(a, "announce") \/ Announce(a) \/ RegisterAdapter(a) \/ Read(a, "idle")

Next ==
    \/ SetOutcome \/ Completing \/ DropPublisher
    \/ \E t \in Threads :
        \/ ThreadCall(t) \/ UnparkSpuriously(t) \/ TryGet(t) \/ IntoOutcome(t) \/ Release(t)
        \/ \E deadline \in {"none", "running"} : Wait(t, deadline)
    \/ \E f \in Futures : FuturePoll(f) \/ DropFuture(f) \/ \E w \in Wakers : Poll(f, w)
    \/ \E a \in Adapters : AdapterCall(a) \/ Release(a) \/ \E w \in Wakers : RegisterWaker(a, w)

\* A scheduled task is polled again with the waker of its task.
Rescheduled(o) == o \in notified /\ Poll(o, waker[o])

\* Started calls run on; threads and tasks that were woken are scheduled.
Fairness ==
    /\ WF_vars(Completing)
    /\ \A t \in Threads : WF_vars(ThreadCall(t))
    /\ \A f \in Futures : WF_vars(FuturePoll(f)) /\ WF_vars(Rescheduled(f))
    /\ \A a \in Adapters : WF_vars(AdapterCall(a)) /\ WF_vars(Rescheduled(a))

SlotSpec == Init /\ [][Next]_vars /\ Fairness

-----------------------------------------------------------------------------
(* Properties *)

Delivered == Completed /\ pub = "gone"

\* No wakeup is lost between registration and publication: once `complete` is
\* over, a parked thread holds an unpark token and a pending future or adapter
\* was woken through its latest waker, a panicking Wake implementation apart.
NoLostWakeup ==
    Delivered =>
        /\ \A t \in Threads : pc[t] = "park" => t \in token
        /\ \A o \in Futures \cup Adapters :
            pc[o] = "pending" /\ waker[o] \notin Panicking => o \in notified

\* The registry is exact.  Before `complete` takes it, a waker has one entry at most,
\* owned by the futures registered with it, and no entry is left that neither a future
\* owns nor register_waker made persistent.  A thread that is in no wait, after its
\* timeout in particular, is not registered, and once `complete` has taken the registry
\* nothing is, so a recycled slot carries no waiter of its old generation.
RegistryExact ==
    /\ ~Completed =>
        \A w \in Wakers :
            LET owners == Cardinality({f \in Futures : reg[f] = w}) IN
            /\ Cardinality(Registered(waiters, w)) <= 1
            /\ owners > 0 => Registered(waiters, w) # {}
            /\ \A i \in Registered(waiters, w) :
                /\ waiters[i].owners = owners
                /\ owners > 0 \/ waiters[i].persistent
    /\ \A t \in Threads :
        (\E i \in DOMAIN waiters : waiters[i] = ThreadWaiter(t)) =>
            pc[t] \notin {"idle", "gone"} \/ pub = "drain"
    /\ Completed /\ pub # "drain" => waiters = <<>>

\* Waiters are told, and only those that wait are kept: no lost wakeup, exact registry.
WaitersExact == NoLostWakeup /\ RegistryExact

\* The outcome is read only while it is in the cell, and leaves the cell exactly
\* once: moved out by a sole owner, or dropped with the slot's last Arc.
OutcomeOnce ==
    /\ reads \subseteq {"live"}
    /\ cell # "twice"
    /\ Holders = {} /\ Completed => cell \in {"moved", "dropped"}

\* Whoever waits when the outcome is published gets to it, or is dropped: a thread
\* returns from its call, a future becomes ready unless its waker panicked.
WaitersServed ==
    \A o \in Threads \cup Futures :
        Completed /\ pc[o] \notin {"idle", "gone"} ~>
            pc[o] \in {"idle", "ready", "gone"} \/ (o \in Futures /\ waker[o] \in Panicking)
=============================================================================
