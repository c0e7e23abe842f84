------------------------- MODULE ObserveSlotProofs -------------------------
(***************************************************************************)
(* Proofs about the completion slot of observe/mod.rs: whatever the        *)
(* publisher, the blocked threads, the futures and the adapters interleave *)
(* to, the outcome is read only while it is in the cell and leaves it      *)
(* once.                                                                   *)
(***************************************************************************)
EXTENDS ObserveSlot, FiniteSetTheorems, TLAPS

\* A leaf that names no prover is tried with SMT, then Zenon, then SMT twice more with more time.
USE SMTT(20), Zenon, SMTT(40), SMTT(60)

Labels == {"idle", "check", "announce", "register", "park", "deadline", "expired", "read",
           "update", "recheck", "pending", "ready", "gone"}

\* The types of the variables the cell depends on.
CellTypes ==
    /\ bits \in SUBSET {"COMPLETED", "OUTCOME_VALID", "HAS_WAITER"}
    /\ pub \in {"held", "publish", "drain", "notify", "leave", "gone"}
    /\ pc \in [Observers -> Labels]

\* What the cell holds, by how far the publisher came and whether the outcome was moved.
CellInv ==
    /\ pub \in {"held", "publish"} => ~Completed
    /\ pub = "publish" => cell = "live"
    /\ pub \in {"drain", "notify", "leave"} => Completed
    /\ "OUTCOME_VALID" \in bits =>
          Completed /\ cell = (IF Holders = {} THEN "dropped" ELSE "live")
    /\ Completed /\ "OUTCOME_VALID" \notin bits =>
          cell = "moved" /\ \A o \in Observers : pc[o] \in {"ready", "gone"}
    /\ \A o \in Observers : pc[o] = "read" => Completed
    /\ \A f \in Affine : pc[f] # "gone" => \A o \in Observers \ {f} : pc[o] = "gone"
    /\ cell # "twice" /\ reads \subseteq {"live"}

-----------------------------------------------------------------------------
(* The cell *)

\* Nobody holds the slot when the publisher and every observer are gone.
LEMMA HoldersEmpty ==
    Holders = {} <=> pub = "gone" /\ \A o \in Observers : pc[o] = "gone"
  BY DEF Holders

\* A sole holder is the only one that is not gone.
LEMMA HoldersSole ==
    ASSUME NEW o \in Observers
    PROVE  Holders = {o} =>
              pub = "gone" /\ pc[o] # "gone" /\ \A p \in Observers \ {o} : pc[p] = "gone"
  BY HandlesAssumption DEF Holders, Observers

\* An observer that goes on with its call, having seen COMPLETED if it is about to read.
LEMMA MoveCell ==
    ASSUME CellTypes, CellInv, NEW o \in Observers, NEW label \in Labels \ {"gone"},
           pc[o] \notin {"ready", "gone"}, label = "read" => Completed,
           pc' = [pc EXCEPT ![o] = label], bits' = bits \/ bits' = bits \cup {"HAS_WAITER"},
           UNCHANGED <<cell, pub, reads>>
    PROVE  CellTypes' /\ CellInv'
  <1>1. CellTypes'
    BY Zenon DEF CellTypes
  <1>2. \A p \in Observers : pc'[p] = IF p = o THEN label ELSE pc[p]
    BY DEF CellTypes
  <1>3. Completed' = Completed /\ ("OUTCOME_VALID" \in bits' <=> "OUTCOME_VALID" \in bits)
    BY DEF Completed
  <1>4. Holders # {} /\ Holders' # {}
    BY <1>2, HoldersEmpty DEF Holders
  <1>5. Affine \subseteq Observers
    BY HandlesAssumption DEF Observers
  <1> QED
    BY <1>1, <1>2, <1>3, <1>4, <1>5 DEF CellInv

\* An observer that reads the cell finds the outcome in it.
LEMMA ReadCell ==
    ASSUME CellTypes, CellInv, NEW o \in Observers, NEW label \in {"idle", "ready"}, Read(o, label)
    PROVE  CellTypes' /\ CellInv'
  <1>1. CellTypes'
    BY DEF CellTypes, Read, Goto, slot, publisher, Labels
  <1>2. \A p \in Observers : pc'[p] = IF p = o THEN label ELSE pc[p]
    BY DEF CellTypes, Read, Goto
  <1>3. pc[o] = "read" /\ reads' = reads \cup {cell} /\ UNCHANGED <<bits, cell, pub>>
    BY DEF Read, slot, publisher
  <1>4. Holders # {} /\ Holders' # {}
    BY <1>2, <1>3, HoldersEmpty DEF Holders
  <1>5. cell = "live"
    BY <1>3, <1>4 DEF CellInv
  <1>6. Affine \subseteq Observers /\ Completed' = Completed
    BY <1>3, HandlesAssumption DEF Observers, Completed
  <1> QED
    BY <1>1, <1>2, <1>3, <1>4, <1>5, <1>6 DEF CellInv

\* An observer whose handle is dropped, and the outcome with it when it was the last.
LEMMA DropCell ==
    ASSUME CellTypes, CellInv, NEW o \in Observers, pc[o] # "gone",
           pc' = [pc EXCEPT ![o] = "gone"], DropHandle(o), UNCHANGED <<bits, pub, reads>>
    PROVE  CellTypes' /\ CellInv'
  <1>1. CellTypes'
    BY DEF CellTypes, Labels
  <1>2. \A p \in Observers : pc'[p] = IF p = o THEN "gone" ELSE pc[p]
    BY DEF CellTypes
  <1>3. Holders = {o} <=> Holders' = {}
    BY <1>2, HandlesAssumption DEF Holders, Observers
  <1>4. Affine \subseteq Observers /\ Completed' = Completed
    BY HandlesAssumption DEF Observers, Completed
  <1>5. Holders # {}
    BY HoldersEmpty
  <1>6. CASE Holders = {o} /\ "OUTCOME_VALID" \in bits
    <2>1. cell = "live" /\ cell' = "dropped"
      BY <1>5, <1>6 DEF CellInv, DropHandle
    <2> QED
      BY <1>1, <1>2, <1>3, <1>4, <1>6, <2>1 DEF CellInv, Holders
  <1>7. CASE ~(Holders = {o} /\ "OUTCOME_VALID" \in bits)
    <2>1. cell' = cell
      BY <1>7 DEF DropHandle
    <2> QED
      BY <1>1, <1>2, <1>3, <1>4, <1>5, <1>7, <2>1 DEF CellInv, Holders
  <1> QED
    BY <1>6, <1>7

\* The observer that moves the outcome out is the only one that could still read it.
LEMMA TakeCell ==
    ASSUME CellTypes, CellInv, NEW o \in Observers, pc[o] \notin {"ready", "gone"}, Completed,
           NEW label \in {"ready", "gone"}, \A p \in Observers \ {o} : pc[p] = "gone",
           label = "gone" => pub = "gone",
           pc' = [pc EXCEPT ![o] = label], TakeOutcome(o), UNCHANGED pub
    PROVE  CellTypes' /\ CellInv'
  <1>1. CellTypes'
    BY DEF CellTypes, Labels, TakeOutcome
  <1>2. \A p \in Observers : pc'[p] = IF p = o THEN label ELSE pc[p]
    BY DEF CellTypes
  <1>3. "OUTCOME_VALID" \in bits /\ cell = "live"
    BY HoldersEmpty DEF CellInv
  <1>4. Affine \subseteq Observers /\ Completed' = Completed
    BY HandlesAssumption DEF Observers, Completed, TakeOutcome
  <1>5. "OUTCOME_VALID" \notin bits' /\ cell' = "moved" /\ reads' = reads \cup {"live"}
    BY <1>3 DEF TakeOutcome
  <1> QED
    BY <1>1, <1>2, <1>4, <1>5 DEF CellInv

\* The publisher's steps.
LEMMA PublisherCell ==
    ASSUME CellTypes, CellInv, SetOutcome \/ Completing \/ DropPublisher
    PROVE  CellTypes' /\ CellInv'
  <1>1. CASE SetOutcome
    BY <1>1 DEF SetOutcome, CellTypes, CellInv, Completed
  <1>2. CASE Publish
    <2>1. Holders' # {} /\ Completed'
      BY <1>2 DEF Publish, Holders, Completed
    <2> QED
      BY <1>2, <2>1 DEF Publish, CellTypes, CellInv
  <1>3. CASE Drain
    <2>1. Holders # {} /\ Holders' # {} /\ Completed' = Completed
      BY <1>3 DEF Drain, Holders, Completed
    <2> QED
      BY <1>3, <2>1 DEF Drain, CellTypes, CellInv
  <1>4. CASE Notify
    BY <1>4 DEF Notify, CellTypes, CellInv, Completed, Holders, slot
  <1>5. CASE Leave \/ DropPublisher
    <2>1. pub # "gone" /\ pub' = "gone" /\ UNCHANGED <<bits, pc, reads>> /\ DropHandle("publisher")
      BY <1>5 DEF Leave, DropPublisher
    <2>2. CellTypes'
      BY <2>1 DEF CellTypes
    <2>3. Holders # {} /\ (Holders = {"publisher"} <=> Holders' = {})
      BY <2>1, HandlesAssumption DEF Holders, Observers
    <2>4. Completed' = Completed
      BY <2>1 DEF Completed
    <2>5. CASE Holders = {"publisher"} /\ "OUTCOME_VALID" \in bits
      <3>1. cell = "live" /\ cell' = "dropped"
        BY <2>1, <2>3, <2>5 DEF CellInv, DropHandle
      <3> QED
        BY <2>1, <2>2, <2>3, <2>4, <2>5, <3>1 DEF CellInv
    <2>6. CASE ~(Holders = {"publisher"} /\ "OUTCOME_VALID" \in bits)
      <3>1. cell' = cell
        BY <2>1, <2>6 DEF DropHandle
      <3> QED
        BY <2>1, <2>2, <2>3, <2>4, <2>6, <3>1 DEF CellInv
    <2> QED
      BY <2>5, <2>6
  <1> QED
    BY <1>1, <1>2, <1>3, <1>4, <1>5 DEF Completing

\* The steps of a thread.
LEMMA ThreadCell ==
    ASSUME CellTypes, CellInv, NEW t \in Threads,
           \/ ThreadCall(t) \/ UnparkSpuriously(t) \/ TryGet(t) \/ IntoOutcome(t) \/ Release(t)
           \/ \E deadline \in {"none", "running"} : Wait(t, deadline)
    PROVE  CellTypes' /\ CellInv'
  <1>1. t \in Observers
    BY DEF Observers
  <1> USE DEF Labels, slot, publisher, Goto
  <1>2. CASE Check(t, "announce")
    BY Zenon, <1>1, <1>2, MoveCell DEF Check
  <1>3. CASE Announce(t)
    BY Zenon, <1>1, <1>3, MoveCell DEF Announce
  <1>4. CASE RegisterThread(t)
    BY <1>1, <1>4, MoveCell DEF RegisterThread
  <1>5. CASE Deadline(t)
    BY <1>1, <1>5, MoveCell DEF Deadline
  <1>6. CASE Expire(t)
    BY Zenon, <1>1, <1>6, MoveCell DEF Expire
  <1>7. CASE Unpark(t) \/ UnparkSpuriously(t)
    BY <1>1, <1>7, MoveCell DEF Unpark, UnparkSpuriously
  <1>8. CASE Read(t, "idle")
    BY <1>1, <1>8, ReadCell
  <1>9. CASE TryGet(t)
    BY Zenon, <1>1, <1>9, MoveCell DEF TryGet
  <1>10. CASE \E deadline \in {"none", "running"} : Wait(t, deadline)
    BY Zenon, <1>1, <1>10, MoveCell DEF Wait
  <1>11. CASE Release(t)
    BY Zenon, <1>1, <1>11, DropCell DEF Release
  <1>12. CASE IntoOutcome(t)
    <2>1. pub = "gone" /\ \A p \in Observers \ {t} : pc[p] = "gone"
      BY <1>1, <1>12, HoldersSole DEF IntoOutcome
    <2> QED
      BY Zenon, <1>1, <1>12, <2>1, TakeCell DEF IntoOutcome
  <1> QED
    BY <1>2, <1>3, <1>4, <1>5, <1>6, <1>7, <1>8, <1>9, <1>10, <1>11, <1>12 DEF ThreadCall

\* The steps of a future.
LEMMA FutureCell ==
    ASSUME CellTypes, CellInv, NEW f \in Futures,
           FuturePoll(f) \/ DropFuture(f) \/ \E w \in Wakers : Poll(f, w)
    PROVE  CellTypes' /\ CellInv'
  <1>1. f \in Observers
    BY DEF Observers
  <1> USE DEF Labels, slot, publisher, Goto
  <1>2. CASE Check(f, "update")
    BY Zenon, <1>1, <1>2, MoveCell DEF Check
  <1>3. CASE Update(f)
    BY Zenon, <1>1, <1>3, MoveCell DEF Update
  <1>4. CASE Announce(f)
    BY Zenon, <1>1, <1>4, MoveCell DEF Announce
  <1>5. CASE RegisterFuture(f)
    BY Zenon, <1>1, <1>5, MoveCell DEF RegisterFuture
  <1>6. CASE Recheck(f)
    BY Zenon, <1>1, <1>6, MoveCell DEF Recheck
  <1>7. CASE f \in Affine /\ Take(f)
    <2>1. pc[f] = "read" /\ Completed
      BY <1>1, <1>7 DEF Take, CellInv
    <2>2. \A p \in Observers \ {f} : pc[p] = "gone"
      BY <1>7, <2>1 DEF CellInv
    <2> QED
      BY Zenon, <1>1, <1>7, <2>1, <2>2, TakeCell DEF Take
  <1>8. CASE f \notin Affine /\ Read(f, "ready")
    BY <1>1, <1>8, ReadCell
  <1>9. CASE DropFuture(f)
    BY Zenon, <1>1, <1>9, DropCell DEF DropFuture
  <1>10. CASE \E w \in Wakers : Poll(f, w)
    BY Zenon, <1>1, <1>10, MoveCell DEF Poll
  <1> QED
    BY <1>2, <1>3, <1>4, <1>5, <1>6, <1>7, <1>8, <1>9, <1>10 DEF FuturePoll

\* The steps of an adapter.
LEMMA AdapterCell ==
    ASSUME CellTypes, CellInv, NEW a \in Adapters,
           AdapterCall(a) \/ Release(a) \/ \E w \in Wakers : RegisterWaker(a, w)
    PROVE  CellTypes' /\ CellInv'
  <1>1. a \in Observers
    BY DEF Observers
  <1> USE DEF Labels, slot, publisher, Goto
  <1>2. CASE Check(a, "announce")
    BY Zenon, <1>1, <1>2, MoveCell DEF Check
  <1>3. CASE Announce(a)
    BY Zenon, <1>1, <1>3, MoveCell DEF Announce
  <1>4. CASE RegisterAdapter(a)
    BY <1>1, <1>4, MoveCell DEF RegisterAdapter
  <1>5. CASE Read(a, "idle")
    BY <1>1, <1>5, ReadCell
  <1>6. CASE Release(a)
    BY Zenon, <1>1, <1>6, DropCell DEF Release
  <1>7. CASE \E w \in Wakers : RegisterWaker(a, w)
    BY Zenon, <1>1, <1>7, MoveCell DEF RegisterWaker
  <1> QED
    BY <1>2, <1>3, <1>4, <1>5, <1>6, <1>7 DEF AdapterCall

\* Every step keeps the cell in order.
LEMMA NextCell ==
    ASSUME CellTypes, CellInv, [Next]_vars
    PROVE  CellTypes' /\ CellInv'
  <1>1. CASE UNCHANGED vars
    BY <1>1 DEF vars, CellTypes, CellInv, Completed, Holders
  <1>2. CASE Next
    BY <1>2, PublisherCell, ThreadCell, FutureCell, AdapterCell DEF Next
  <1> QED
    BY <1>1, <1>2

\* A new slot is empty and has its publisher.
LEMMA InitCell == Init => CellTypes /\ CellInv
  <1> SUFFICES ASSUME Init PROVE CellTypes /\ CellInv
    OBVIOUS
  <1>1. PICK cast \in Casts : pc = [o \in Observers |-> IF o \in cast THEN "idle" ELSE "gone"]
    BY DEF Init
  <1>2. CellTypes
    BY <1>1 DEF Init, CellTypes, Labels
  <1>3. \A f \in Affine : pc[f] # "gone" => \A o \in Observers \ {f} : pc[o] = "gone"
    BY <1>1, CastsAssumption, HandlesAssumption DEF Observers
  <1> QED
    BY Zenon, <1>1, <1>2, <1>3 DEF Init, CellInv, Completed

\* The outcome is read only while it is in the cell, and leaves the cell exactly once:
\* moved out by a sole owner (try_take_outcome) or dropped with the slot's last Arc (Drop
\* for Slot), for any number of threads, futures and adapters.
THEOREM OutcomeKept == SlotSpec => []OutcomeOnce
  <1>1. CellTypes /\ CellInv => OutcomeOnce
    BY DEF CellInv, OutcomeOnce
  <1> QED
    BY <1>1, InitCell, NextCell, PTL DEF SlotSpec

-----------------------------------------------------------------------------
(***************************************************************************)
(* The waiter registry of observe/mod.rs: no wakeup is lost between        *)
(* registration and publication, and the registry holds exactly those who  *)
(* wait.                                                                   *)
(***************************************************************************)

WakerEntries == [waker : Wakers, persistent : BOOLEAN, owners : Nat]
Entries == {ThreadWaiter(t) : t \in Threads} \cup WakerEntries

\* The types of the variables the registry depends on.
WaiterTypes ==
    /\ waiters \in Seq(Entries) /\ taken \in Seq(Entries)
    /\ waker \in [Futures \cup Adapters -> Wakers \cup {NoWaker}]
    /\ reg \in [Futures -> Wakers \cup {NoWaker}]

\* The registry is in use until complete has taken it.
Open == ~Completed \/ pub = "drain"

Owners(w) == {f \in Futures : reg[f] = w}
OwnerCount == [w \in Wakers |-> Cardinality(Owners(w))]

Holds(list, t) == \E i \in DOMAIN list : list[i] = ThreadWaiter(t)

\* The entries of a waker, and that they have one position at most.
View(list, w) == {list[i] : i \in Registered(list, w)}
Single(list, w) == \A i, j \in Registered(list, w) : i = j

\* One entry at most for each waker, with the owners it has.
EntriesExact(list, count) ==
    \A w \in Wakers :
        /\ Single(list, w)
        /\ count[w] > 0 => View(list, w) # {}
        /\ \A e \in View(list, w) : e.owners = count[w] /\ (count[w] > 0 \/ e.persistent)

\* The registry as a whole.
ListInv ==
    /\ waiters # <<>> => "HAS_WAITER" \in bits
    /\ ~Open => waiters = <<>>
    /\ Open => EntriesExact(waiters, OwnerCount)

\* Where a thread is registered, and where its unpark token comes from.
ThreadOK(t) ==
    /\ pc[t] # "pending"
    /\ Holds(waiters, t) => pc[t] \notin {"idle", "gone"} \/ pub = "drain"
    /\ pc[t] \in {"park", "deadline"} =>
          /\ Open => Holds(waiters, t)
          /\ pub = "notify" => Holds(taken, t) \/ t \in token
          /\ ~Open /\ pub \in {"leave", "gone"} => t \in token

\* Where a future or an adapter is registered, and who wakes it.
PollOK(o) ==
    /\ pc[o] \notin {"idle", "ready", "gone"} => waker[o] \in Wakers
    /\ o \in Futures /\ (pc[o] = "pending" \/ (pc[o] = "recheck" /\ ~Completed)) => reg[o] = waker[o]
    /\ pc[o] = "pending" =>
          /\ Open /\ o \in Adapters => \E e \in View(waiters, waker[o]) : e.persistent
          /\ waker[o] \notin Panicking =>
                /\ pub = "notify" => View(taken, waker[o]) # {} \/ o \in notified
                /\ ~Open /\ pub \in {"leave", "gone"} => o \in notified

ObserverOK(o) ==
    /\ pc[o] = "register" => "HAS_WAITER" \in bits
    /\ o \in Threads => ThreadOK(o)
    /\ o \in Futures \cup Adapters => PollOK(o)

\* The inductive invariant: the registry and everyone who may be in it.
WaitInv == WaiterTypes /\ ListInv /\ \A o \in Observers : ObserverOK(o)

-----------------------------------------------------------------------------
(* Lists of waiters *)

\* retain keeps the entries at the positions given and nothing else, each once.
LEMMA RetainFacts ==
    ASSUME NEW S, NEW list \in Seq(S), NEW kept \in SUBSET DOMAIN list
    PROVE  /\ Retain(list, kept) \in Seq(S)
           /\ \E at \in [DOMAIN Retain(list, kept) -> kept] :
                /\ \A i, j \in DOMAIN Retain(list, kept) : at[i] = at[j] => i = j
                /\ \A k \in kept : \E i \in DOMAIN Retain(list, kept) : at[i] = k
                /\ \A i \in DOMAIN Retain(list, kept) : Retain(list, kept)[i] = list[at[i]]
  <1> DEFINE n == Cardinality(kept)
             Below(j) == {k \in kept : k <= j}
             rank == [j \in kept |-> Cardinality(Below(j))]
             at == [i \in 1 .. n |-> CHOOSE j \in kept : Cardinality(Below(j)) = i]
  <1>1. kept \subseteq 1 .. Len(list) /\ Len(list) \in Nat
    OBVIOUS
  <1>2. IsFiniteSet(kept)
    BY <1>1, FS_Interval, FS_Subset
  <1>3. n \in Nat
    BY <1>2, FS_CardinalityType
  <1>4. \A j \in kept : IsFiniteSet(Below(j)) /\ Cardinality(Below(j)) \in 1 .. n
    <2> SUFFICES ASSUME NEW j \in kept
                 PROVE  IsFiniteSet(Below(j)) /\ Cardinality(Below(j)) \in 1 .. n
      OBVIOUS
    <2>1. IsFiniteSet(Below(j)) /\ Cardinality(Below(j)) <= n
      BY <1>2, FS_Subset
    <2>2. j \in Below(j)
      BY <1>1
    <2>3. Cardinality(Below(j)) # 0 /\ Cardinality(Below(j)) \in Nat
      BY Zenon, <2>1, <2>2, FS_EmptySet, FS_CardinalityType
    <2> QED
      BY <1>3, <2>1, <2>3
  <1>5. \A i, j \in kept : i < j => Cardinality(Below(i)) # Cardinality(Below(j))
    <2> SUFFICES ASSUME NEW i \in kept, NEW j \in kept, i < j
                 PROVE  Cardinality(Below(i)) # Cardinality(Below(j))
      OBVIOUS
    <2>1. Below(i) \subseteq Below(j) /\ j \in Below(j) /\ j \notin Below(i)
      BY <1>1
    <2> QED
      BY Zenon, <1>4, <2>1, FS_Subset
  <1>6. rank \in Injection(kept, 1 .. n)
    <2> HIDE DEF Below, n
    <2>1. rank \in [kept -> 1 .. n]
      BY <1>4
    <2>2. \A i, j \in kept : rank[i] = rank[j] => i = j
      BY <1>1, <1>5
    <2> HIDE DEF rank
    <2> QED
      BY <2>1, <2>2 DEF Injection, IsInjective
  <1>7. rank \in Surjection(kept, 1 .. n)
    <2>1. IsFiniteSet(1 .. n) /\ Cardinality(1 .. n) = n
      BY <1>3, FS_Interval
    <2> HIDE DEF rank
    <2> QED
      BY <1>6, <2>1, FS_Injection
  <1>8. \A i \in 1 .. n : \E j \in kept : Cardinality(Below(j)) = i
    BY Zenon, <1>7 DEF Surjection
  <1>9. at \in [1 .. n -> kept] /\ \A i \in 1 .. n : Cardinality(Below(at[i])) = i
    BY Zenon, <1>8
  <1>10. Retain(list, kept) = [i \in 1 .. n |-> list[at[i]]]
    BY DEF Retain
  <1> HIDE DEF Below
  <1>11. \A i, j \in kept : Cardinality(Below(i)) = Cardinality(Below(j)) => i = j
    BY <1>1, <1>5
  <1>12. \A k \in kept : Cardinality(Below(k)) \in 1 .. n /\ at[Cardinality(Below(k))] = k
    BY <1>4, <1>9, <1>11
  <1> HIDE DEF at, n
  <1>13. DOMAIN Retain(list, kept) = 1 .. n /\ Retain(list, kept) \in Seq(S)
    <2>1. \A i \in 1 .. n : list[at[i]] \in S
      BY <1>1, <1>9
    <2> QED
      BY <1>3, <1>10, <2>1
  <1>14. \A i \in 1 .. n : Retain(list, kept)[i] = list[at[i]]
    BY <1>10
  <1>15. \A i, j \in 1 .. n : at[i] = at[j] => i = j
    BY <1>9
  <1>16. \A k \in kept : \E i \in 1 .. n : at[i] = k
    BY <1>12
  <1> DEFINE r == Retain(list, kept)
  <1>17. at \in [DOMAIN r -> kept]
    BY <1>9, <1>13
  <1>18. \A i, j \in DOMAIN r : at[i] = at[j] => i = j
    BY <1>13, <1>15
  <1>19. \A k \in kept : \E i \in DOMAIN r : at[i] = k
    BY <1>13, <1>16
  <1>20. \A i \in DOMAIN r : r[i] = list[at[i]]
    BY <1>13, <1>14
  <1>21. r \in Seq(S)
    BY <1>13
  <1> SUFFICES /\ r \in Seq(S)
               /\ \E b \in [DOMAIN r -> kept] :
                    /\ \A i, j \in DOMAIN r : b[i] = b[j] => i = j
                    /\ \A k \in kept : \E i \in DOMAIN r : b[i] = k
                    /\ \A i \in DOMAIN r : r[i] = list[b[i]]
    OBVIOUS
  <1> HIDE DEF r, at
  <1> QED
    BY ONLY <1>17, <1>18, <1>19, <1>20, <1>21

\* Threads and wakers are told apart.
LEMMA EntryFacts ==
    /\ \A t : ~IsWaker(ThreadWaiter(t))
    /\ \A t, u : ThreadWaiter(t) = ThreadWaiter(u) => t = u
    /\ \A e \in WakerEntries :
          /\ IsWaker(e) /\ e.waker \in Wakers /\ e.persistent \in BOOLEAN /\ e.owners \in Nat
          /\ \A t : e # ThreadWaiter(t)
    /\ \A e \in Entries : IsWaker(e) => e \in WakerEntries
    /\ WakerEntries \subseteq Entries
  <1>1. \A t : ~IsWaker(ThreadWaiter(t))
    BY DEF IsWaker, ThreadWaiter
  <1>2. \A t, u : ThreadWaiter(t) = ThreadWaiter(u) => t = u
    <2>1. \A t : ThreadWaiter(t).thread = t
      BY DEF ThreadWaiter
    <2> QED
      BY <2>1
  <1>3. \A e \in WakerEntries : IsWaker(e) /\ e.waker \in Wakers /\ e.persistent \in BOOLEAN /\ e.owners \in Nat
    BY DEF WakerEntries, IsWaker
  <1> QED
    BY <1>1, <1>2, <1>3, Zenon DEF Entries

\* A waker's entry with another count of owners or made persistent.
LEMMA ChangedEntry ==
    ASSUME NEW e \in WakerEntries, NEW n \in Nat
    PROVE  /\ LET d == [e EXCEPT !.owners = n]
              IN  d \in WakerEntries /\ d.waker = e.waker /\ d.persistent = e.persistent /\ d.owners = n
           /\ LET d == [e EXCEPT !.persistent = TRUE]
              IN  d \in WakerEntries /\ d.waker = e.waker /\ d.persistent /\ d.owners = e.owners
  BY Zenon DEF WakerEntries

\* A registered entry is a waker's.
LEMMA RegisteredFacts ==
    ASSUME NEW list \in Seq(Entries), NEW w
    PROVE  \A i \in Registered(list, w) :
              i \in DOMAIN list /\ list[i] \in WakerEntries /\ list[i].waker = w
  <1>1. \A i \in DOMAIN list : list[i] \in Entries
    OBVIOUS
  <1> QED
    BY <1>1, EntryFacts DEF Registered

\* What retain does to the entries of the threads and of the wakers.
LEMMA RetainView ==
    ASSUME NEW list \in Seq(Entries), NEW kept \in SUBSET DOMAIN list
    PROVE  /\ Retain(list, kept) \in Seq(Entries)
           /\ \A e : (\E i \in DOMAIN Retain(list, kept) : Retain(list, kept)[i] = e)
                        <=> (\E k \in kept : list[k] = e)
           /\ \A w : Single(list, w) => Single(Retain(list, kept), w)
  <1> DEFINE r == Retain(list, kept)
  <1>1. r \in Seq(Entries)
    BY RetainFacts
  <1>2. PICK at \in [DOMAIN r -> kept] :
            /\ \A i, j \in DOMAIN r : at[i] = at[j] => i = j
            /\ \A k \in kept : \E i \in DOMAIN r : at[i] = k
            /\ \A i \in DOMAIN r : r[i] = list[at[i]]
    BY RetainFacts
  <1> HIDE DEF r
  <1>3. \A e : (\E i \in DOMAIN r : r[i] = e) <=> (\E k \in kept : list[k] = e)
    BY <1>2
  <1>4. \A w : Single(list, w) => Single(r, w)
    <2> SUFFICES ASSUME NEW w, Single(list, w), NEW i \in Registered(r, w), NEW j \in Registered(r, w)
                 PROVE  i = j
      BY DEF Single
    <2>1. i \in DOMAIN r /\ j \in DOMAIN r /\ r[i] = list[at[i]] /\ r[j] = list[at[j]]
      BY <1>2 DEF Registered
    <2>2. at[i] \in Registered(list, w) /\ at[j] \in Registered(list, w)
      BY <1>2, <2>1 DEF Registered
    <2> QED
      BY <1>2, <2>1, <2>2 DEF Single
  <1> QED
    BY <1>1, <1>3, <1>4 DEF r

\* Deregistering a thread removes its entries and touches no other.
LEMMA WithoutThreadFacts ==
    ASSUME NEW list \in Seq(Entries), NEW t
    PROVE  /\ WithoutThread(list, t) \in Seq(Entries)
           /\ \A u : Holds(WithoutThread(list, t), u) <=> Holds(list, u) /\ u # t
           /\ \A w : View(WithoutThread(list, t), w) = View(list, w)
           /\ \A w : Single(list, w) => Single(WithoutThread(list, t), w)
  <1> DEFINE kept == {i \in DOMAIN list : list[i] # ThreadWaiter(t)}
             r == WithoutThread(list, t)
  <1>1. /\ r \in Seq(Entries)
        /\ \A e : (\E i \in DOMAIN r : r[i] = e) <=> (\E k \in kept : list[k] = e)
        /\ \A w : Single(list, w) => Single(r, w)
    BY Zenon, RetainView DEF WithoutThread
  <1> HIDE DEF r
  <1>2. \A u : Holds(r, u) <=> Holds(list, u) /\ u # t
    BY Zenon, <1>1, EntryFacts DEF Holds
  <1>3. \A w : View(r, w) = View(list, w)
    <2> SUFFICES ASSUME NEW w PROVE View(r, w) = View(list, w)
      OBVIOUS
    <2>1. \A e : e \in View(r, w) <=> (\E i \in DOMAIN r : r[i] = e) /\ IsWaker(e) /\ e.waker = w
      BY DEF View, Registered
    <2>2. \A e : e \in View(list, w) <=> (\E i \in DOMAIN list : list[i] = e) /\ IsWaker(e) /\ e.waker = w
      BY DEF View, Registered
    <2>3. \A e : IsWaker(e) => e # ThreadWaiter(t)
      BY EntryFacts
    <2>4. \A e : e \in View(r, w) <=> e \in View(list, w)
      BY Zenon, <1>1, <2>1, <2>2, <2>3
    <2> QED
      BY ONLY <2>4, Zenon
  <1> QED
    BY <1>1, <1>2, <1>3 DEF r

\* A list with one more element.
LEMMA AppendFacts ==
    ASSUME NEW S, NEW s \in Seq(S), NEW x \in S
    PROVE  /\ Append(s, x) \in Seq(S) /\ Append(s, x) # <<>>
           /\ DOMAIN Append(s, x) = DOMAIN s \cup {Len(s) + 1}
           /\ Len(s) + 1 \notin DOMAIN s /\ Append(s, x)[Len(s) + 1] = x
           /\ \A i \in DOMAIN s : Append(s, x)[i] = s[i]
  OBVIOUS

\* Registering a thread adds its entry and touches no other.
LEMMA PushThreadFacts ==
    ASSUME NEW list \in Seq(Entries), NEW t \in Threads
    PROVE  /\ PushThread(list, t) \in Seq(Entries)
           /\ PushThread(list, t) # <<>>
           /\ \A u : Holds(PushThread(list, t), u) <=> Holds(list, u) \/ u = t
           /\ \A w : View(PushThread(list, t), w) = View(list, w)
           /\ \A w : Single(list, w) => Single(PushThread(list, t), w)
  <1> DEFINE r == PushThread(list, t)
  <1>1. CASE list # <<>> /\ list[Len(list)] = ThreadWaiter(t)
    <2>1. r = list /\ Len(list) \in DOMAIN list
      BY <1>1 DEF PushThread
    <2>2. Holds(list, t)
      BY <1>1, <2>1 DEF Holds
    <2> QED
      BY <1>1, <2>1, <2>2
  <1>2. CASE ~(list # <<>> /\ list[Len(list)] = ThreadWaiter(t))
    <2>1. ThreadWaiter(t) \in Entries
      BY DEF Entries
    <2>2. r = Append(list, ThreadWaiter(t))
      BY <1>2 DEF PushThread
    <2>3. /\ r \in Seq(Entries) /\ r # <<>> /\ DOMAIN r = DOMAIN list \cup {Len(list) + 1}
          /\ Len(list) + 1 \notin DOMAIN list /\ r[Len(list) + 1] = ThreadWaiter(t)
          /\ \A i \in DOMAIN list : r[i] = list[i]
      BY <2>1, <2>2
    <2> HIDE DEF r
    <2>4. \A u : Holds(r, u) <=> Holds(list, u) \/ u = t
      BY <2>3, EntryFacts DEF Holds
    <2>5. \A w : Registered(r, w) = Registered(list, w)
      BY <2>3, EntryFacts DEF Registered
    <2>6. \A w : View(r, w) = View(list, w)
      BY <2>3, <2>5 DEF View, Registered
    <2>7. \A w : Single(list, w) => Single(r, w)
      BY <2>5 DEF Single
    <2> QED
      BY <2>3, <2>4, <2>6, <2>7 DEF r
  <1> QED
    BY <1>1, <1>2

\* One more waker at the end of the list.
LEMMA AppendWaker ==
    ASSUME NEW list \in Seq(Entries), NEW e \in WakerEntries, View(list, e.waker) = {}
    PROVE  /\ Append(list, e) \in Seq(Entries) /\ Append(list, e) # <<>>
           /\ \A u : Holds(Append(list, e), u) <=> Holds(list, u)
           /\ \A w : View(Append(list, e), w) = IF w = e.waker THEN {e} ELSE View(list, w)
           /\ \A w : Single(list, w) => Single(Append(list, e), w)
  <1> DEFINE r == Append(list, e)
             n == Len(list) + 1
  <1>1. e \in Entries /\ IsWaker(e) /\ \A u : e # ThreadWaiter(u)
    BY EntryFacts
  <1>2. /\ r \in Seq(Entries) /\ r # <<>> /\ DOMAIN r = DOMAIN list \cup {n}
        /\ n \notin DOMAIN list /\ r[n] = e /\ \A i \in DOMAIN list : r[i] = list[i]
    BY ONLY <1>1, list \in Seq(Entries), AppendFacts
  <1> HIDE DEF r, n
  <1>3. \A u : Holds(r, u) <=> Holds(list, u)
    BY <1>1, <1>2 DEF Holds
  <1>4. \A w : Registered(r, w) = Registered(list, w) \cup (IF w = e.waker THEN {n} ELSE {})
    BY <1>1, <1>2 DEF Registered
  <1>5. Registered(list, e.waker) = {}
    <2>1. \A i \in Registered(list, e.waker) : list[i] \in View(list, e.waker)
      BY DEF View
    <2> QED
      BY <2>1
  <1>6. \A w : View(r, w) = IF w = e.waker THEN {e} ELSE View(list, w)
    <2> SUFFICES ASSUME NEW w PROVE View(r, w) = IF w = e.waker THEN {e} ELSE View(list, w)
      OBVIOUS
    <2>1. CASE w = e.waker
      <3>1. Registered(r, w) = {n}
        BY <1>4, <1>5, <2>1
      <3> QED
        BY <1>2, <2>1, <3>1 DEF View
    <2>2. CASE w # e.waker
      <3>1. Registered(r, w) = Registered(list, w) /\ Registered(list, w) \subseteq DOMAIN list
        BY Zenon, <1>4, <2>2 DEF Registered
      <3> QED
        BY <1>2, <2>2, <3>1 DEF View
    <2> QED
      BY <2>1, <2>2
  <1>7. \A w : Single(list, w) => Single(r, w)
    BY <1>4, <1>5 DEF Single
  <1> QED
    BY <1>2, <1>3, <1>6, <1>7 DEF r

\* r is the list with the entries of one waker replaced where they stand.
Changed(list, r, w) ==
    /\ r \in Seq(Entries) /\ DOMAIN r = DOMAIN list
    /\ \A i \in DOMAIN list \ Registered(list, w) : r[i] = list[i]
    /\ \A i \in Registered(list, w) : r[i] \in WakerEntries /\ r[i].waker = w

\* Such a change reaches no thread and no other waker.
LEMMA ChangedView ==
    ASSUME NEW list \in Seq(Entries), NEW w, NEW r, Changed(list, r, w)
    PROVE  /\ \A v : Registered(r, v) = Registered(list, v)
           /\ \A u : Holds(r, u) <=> Holds(list, u)
           /\ \A v : v # w => View(r, v) = View(list, v)
           /\ View(r, w) = {r[i] : i \in Registered(list, w)}
           /\ \A v : Single(list, v) => Single(r, v)
  <1> USE DEF Changed
  <1>1. \A i \in Registered(list, w) : i \in DOMAIN list /\ list[i] \in WakerEntries /\ list[i].waker = w
    BY RegisteredFacts
  <1>2. \A v : Registered(r, v) = Registered(list, v)
    <2> SUFFICES ASSUME NEW v, NEW i \in DOMAIN list
                 PROVE  i \in Registered(r, v) <=> i \in Registered(list, v)
      BY Zenon DEF Registered
    <2>1. CASE i \in Registered(list, w)
      BY <1>1, <2>1, EntryFacts DEF Registered
    <2>2. CASE i \notin Registered(list, w)
      BY <2>2 DEF Registered
    <2> QED
      BY <2>1, <2>2
  <1>3. \A u : Holds(r, u) <=> Holds(list, u)
    <2>1. \A u : \A i \in DOMAIN list : r[i] = ThreadWaiter(u) <=> list[i] = ThreadWaiter(u)
      BY <1>1, EntryFacts
    <2> QED
      BY <2>1 DEF Holds
  <1>4. \A v : v # w => View(r, v) = View(list, v)
    <2> SUFFICES ASSUME NEW v, v # w PROVE View(r, v) = View(list, v)
      OBVIOUS
    <2>1. \A i \in Registered(list, v) : r[i] = list[i]
      BY DEF Registered
    <2> QED
      BY <1>2, <2>1 DEF View
  <1> QED
    BY Zenon, <1>2, <1>3, <1>4 DEF View, Single

\* No entry that register_waker made persistent goes.
KeepsPersistent(list, r) ==
    \A v : (\E e \in View(list, v) : e.persistent) => (\E e \in View(r, v) : e.persistent)

\* The entries of a waker, by element.
LEMMA ViewMember ==
    ASSUME NEW list, NEW w, NEW e
    PROVE  e \in View(list, w) <=> (\E i \in DOMAIN list : list[i] = e) /\ IsWaker(e) /\ e.waker = w
  BY DEF View, Registered

\* One more owner of a waker.
LEMMA AddOwnerFacts ==
    ASSUME NEW list \in Seq(Entries), NEW count \in [Wakers -> Nat], NEW w \in Wakers,
           EntriesExact(list, count)
    PROVE  /\ AddOwner(list, w) \in Seq(Entries) /\ AddOwner(list, w) # <<>>
           /\ EntriesExact(AddOwner(list, w), [count EXCEPT ![w] = @ + 1])
           /\ \A u : Holds(AddOwner(list, w), u) <=> Holds(list, u)
           /\ KeepsPersistent(list, AddOwner(list, w))
  <1> DEFINE r == AddOwner(list, w)
             more == [count EXCEPT ![w] = @ + 1]
  <1>1. \A v \in Wakers : more[v] = IF v = w THEN count[v] + 1 ELSE count[v]
    OBVIOUS
  <1>2. \A v \in Wakers : count[v] \in Nat
    OBVIOUS
  <1>3. CASE Registered(list, w) = {}
    <2> DEFINE e == WakerWaiter(w, FALSE, 1)
    <2>1. e \in WakerEntries /\ e.waker = w /\ e.owners = 1
      BY DEF WakerWaiter, WakerEntries
    <2>2. r = Append(list, e) /\ View(list, w) = {}
      BY <1>3 DEF AddOwner, View
    <2> HIDE DEF e
    <2>3. /\ r \in Seq(Entries) /\ r # <<>> /\ \A u : Holds(r, u) <=> Holds(list, u)
          /\ \A v : View(r, v) = IF v = w THEN {e} ELSE View(list, v)
          /\ \A v : Single(list, v) => Single(r, v)
      BY <2>1, <2>2, AppendWaker
    <2> HIDE DEF r, more
    <2>4. count[w] = 0
      BY <1>2, <2>2 DEF EntriesExact
    <2>5. EntriesExact(r, more)
      <3> SUFFICES ASSUME NEW v \in Wakers
                   PROVE  /\ Single(r, v)
                          /\ more[v] > 0 => View(r, v) # {}
                          /\ \A d \in View(r, v) : d.owners = more[v] /\ (more[v] > 0 \/ d.persistent)
        BY DEF EntriesExact
      <3>1. Single(r, v)
        BY <2>3 DEF EntriesExact
      <3>2. CASE v = w
        <4>1. more[v] = 1 /\ View(r, v) = {e}
          BY <1>1, <2>3, <2>4, <3>2
        <4> QED
          BY <2>1, <3>1, <4>1
      <3>3. CASE v # w
        BY <1>1, <2>3, <3>1, <3>3 DEF EntriesExact
      <3> QED
        BY <3>2, <3>3
    <2>6. KeepsPersistent(list, r)
      BY <2>2, <2>3 DEF KeepsPersistent
    <2> QED
      BY <2>3, <2>5, <2>6 DEF r, more
  <1>4. CASE Registered(list, w) # {}
    <2>1. \A i \in Registered(list, w) : i \in DOMAIN list /\ list[i] \in WakerEntries /\ list[i].waker = w
      BY RegisteredFacts
    <2>2. r = [i \in DOMAIN list |->
                  IF i \in Registered(list, w) THEN [list[i] EXCEPT !.owners = list[i].owners + 1] ELSE list[i]]
      BY Zenon, <1>4 DEF AddOwner
    <2>3. \A i \in Registered(list, w) :
              /\ r[i] \in WakerEntries /\ r[i].waker = w
              /\ r[i].persistent = list[i].persistent /\ r[i].owners = list[i].owners + 1
      <3> SUFFICES ASSUME NEW i \in Registered(list, w)
                   PROVE  /\ r[i] \in WakerEntries /\ r[i].waker = w
                          /\ r[i].persistent = list[i].persistent /\ r[i].owners = list[i].owners + 1
        OBVIOUS
      <3> DEFINE n == list[i].owners + 1
      <3>1. list[i] \in WakerEntries /\ list[i].waker = w /\ n \in Nat
        BY <2>1, EntryFacts
      <3>2. r[i] = [list[i] EXCEPT !.owners = n]
        BY <2>1, <2>2
      <3> HIDE DEF n, r
      <3>3. r[i] \in WakerEntries /\ r[i].waker = w /\ r[i].persistent = list[i].persistent /\ r[i].owners = n
        BY <3>1, <3>2 DEF WakerEntries
      <3> QED
        BY <3>3 DEF n
    <2>4. \A i \in DOMAIN list \ Registered(list, w) : r[i] = list[i]
      BY <2>2
    <2>5. DOMAIN r = DOMAIN list
      BY <2>2
    <2>6. \A i \in DOMAIN list : r[i] \in Entries
      BY <2>3, <2>4, EntryFacts
    <2> HIDE DEF r, more
    <2>7. r \in Seq(Entries)
      BY <2>2, <2>6
    <2>8. /\ \A u : Holds(r, u) <=> Holds(list, u)
          /\ \A v : v # w => View(r, v) = View(list, v)
          /\ View(r, w) = {r[i] : i \in Registered(list, w)}
          /\ \A v : Single(list, v) => Single(r, v)
      <3>1. Changed(list, r, w)
        BY <2>3, <2>4, <2>5, <2>7 DEF Changed
      <3> QED
        BY <3>1, ChangedView
    <2>9. \A i \in Registered(list, w) : list[i] \in View(list, w)
      BY DEF View
    <2>10. \A e \in View(r, w) : e.owners = more[w] /\ more[w] > 0
      BY <1>1, <1>2, <2>3, <2>8, <2>9 DEF EntriesExact
    <2>11. View(r, w) # {}
      BY Zenon, <1>4, <2>8
    <2>12. EntriesExact(r, more)
      BY Zenon, <1>1, <2>8, <2>10, <2>11 DEF EntriesExact
    <2>13. KeepsPersistent(list, r)
      <3>1. (\E e \in View(list, w) : e.persistent) => (\E e \in View(r, w) : e.persistent)
        <4> SUFFICES ASSUME NEW e \in View(list, w), e.persistent
                     PROVE  \E d \in View(r, w) : d.persistent
          OBVIOUS
        <4>1. PICK i \in Registered(list, w) : list[i] = e
          BY DEF View
        <4>2. r[i] \in View(r, w) /\ r[i].persistent
          BY <2>3, <2>8, <4>1
        <4> QED
          BY <4>2
      <3> QED
        BY <2>8, <3>1 DEF KeepsPersistent
    <2>14. r # <<>>
      BY <1>4, <2>1, <2>5
    <2> QED
      BY <2>7, <2>8, <2>12, <2>13, <2>14 DEF r, more
  <1> QED
    BY <1>3, <1>4

\* register_waker leaves a persistent entry and the counts as they are.
LEMMA PersistFacts ==
    ASSUME NEW list \in Seq(Entries), NEW count \in [Wakers -> Nat], NEW w \in Wakers,
           EntriesExact(list, count)
    PROVE  /\ Persist(list, w) \in Seq(Entries) /\ Persist(list, w) # <<>>
           /\ EntriesExact(Persist(list, w), count)
           /\ \A u : Holds(Persist(list, w), u) <=> Holds(list, u)
           /\ KeepsPersistent(list, Persist(list, w))
           /\ \E e \in View(Persist(list, w), w) : e.persistent
  <1> DEFINE r == Persist(list, w)
  <1>2. \A v \in Wakers : count[v] \in Nat
    OBVIOUS
  <1>3. CASE Registered(list, w) = {}
    <2> DEFINE e == WakerWaiter(w, TRUE, 0)
    <2>1. e \in WakerEntries /\ e.waker = w /\ e.owners = 0 /\ e.persistent
      BY DEF WakerWaiter, WakerEntries
    <2>2. r = Append(list, e) /\ View(list, w) = {}
      BY <1>3 DEF Persist, View
    <2> HIDE DEF e
    <2>3. /\ r \in Seq(Entries) /\ r # <<>> /\ \A u : Holds(r, u) <=> Holds(list, u)
          /\ \A v : View(r, v) = IF v = w THEN {e} ELSE View(list, v)
          /\ \A v : Single(list, v) => Single(r, v)
      BY <2>1, <2>2, AppendWaker
    <2> HIDE DEF r
    <2>4. count[w] = 0
      BY <1>2, <2>2 DEF EntriesExact
    <2>5. EntriesExact(r, count)
      BY <1>2, <2>1, <2>3, <2>4 DEF EntriesExact
    <2>6. KeepsPersistent(list, r)
      BY <2>2, <2>3 DEF KeepsPersistent
    <2> QED
      BY <2>1, <2>3, <2>5, <2>6 DEF r
  <1>4. CASE Registered(list, w) # {}
    <2>1. \A i \in Registered(list, w) : i \in DOMAIN list /\ list[i] \in WakerEntries /\ list[i].waker = w
      BY RegisteredFacts
    <2>2. r = [i \in DOMAIN list |->
                  IF i \in Registered(list, w) THEN [list[i] EXCEPT !.persistent = TRUE] ELSE list[i]]
      BY Zenon, <1>4 DEF Persist
    <2>3. \A i \in Registered(list, w) :
              /\ r[i] \in WakerEntries /\ r[i].waker = w
              /\ r[i].persistent /\ r[i].owners = list[i].owners
      <3> SUFFICES ASSUME NEW i \in Registered(list, w)
                   PROVE  /\ r[i] \in WakerEntries /\ r[i].waker = w
                          /\ r[i].persistent /\ r[i].owners = list[i].owners
        OBVIOUS
      <3>1. list[i] \in WakerEntries /\ list[i].waker = w /\ 0 \in Nat
        BY <2>1
      <3>2. r[i] = [list[i] EXCEPT !.persistent = TRUE]
        BY Zenon, <2>1, <2>2
      <3> HIDE DEF r
      <3> QED
        BY Zenon, <3>1, <3>2, ChangedEntry
    <2>4. \A i \in DOMAIN list \ Registered(list, w) : r[i] = list[i]
      BY <2>2
    <2>5. DOMAIN r = DOMAIN list
      BY <2>2
    <2>6. \A i \in DOMAIN list : r[i] \in Entries
      BY <2>3, <2>4, EntryFacts
    <2> HIDE DEF r
    <2>7. r \in Seq(Entries)
      BY <2>2, <2>6
    <2>8. /\ \A u : Holds(r, u) <=> Holds(list, u)
          /\ \A v : v # w => View(r, v) = View(list, v)
          /\ View(r, w) = {r[i] : i \in Registered(list, w)}
          /\ \A v : Single(list, v) => Single(r, v)
      <3>1. Changed(list, r, w)
        BY <2>3, <2>4, <2>5, <2>7 DEF Changed
      <3> QED
        BY <3>1, ChangedView
    <2>9. \A i \in Registered(list, w) : list[i] \in View(list, w)
      BY DEF View
    <2>10. \A e \in View(r, w) : e.owners = count[w] /\ e.persistent
      BY <1>2, <2>3, <2>8, <2>9 DEF EntriesExact
    <2>11. View(r, w) # {}
      BY ZenonT(60), <1>4, <2>8
    <2>12. EntriesExact(r, count)
      BY Zenon, <2>8, <2>10, <2>11 DEF EntriesExact
    <2>13. KeepsPersistent(list, r)
      BY Zenon, <2>8, <2>10, <2>11 DEF KeepsPersistent
    <2>14. r # <<>>
      BY <1>4, <2>1, <2>5
    <2> QED
      BY Zenon, <2>7, <2>8, <2>10, <2>11, <2>12, <2>13, <2>14 DEF r
  <1> QED
    BY <1>3, <1>4

\* One owner of a waker less; its entry goes with the last unless it is persistent.
LEMMA RemoveOwnerFacts ==
    ASSUME NEW list \in Seq(Entries), NEW count \in [Wakers -> Nat], NEW w \in Wakers,
           EntriesExact(list, count), count[w] > 0
    PROVE  /\ RemoveOwner(list, w) \in Seq(Entries)
           /\ EntriesExact(RemoveOwner(list, w), [count EXCEPT ![w] = @ - 1])
           /\ \A u : Holds(RemoveOwner(list, w), u) <=> Holds(list, u)
           /\ KeepsPersistent(list, RemoveOwner(list, w))
  <1> DEFINE low == [i \in DOMAIN list |->
                       IF i \in Registered(list, w) THEN [list[i] EXCEPT !.owners = @ - 1] ELSE list[i]]
             kept == {i \in DOMAIN list : IsWaker(low[i]) => low[i].persistent \/ low[i].owners > 0}
             r == RemoveOwner(list, w)
             less == [count EXCEPT ![w] = @ - 1]
  <1>1. r = Retain(low, kept)
    BY DEF RemoveOwner
  <1>2. \A v \in Wakers : less[v] = IF v = w THEN count[v] - 1 ELSE count[v]
    OBVIOUS
  <1>3. \A i \in Registered(list, w) :
            /\ i \in DOMAIN list /\ list[i] \in WakerEntries /\ list[i].waker = w
            /\ list[i].owners = count[w]
    BY RegisteredFacts DEF EntriesExact, View
  <1>4. \A i \in Registered(list, w) :
            /\ low[i] \in WakerEntries /\ low[i].waker = w
            /\ low[i].persistent = list[i].persistent /\ low[i].owners = count[w] - 1
    <2> SUFFICES ASSUME NEW i \in Registered(list, w)
                 PROVE  /\ low[i] \in WakerEntries /\ low[i].waker = w
                        /\ low[i].persistent = list[i].persistent /\ low[i].owners = count[w] - 1
      BY Zenon
    <2> DEFINE n == count[w] - 1
    <2>1. list[i] \in WakerEntries /\ list[i].waker = w /\ n \in Nat
      BY <1>3
    <2>2. low[i] = [list[i] EXCEPT !.owners = n]
      BY <1>3
    <2> HIDE DEF n, low
    <2>3. low[i] \in WakerEntries /\ low[i].waker = w /\ low[i].persistent = list[i].persistent /\ low[i].owners = n
      BY <2>1, <2>2 DEF WakerEntries
    <2> QED
      BY <2>3 DEF n
  <1>5. DOMAIN low = DOMAIN list /\ \A i \in DOMAIN list \ Registered(list, w) : low[i] = list[i]
    OBVIOUS
  <1>6. low \in Seq(Entries)
    <2>1. \A i \in DOMAIN list : list[i] \in Entries
      OBVIOUS
    <2>2. low = [i \in 1 .. Len(list) |-> low[i]] /\ Len(list) \in Nat /\ DOMAIN list = 1 .. Len(list)
      OBVIOUS
    <2> HIDE DEF low
    <2>3. \A i \in DOMAIN list : low[i] \in Entries
      BY <1>4, <1>5, <2>1, EntryFacts
    <2> QED
      BY <2>2, <2>3
  <1>7. /\ \A u : Holds(low, u) <=> Holds(list, u)
        /\ \A v : v # w => View(low, v) = View(list, v)
        /\ View(low, w) = {low[i] : i \in Registered(list, w)}
        /\ \A v : Single(list, v) => Single(low, v)
    <2> HIDE DEF low
    <2>1. Changed(list, low, w)
      BY <1>4, <1>5, <1>6 DEF Changed
    <2> QED
      BY <2>1, ChangedView
  <1> HIDE DEF low, r, less
  <1>8. /\ r \in Seq(Entries)
        /\ \A e : (\E i \in DOMAIN r : r[i] = e) <=> (\E k \in kept : low[k] = e)
        /\ \A v : Single(low, v) => Single(r, v)
    <2>1. kept \in SUBSET DOMAIN low
      BY <1>5
    <2> HIDE DEF kept
    <2> DEFINE q == Retain(low, kept)
    <2>2. /\ q \in Seq(Entries)
          /\ \A e : (\E i \in DOMAIN q : q[i] = e) <=> (\E k \in kept : low[k] = e)
          /\ \A v : Single(low, v) => Single(q, v)
      BY ZenonT(60), <1>6, <2>1, RetainView
    <2> QED
      BY <1>1, <2>2
  <1>9. \A e : (\E k \in kept : low[k] = e) <=>
                  (\E i \in DOMAIN low : low[i] = e) /\ (IsWaker(e) => e.persistent \/ e.owners > 0)
    BY <1>5
  <1>10. \A u : Holds(r, u) <=> Holds(list, u)
    <2>1. \A u : Holds(r, u) <=> Holds(low, u)
      BY Zenon, <1>8, <1>9, EntryFacts DEF Holds
    <2> QED
      BY <1>7, <2>1
  <1>11. \A v, e : e \in View(r, v) <=> e \in View(low, v) /\ (e.persistent \/ e.owners > 0)
    <2> SUFFICES ASSUME NEW v, NEW e
                 PROVE  e \in View(r, v) <=> e \in View(low, v) /\ (e.persistent \/ e.owners > 0)
      OBVIOUS
    <2>1. e \in View(r, v) <=> (\E i \in DOMAIN r : r[i] = e) /\ IsWaker(e) /\ e.waker = v
      BY ViewMember
    <2>2. e \in View(low, v) <=> (\E i \in DOMAIN low : low[i] = e) /\ IsWaker(e) /\ e.waker = v
      BY ViewMember
    <2> HIDE DEF kept
    <2> QED
      BY Zenon, <1>8, <1>9, <2>1, <2>2
  <1>12. \A e \in View(low, w) : e.owners = count[w] - 1
    BY <1>4, <1>7
  <1>13. \A v \in Wakers : v # w => View(r, v) = View(list, v)
    <2> SUFFICES ASSUME NEW v \in Wakers, v # w PROVE View(r, v) = View(list, v)
      OBVIOUS
    <2>1. \A e \in View(list, v) : e.persistent \/ e.owners > 0
      BY DEF EntriesExact
    <2>2. \A e : e \in View(r, v) <=> e \in View(list, v)
      BY <1>7, <1>11, <2>1
    <2> QED
      BY ONLY <2>2, Zenon
  <1>14. EntriesExact(r, less)
    <2> SUFFICES ASSUME NEW v \in Wakers
                 PROVE  /\ Single(r, v)
                        /\ less[v] > 0 => View(r, v) # {}
                        /\ \A d \in View(r, v) : d.owners = less[v] /\ (less[v] > 0 \/ d.persistent)
      BY DEF EntriesExact
    <2>1. Single(r, v)
      BY <1>7, <1>8 DEF EntriesExact
    <2>2. CASE v = w
      <3>1. \A d \in View(r, v) : d.owners = less[v] /\ (less[v] > 0 \/ d.persistent)
        BY <1>2, <1>11, <1>12, <2>2
      <3>2. ASSUME less[v] > 0 PROVE View(r, v) # {}
        <4>1. View(list, w) # {}
          BY DEF EntriesExact
        <4>2. PICK i : i \in Registered(list, w)
          BY <4>1 DEF View
        <4>3. low[i] \in View(low, w) /\ low[i].owners > 0
          BY <1>2, <1>4, <1>7, <2>2, <3>2, <4>2
        <4> QED
          BY <1>11, <2>2, <4>3
      <3> QED
        BY <2>1, <3>1, <3>2
    <2>3. CASE v # w
      BY <1>2, <1>13, <2>1, <2>3 DEF EntriesExact
    <2> QED
      BY <2>2, <2>3
  <1>15. KeepsPersistent(list, r)
    <2> SUFFICES ASSUME NEW v, NEW e \in View(list, v), e.persistent
                 PROVE  \E d \in View(r, v) : d.persistent
      BY DEF KeepsPersistent
    <2>1. CASE v # w
      <3>1. e \in View(low, v)
        BY <1>7, <2>1
      <3> QED
        BY <1>11, <3>1
    <2>2. CASE v = w
      <3>1. PICK i \in Registered(list, w) : list[i] = e
        BY <2>2 DEF View
      <3>2. low[i] \in View(low, w) /\ low[i].persistent
        BY <1>4, <1>7, <3>1
      <3> QED
        BY <1>11, <2>2, <3>2
    <2> QED
      BY <2>1, <2>2
  <1> QED
    BY <1>8, <1>10, <1>14, <1>15 DEF r, less

-----------------------------------------------------------------------------
(* Steps of one observer *)

\* The step is one of o's: no other observer moves, is deregistered or misses a wake.
StepOf(o) ==
    /\ \A p \in Observers \ {o} : pc'[p] = pc[p]
    /\ UNCHANGED <<pub, taken>> /\ Completed' = Completed
    /\ "HAS_WAITER" \in bits => "HAS_WAITER" \in bits'
    /\ \A t \in Threads \ {o} : (Holds(waiters', t) <=> Holds(waiters, t)) /\ (t \in token => t \in token')
    /\ \A p \in (Futures \cup Adapters) \ {o} : waker'[p] = waker[p] /\ (p \in notified => p \in notified')
    /\ \A f \in Futures \ {o} : reg'[f] = reg[f]
    /\ Open => KeepsPersistent(waiters, waiters')

\* The others are as well off after a step of o as before it.
LEMMA OthersOK ==
    ASSUME WaitInv, NEW o \in Observers, StepOf(o)
    PROVE  \A p \in Observers \ {o} : ObserverOK(p)'
  <1> SUFFICES ASSUME NEW p \in Observers \ {o} PROVE ObserverOK(p)'
    OBVIOUS
  <1>1. ObserverOK(p)
    BY DEF WaitInv
  <1>2. pc'[p] = pc[p] /\ UNCHANGED <<pub, taken>> /\ Completed' = Completed /\ Open' = Open
    BY DEF StepOf, Open
  <1>3. pc'[p] = "register" => "HAS_WAITER" \in bits'
    BY <1>1, <1>2 DEF StepOf, ObserverOK
  <1>4. ASSUME p \in Threads PROVE ThreadOK(p)'
    <2>1. (Holds(waiters', p) <=> Holds(waiters, p)) /\ (p \in token => p \in token')
      BY <1>4 DEF StepOf
    <2> QED
      BY <1>1, <1>2, <1>4, <2>1 DEF ObserverOK, ThreadOK
  <1>5. ASSUME p \in Futures \cup Adapters PROVE PollOK(p)'
    <2>1. waker'[p] = waker[p] /\ (p \in notified => p \in notified')
      BY Zenon, <1>5 DEF StepOf
    <2>2. p \in Futures => reg'[p] = reg[p]
      BY DEF StepOf
    <2>3. Open => ((\E e \in View(waiters, waker[p]) : e.persistent)
                      => (\E e \in View(waiters', waker[p]) : e.persistent))
      BY DEF StepOf, KeepsPersistent
    <2> QED
      BY ZenonT(60), <1>1, <1>2, <1>5, <2>1, <2>2, <2>3 DEF ObserverOK, PollOK
  <1> QED
    BY <1>3, <1>4, <1>5 DEF ObserverOK

\* A step of o that leaves the registry alone.
LEMMA MoveWait ==
    ASSUME CellTypes, WaitInv, NEW o \in Observers, NEW label,
           pc' = [pc EXCEPT ![o] = label], UNCHANGED <<waiters, pub, taken, reg>>,
           Completed' = Completed, "HAS_WAITER" \in bits => "HAS_WAITER" \in bits',
           waker' \in [Futures \cup Adapters -> Wakers \cup {NoWaker}],
           \A p \in (Futures \cup Adapters) \ {o} : waker'[p] = waker[p] /\ (p \in notified => p \in notified'),
           \A t \in Threads \ {o} : t \in token => t \in token',
           ObserverOK(o)'
    PROVE  WaitInv'
  <1>1. StepOf(o)
    BY Zenon DEF StepOf, KeepsPersistent, CellTypes
  <1>2. \A p \in Observers : ObserverOK(p)'
    BY <1>1, OthersOK
  <1>3. WaiterTypes'
    BY DEF WaitInv, WaiterTypes
  <1>4. Open' = Open /\ OwnerCount' = OwnerCount
    BY DEF Open, OwnerCount, Owners
  <1>5. ListInv'
    BY <1>4 DEF WaitInv, ListInv
  <1> QED
    BY <1>2, <1>3, <1>5 DEF WaitInv

\* A thread that moves on without touching the registry: it parks only where it was about
\* to, and is in no call any more only once the registry is out of use.
LEMMA MoveThread ==
    ASSUME CellTypes, CellInv, WaitInv, NEW t \in Threads, NEW label \in Labels \ {"pending"},
           pc' = [pc EXCEPT ![t] = label], UNCHANGED <<waiters, pub, taken, reg, waker>>,
           Completed' = Completed, "HAS_WAITER" \in bits => "HAS_WAITER" \in bits',
           \A u \in Threads \ {t} : u \in token => u \in token',
           \A p \in Futures \cup Adapters : p \in notified => p \in notified',
           label = "register" => "HAS_WAITER" \in bits',
           label \in {"park", "deadline"} => pc[t] \in {"park", "deadline"} /\ (t \in token => t \in token'),
           label \in {"idle", "gone"} => pc[t] \in {"idle", "gone"} \/ Completed
    PROVE  WaitInv'
  <1>1. t \in Observers /\ t \notin Futures \cup Adapters
    BY HandlesAssumption DEF Observers
  <1>2. pc'[t] = label /\ Open' = Open
    BY <1>1 DEF CellTypes, Open
  <1>3. ThreadOK(t)
    BY <1>1 DEF WaitInv, ObserverOK
  <1>4. Holds(waiters, t) => Open
    BY DEF WaitInv, ListInv, Holds
  <1>5. label \in {"idle", "gone"} /\ Holds(waiters, t) => pub = "drain"
    BY <1>3, <1>4 DEF ThreadOK, Open
  <1>6. ThreadOK(t)'
    BY <1>2, <1>3, <1>5 DEF ThreadOK
  <1>7. ObserverOK(t)'
    BY <1>1, <1>2, <1>6 DEF ObserverOK
  <1>8. waker' \in [Futures \cup Adapters -> Wakers \cup {NoWaker}]
    BY DEF WaitInv, WaiterTypes
  <1> QED
    BY Zenon, <1>1, <1>7, <1>8, MoveWait

\* The steps of a thread outside the registry.
LEMMA ThreadMoves ==
    ASSUME CellTypes, CellInv, WaitInv, NEW t \in Threads,
           \/ Check(t, "announce") \/ Announce(t) \/ Deadline(t) \/ Unpark(t) \/ UnparkSpuriously(t)
           \/ Read(t, "idle") \/ TryGet(t) \/ IntoOutcome(t) \/ Release(t)
           \/ \E deadline \in {"none", "running"} : Wait(t, deadline)
    PROVE  WaitInv'
  <1>0. t \in Observers /\ t \notin Futures \cup Adapters
    BY HandlesAssumption DEF Observers
  <1> USE DEF slot, publisher, polling, wakes, Goto, Labels
  <1>1. CASE Check(t, "announce")
    BY Zenon, <1>1, MoveThread DEF Check, Completed
  <1>2. CASE Announce(t)
    <2>1. Completed' = Completed /\ "HAS_WAITER" \in bits'
      BY <1>2 DEF Announce, Completed
    <2> QED
      BY Zenon, <1>2, <2>1, MoveThread DEF Announce
  <1>3. CASE Deadline(t)
    BY <1>3, MoveThread DEF Deadline, Completed
  <1>4. CASE Unpark(t)
    BY Zenon, <1>4, MoveThread DEF Unpark, Completed
  <1>5. CASE UnparkSpuriously(t)
    BY Zenon, <1>5, MoveThread DEF UnparkSpuriously, Completed
  <1>6. CASE Read(t, "idle")
    <2>1. Completed
      BY Zenon, <1>0, <1>6 DEF Read, CellInv
    <2> QED
      BY Zenon, <1>6, <2>1, MoveThread DEF Read, Completed
  <1>7. CASE TryGet(t)
    BY Zenon, <1>7, MoveThread DEF TryGet, Completed
  <1>8. CASE IntoOutcome(t)
    <2>1. Completed' = Completed /\ ("HAS_WAITER" \in bits => "HAS_WAITER" \in bits')
      BY <1>8 DEF IntoOutcome, TakeOutcome, Completed
    <2> QED
      BY Zenon, <1>8, <2>1, MoveThread DEF IntoOutcome
  <1>9. CASE Release(t)
    <2>1. waker' = waker
      BY <1>0, <1>9 DEF Release, WaitInv, WaiterTypes
    <2>2. pc[t] = "idle"
      BY Zenon, <1>0, <1>9 DEF Release, WaitInv, ObserverOK, ThreadOK
    <2> QED
      BY Zenon, <1>0, <1>9, <2>1, <2>2, MoveThread DEF Release, Completed
  <1>10. CASE \E deadline \in {"none", "running"} : Wait(t, deadline)
    BY Zenon, <1>10, MoveThread DEF Wait, Completed
  <1> QED
    BY <1>1, <1>2, <1>3, <1>4, <1>5, <1>6, <1>7, <1>8, <1>9, <1>10

\* A future or an adapter that moves on without touching the registry: it is pending only
\* when it is registered with its waker and the second load found no outcome.
LEMMA MovePoll ==
    ASSUME CellTypes, CellInv, WaitInv, NEW o \in Futures \cup Adapters, NEW label,
           pc' = [pc EXCEPT ![o] = label], UNCHANGED <<waiters, pub, taken, reg>>,
           Completed' = Completed, "HAS_WAITER" \in bits => "HAS_WAITER" \in bits',
           \A t \in Threads : t \in token => t \in token',
           waker' \in [Futures \cup Adapters -> Wakers \cup {NoWaker}],
           \A p \in (Futures \cup Adapters) \ {o} : waker'[p] = waker[p] /\ (p \in notified => p \in notified'),
           label = "register" => "HAS_WAITER" \in bits',
           label \notin {"idle", "ready", "gone"} => waker'[o] \in Wakers,
           label = "pending" => pc[o] = "recheck" /\ ~Completed /\ o \in Futures /\ waker'[o] = waker[o],
           label = "recheck" /\ o \in Futures /\ ~Completed => reg[o] = waker'[o]
    PROVE  WaitInv'
  <1>1. o \in Observers /\ o \notin Threads /\ (o \in Futures => o \notin Adapters)
    BY HandlesAssumption DEF Observers
  <1>2. pc'[o] = label /\ Open' = Open
    BY <1>1 DEF CellTypes, Open
  <1>3. PollOK(o)
    BY <1>1 DEF WaitInv, ObserverOK
  <1>4. pub = "notify" => Completed
    BY DEF CellInv
  <1>5. PollOK(o)'
    BY <1>1, <1>2, <1>3, <1>4 DEF PollOK, Open
  <1>6. ObserverOK(o)'
    BY <1>1, <1>2, <1>5 DEF ObserverOK
  <1> QED
    BY Zenon, <1>1, <1>6, MoveWait

\* The steps of a future outside the registry.
LEMMA FutureMoves ==
    ASSUME CellTypes, CellInv, WaitInv, NEW f \in Futures,
           \/ Check(f, "update") \/ Update(f) \/ Announce(f) \/ Recheck(f)
           \/ Take(f) \/ Read(f, "ready") \/ \E w \in Wakers : Poll(f, w)
    PROVE  WaitInv'
  <1> USE DEF slot, publisher, polling, wakes, Goto
  <1>1. f \in Futures \cup Adapters /\ f \in Observers
    BY DEF Observers
  <1>2. waker \in [Futures \cup Adapters -> Wakers \cup {NoWaker}]
    BY DEF WaitInv, WaiterTypes
  <1>3. PollOK(f)
    BY <1>1 DEF WaitInv, ObserverOK
  <1>4. CASE Check(f, "update")
    BY ZenonT(60), <1>1, <1>2, <1>3, <1>4, MovePoll DEF Check, Completed, PollOK
  <1>5. CASE Update(f)
    BY Zenon, <1>1, <1>2, <1>3, <1>5, MovePoll DEF Update, Completed, PollOK
  <1>6. CASE Announce(f)
    <2>1. Completed' = Completed /\ "HAS_WAITER" \in bits'
      BY <1>6 DEF Announce, Completed
    <2>2. pc[f] = "announce"
      BY <1>6 DEF Announce
    <2>3. waker[f] \in Wakers
      BY <1>3, <2>2 DEF PollOK
    <2> QED
      BY Zenon, <1>1, <1>2, <1>6, <2>1, <2>3, MovePoll DEF Announce
  <1>7. CASE Recheck(f)
    BY Zenon, <1>1, <1>2, <1>3, <1>7, MovePoll DEF Recheck, Completed, PollOK
  <1>8. CASE Take(f)
    <2>1. Completed' = Completed /\ ("HAS_WAITER" \in bits => "HAS_WAITER" \in bits')
      BY <1>8 DEF Take, TakeOutcome, Completed
    <2> QED
      BY ZenonT(60), <1>1, <1>2, <1>8, <2>1, MovePoll DEF Take
  <1>9. CASE Read(f, "ready")
    BY ZenonT(60), <1>1, <1>2, <1>9, MovePoll DEF Read, Completed
  <1>10. CASE \E w \in Wakers : Poll(f, w)
    <2>1. PICK w \in Wakers : Poll(f, w)
      BY <1>10
    <2>2. /\ waker' \in [Futures \cup Adapters -> Wakers \cup {NoWaker}] /\ waker'[f] = w
          /\ \A p \in (Futures \cup Adapters) \ {f} : waker'[p] = waker[p] /\ (p \in notified => p \in notified')
      BY <1>1, <1>2, <2>1 DEF Poll
    <2> QED
      BY Zenon, <1>1, <2>1, <2>2, MovePoll DEF Poll, Completed
  <1> QED
    BY <1>4, <1>5, <1>6, <1>7, <1>8, <1>9, <1>10

\* The steps of an adapter outside the registry.
LEMMA AdapterMoves ==
    ASSUME CellTypes, CellInv, WaitInv, NEW a \in Adapters,
           \/ Check(a, "announce") \/ Announce(a) \/ Read(a, "idle") \/ Release(a)
           \/ \E w \in Wakers : RegisterWaker(a, w)
    PROVE  WaitInv'
  <1> USE DEF slot, publisher, polling, wakes, Goto
  <1>1. a \in Futures \cup Adapters /\ a \in Observers /\ a \notin Futures
    BY HandlesAssumption DEF Observers
  <1>2. waker \in [Futures \cup Adapters -> Wakers \cup {NoWaker}]
    BY DEF WaitInv, WaiterTypes
  <1>3. PollOK(a)
    BY <1>1 DEF WaitInv, ObserverOK
  <1>4. CASE Check(a, "announce")
    BY ZenonT(60), <1>1, <1>2, <1>3, <1>4, MovePoll DEF Check, Completed, PollOK
  <1>5. CASE Announce(a)
    <2>1. Completed' = Completed /\ "HAS_WAITER" \in bits'
      BY <1>5 DEF Announce, Completed
    <2>2. pc[a] = "announce"
      BY <1>5 DEF Announce
    <2>3. waker[a] \in Wakers
      BY <1>3, <2>2 DEF PollOK
    <2> QED
      BY ZenonT(60), <1>1, <1>2, <1>5, <2>1, <2>3, MovePoll DEF Announce
  <1>6. CASE Read(a, "idle")
    BY ZenonT(60), <1>1, <1>2, <1>6, MovePoll DEF Read, Completed
  <1>7. CASE Release(a)
    <2>1. /\ waker' \in [Futures \cup Adapters -> Wakers \cup {NoWaker}]
          /\ \A p \in (Futures \cup Adapters) \ {a} : waker'[p] = waker[p] /\ (p \in notified => p \in notified')
      BY <1>1, <1>2, <1>7 DEF Release
    <2> QED
      BY Zenon, <1>1, <1>7, <2>1, MovePoll DEF Release, Completed
  <1>8. CASE \E w \in Wakers : RegisterWaker(a, w)
    <2>1. PICK w \in Wakers : RegisterWaker(a, w)
      BY <1>8
    <2>2. /\ waker' \in [Futures \cup Adapters -> Wakers \cup {NoWaker}] /\ waker'[a] = w
          /\ \A p \in (Futures \cup Adapters) \ {a} : waker'[p] = waker[p] /\ (p \in notified => p \in notified')
      BY <1>1, <1>2, <2>1 DEF RegisterWaker
    <2> QED
      BY Zenon, <1>1, <2>1, <2>2, MovePoll DEF RegisterWaker, Completed
  <1> QED
    BY <1>4, <1>5, <1>6, <1>7, <1>8

-----------------------------------------------------------------------------
(* Steps under the waiters lock *)

\* Nothing can be removed from an empty registry.
LEMMA EmptyFacts ==
    /\ \A t : WithoutThread(<<>>, t) = <<>>
    /\ \A w : RemoveOwner(<<>>, w) = <<>>
  <1>1. \A list : Retain(list, {}) = <<>>
    BY FS_EmptySet DEF Retain
  <1>2. \A t : {i \in DOMAIN <<>> : <<>>[i] # ThreadWaiter(t)} = {}
    OBVIOUS
  <1>3. \A t : WithoutThread(<<>>, t) = <<>>
    BY <1>1, <1>2 DEF WithoutThread
  <1>4. \A w : RemoveOwner(<<>>, w) = <<>>
    <2> SUFFICES ASSUME NEW w PROVE RemoveOwner(<<>>, w) = <<>>
      OBVIOUS
    <2> DEFINE low == [i \in DOMAIN <<>> |-> IF i \in Registered(<<>>, w)
                                               THEN [<<>>[i] EXCEPT !.owners = @ - 1] ELSE <<>>[i]]
               kept == {i \in DOMAIN <<>> : IsWaker(low[i]) => low[i].persistent \/ low[i].owners > 0}
    <2>1. RemoveOwner(<<>>, w) = Retain(low, kept)
      BY DEF RemoveOwner
    <2>2. kept = {}
      OBVIOUS
    <2> QED
      BY <1>1, <2>1, <2>2
  <1> QED
    BY <1>3, <1>4

\* A list with the same wakers is as exact.
LEMMA SameViews ==
    ASSUME NEW list, NEW r, NEW count, EntriesExact(list, count),
           \A w : View(r, w) = View(list, w), \A w : Single(list, w) => Single(r, w)
    PROVE  EntriesExact(r, count) /\ KeepsPersistent(list, r)
  BY DEF EntriesExact, KeepsPersistent

\* A step of o under the lock, given what it does to the list and for o.
LEMMA LockedStep ==
    ASSUME WaitInv, NEW o \in Observers, StepOf(o), WaiterTypes', ListInv', ObserverOK(o)'
    PROVE  WaitInv'
  BY OthersOK DEF WaitInv

\* A thread registers, or deregisters because the outcome is there or its time is over.
LEMMA RegisterThreadWait ==
    ASSUME CellTypes, CellInv, WaitInv, NEW t \in Threads, RegisterThread(t) \/ Expire(t)
    PROVE  WaitInv'
  <1>1. t \in Observers /\ t \notin Futures \cup Adapters
    BY HandlesAssumption DEF Observers
  <1>2. waiters \in Seq(Entries) /\ ThreadOK(t) /\ ObserverOK(t)
    BY <1>1 DEF WaitInv, WaiterTypes, ObserverOK
  <1>3. /\ UNCHANGED <<bits, pub, taken, waker, reg, token, notified>>
        /\ \E label \in Labels : pc' = [pc EXCEPT ![t] = label]
    BY DEF RegisterThread, Expire, publisher, polling, wakes, Goto, Labels
  <1>4. Open' = Open /\ Completed' = Completed /\ OwnerCount' = OwnerCount
    BY <1>3 DEF Open, Completed, OwnerCount, Owners
  <1>5. \A p \in Observers \ {t} : pc'[p] = pc[p]
    BY <1>3 DEF CellTypes
  <1>6. CASE RegisterThread(t) /\ ~Completed
    <2>1. waiters' = PushThread(waiters, t) /\ pc[t] = "register" /\ pc'[t] \in {"park", "deadline"}
      BY <1>1, <1>6 DEF RegisterThread, Goto, CellTypes
    <2>2. /\ waiters' \in Seq(Entries) /\ \A u : Holds(waiters', u) <=> Holds(waiters, u) \/ u = t
          /\ \A w : View(waiters', w) = View(waiters, w)
          /\ \A w : Single(waiters, w) => Single(waiters', w)
      BY Zenon, <1>2, <2>1, PushThreadFacts
    <2>3. Open /\ pub # "notify"
      BY <1>6 DEF Open, CellInv
    <2>4. EntriesExact(waiters', OwnerCount) /\ KeepsPersistent(waiters, waiters')
      BY <2>2, <2>3, SameViews DEF WaitInv, ListInv
    <2>5. StepOf(t)
      BY Zenon, <1>3, <1>4, <1>5, <2>2, <2>4 DEF StepOf
    <2>6. "HAS_WAITER" \in bits'
      BY <1>2, <1>3, <2>1 DEF ObserverOK
    <2>7. ListInv'
      BY <1>4, <2>3, <2>4, <2>6 DEF ListInv
    <2>8. ThreadOK(t)'
      BY <1>3, <1>4, <2>1, <2>2, <2>3 DEF ThreadOK
    <2>9. ObserverOK(t)' /\ WaiterTypes'
      BY <1>1, <1>3, <2>1, <2>2, <2>8 DEF ObserverOK, WaitInv, WaiterTypes
    <2> QED
      BY <1>1, <2>5, <2>7, <2>9, LockedStep
  <1>7. CASE (RegisterThread(t) /\ Completed) \/ Expire(t)
    <2>1. waiters' = WithoutThread(waiters, t) /\ pc'[t] \in {"read", "idle"}
      BY <1>1, <1>7 DEF RegisterThread, Expire, Goto, CellTypes
    <2>2. /\ waiters' \in Seq(Entries) /\ \A u : Holds(waiters', u) <=> Holds(waiters, u) /\ u # t
          /\ \A w : View(waiters', w) = View(waiters, w)
          /\ \A w : Single(waiters, w) => Single(waiters', w)
      BY <1>2, <2>1, WithoutThreadFacts
    <2>3. waiters = <<>> => waiters' = <<>>
      BY <2>1, EmptyFacts
    <2>4. Open => EntriesExact(waiters', OwnerCount) /\ KeepsPersistent(waiters, waiters')
      BY <2>2, SameViews DEF WaitInv, ListInv
    <2>5. StepOf(t)
      BY Zenon, <1>3, <1>4, <1>5, <2>2, <2>4 DEF StepOf
    <2>6. ListInv'
      BY <1>3, <1>4, <2>3, <2>4 DEF WaitInv, ListInv
    <2>7. ThreadOK(t)'
      BY <2>1, <2>2 DEF ThreadOK
    <2>8. ObserverOK(t)' /\ WaiterTypes'
      BY <1>1, <1>3, <2>1, <2>2, <2>7 DEF ObserverOK, WaitInv, WaiterTypes
    <2> QED
      BY <1>1, <2>5, <2>6, <2>8, LockedStep
  <1> QED
    BY <1>6, <1>7

\* An adapter registers its waker for good.
LEMMA RegisterAdapterWait ==
    ASSUME CellTypes, CellInv, WaitInv, OwnerCount \in [Wakers -> Nat],
           NEW a \in Adapters, RegisterAdapter(a)
    PROVE  WaitInv'
  <1>1. a \in Observers /\ a \notin Threads /\ a \notin Futures
    BY HandlesAssumption DEF Observers
  <1>2. waiters \in Seq(Entries) /\ PollOK(a) /\ ObserverOK(a)
    BY <1>1 DEF WaitInv, WaiterTypes, ObserverOK
  <1>3. pc[a] = "register" /\ UNCHANGED <<bits, pub, taken, waker, reg, token, notified>>
    BY DEF RegisterAdapter, publisher, polling, wakes
  <1>4. Open' = Open /\ Completed' = Completed /\ OwnerCount' = OwnerCount
    BY <1>3 DEF Open, Completed, OwnerCount, Owners
  <1>5. waker[a] \in Wakers
    BY <1>2, <1>3 DEF PollOK
  <1>6. CASE Completed
    <2>1. waker \in [Futures \cup Adapters -> Wakers \cup {NoWaker}]
      BY DEF WaitInv, WaiterTypes
    <2> QED
      BY <1>1, <1>3, <1>4, <1>5, <1>6, <2>1, MovePoll DEF RegisterAdapter, Goto
  <1>7. CASE ~Completed
    <2>1. waiters' = Persist(waiters, waker[a]) /\ pc' = [pc EXCEPT ![a] = "pending"]
      BY <1>7 DEF RegisterAdapter, Goto
    <2>2. pc'[a] = "pending" /\ \A p \in Observers \ {a} : pc'[p] = pc[p]
      BY <1>1, <2>1 DEF CellTypes
    <2>3. Open /\ pub # "notify"
      BY <1>7 DEF Open, CellInv
    <2>4. EntriesExact(waiters, OwnerCount)
      BY <2>3 DEF WaitInv, ListInv
    <2>5. /\ waiters' \in Seq(Entries) /\ waiters' # <<>> /\ EntriesExact(waiters', OwnerCount)
          /\ \A u : Holds(waiters', u) <=> Holds(waiters, u)
          /\ KeepsPersistent(waiters, waiters')
          /\ \E e \in View(waiters', waker[a]) : e.persistent
      BY <1>2, <1>5, <2>1, <2>4, PersistFacts
    <2>6. StepOf(a)
      BY Zenon, <1>3, <1>4, <2>2, <2>5 DEF StepOf
    <2>7. "HAS_WAITER" \in bits'
      BY <1>2, <1>3 DEF ObserverOK
    <2>8. ListInv'
      BY <1>4, <2>3, <2>5, <2>7 DEF ListInv
    <2>9. PollOK(a)'
      BY ZenonT(60), <1>1, <1>3, <1>4, <1>5, <2>2, <2>3, <2>5 DEF PollOK
    <2>10. ObserverOK(a)' /\ WaiterTypes'
      BY Zenon, <1>1, <1>3, <2>2, <2>5, <2>9 DEF ObserverOK, WaitInv, WaiterTypes
    <2> QED
      BY <1>1, <2>6, <2>8, <2>10, LockedStep
  <1> QED
    BY <1>6, <1>7

\* Futures are counted by the waker they are registered with.
LEMMA CountType == OwnerCount \in [Wakers -> Nat] /\ \A w \in Wakers : IsFiniteSet(Owners(w))
  <1>1. \A w \in Wakers : IsFiniteSet(Owners(w)) /\ Cardinality(Owners(w)) \in Nat
    BY HandlesAssumption, FS_Subset, FS_CardinalityType DEF Owners
  <1> QED
    BY <1>1 DEF OwnerCount

\* A future that is registered with another waker counts for that one.
LEMMA CountMoves ==
    ASSUME WaiterTypes, NEW f \in Futures, NEW v \in Wakers \cup {NoWaker}, reg' = [reg EXCEPT ![f] = v]
    PROVE  \A w \in Wakers :
              OwnerCount'[w] = IF w = v /\ w # reg[f] THEN OwnerCount[w] + 1
                               ELSE IF w = reg[f] /\ w # v THEN OwnerCount[w] - 1 ELSE OwnerCount[w]
  <1> SUFFICES ASSUME NEW w \in Wakers
               PROVE  OwnerCount'[w] = IF w = v /\ w # reg[f] THEN OwnerCount[w] + 1
                                       ELSE IF w = reg[f] /\ w # v THEN OwnerCount[w] - 1 ELSE OwnerCount[w]
    OBVIOUS
  <1>1. OwnerCount[w] = Cardinality(Owners(w)) /\ OwnerCount'[w] = Cardinality(Owners(w)')
    BY DEF OwnerCount
  <1>2. IsFiniteSet(Owners(w))
    BY CountType
  <1>3. CASE w = v /\ w # reg[f]
    <2>1. Owners(w)' = Owners(w) \cup {f} /\ f \notin Owners(w)
      BY <1>3 DEF Owners, WaiterTypes
    <2>2. Cardinality(Owners(w) \cup {f}) = Cardinality(Owners(w)) + 1
      BY ONLY <1>2, <2>1, FS_AddElement
    <2> QED
      BY <1>1, <1>3, <2>1, <2>2
  <1>4. CASE w = reg[f] /\ w # v
    <2>1. Owners(w)' = Owners(w) \ {f} /\ f \in Owners(w)
      BY <1>4 DEF Owners, WaiterTypes
    <2> QED
      BY Zenon, <1>1, <1>2, <1>4, <2>1, FS_RemoveElement
  <1>5. CASE (w = v /\ w = reg[f]) \/ (w # v /\ w # reg[f])
    <2>1. Owners(w)' = Owners(w)
      BY <1>5 DEF Owners, WaiterTypes
    <2> QED
      BY <1>1, <1>5, <2>1
  <1> QED
    BY <1>3, <1>4, <1>5

\* A registered future counts.
LEMMA CountPositive ==
    ASSUME NEW f \in Futures, reg[f] \in Wakers
    PROVE  OwnerCount[reg[f]] > 0
  <1>1. f \in Owners(reg[f]) /\ OwnerCount[reg[f]] = Cardinality(Owners(reg[f]))
    BY DEF Owners, OwnerCount
  <1>2. IsFiniteSet(Owners(reg[f])) /\ OwnerCount[reg[f]] \in Nat
    BY CountType
  <1> QED
    BY <1>1, <1>2, FS_EmptySet

\* Exactness depends on what the counts are, not on how they were reached.
LEMMA SameCounts ==
    ASSUME NEW r, NEW c, NEW d, EntriesExact(r, c), \A w \in Wakers : d[w] = c[w]
    PROVE  EntriesExact(r, d)
  BY DEF EntriesExact

\* A future's registration moves from its old waker to the new one.
LEMMA MigrateFacts ==
    ASSUME WaiterTypes, EntriesExact(waiters, OwnerCount), NEW f \in Futures, NEW v \in Wakers,
           reg' = [reg EXCEPT ![f] = v]
    PROVE  LET r == MigrateOwner(waiters, reg[f], v)
           IN  /\ r \in Seq(Entries) /\ EntriesExact(r, OwnerCount')
               /\ \A u : Holds(r, u) <=> Holds(waiters, u)
               /\ KeepsPersistent(waiters, r)
  <1> DEFINE r == MigrateOwner(waiters, reg[f], v)
             added == AddOwner(waiters, v)
             c == [OwnerCount EXCEPT ![v] = @ + 1]
  <1>1. OwnerCount \in [Wakers -> Nat]
    BY CountType
  <1>2. c \in [Wakers -> Nat] /\ \A w \in Wakers : c[w] = IF w = v THEN OwnerCount[w] + 1 ELSE OwnerCount[w]
    BY <1>1
  <1>3. /\ added \in Seq(Entries) /\ EntriesExact(added, c)
        /\ \A u : Holds(added, u) <=> Holds(waiters, u)
        /\ KeepsPersistent(waiters, added)
    BY Zenon, <1>1, AddOwnerFacts DEF WaiterTypes
  <1>4. \A w \in Wakers :
              OwnerCount'[w] = IF w = v /\ w # reg[f] THEN OwnerCount[w] + 1
                               ELSE IF w = reg[f] /\ w # v THEN OwnerCount[w] - 1 ELSE OwnerCount[w]
    BY Zenon, CountMoves
  <1> HIDE DEF c, added
  <1>5. CASE reg[f] = NoWaker
    <2>1. r = added
      BY <1>5 DEF MigrateOwner, added
    <2>2. \A w \in Wakers : OwnerCount'[w] = c[w]
      BY <1>2, <1>4, <1>5, NoWakerAssumption
    <2>3. EntriesExact(added, OwnerCount')
      BY <1>3, <2>2, SameCounts
    <2> QED
      BY <1>3, <2>1, <2>3
  <1>6. CASE reg[f] # NoWaker
    <2> DEFINE p == reg[f]
               d == [c EXCEPT ![p] = @ - 1]
    <2>1. r = RemoveOwner(added, p)
      BY <1>6 DEF MigrateOwner, added
    <2>2. p \in Wakers
      BY <1>6 DEF WaiterTypes
    <2>3. OwnerCount[p] > 0
      BY <2>2, CountPositive
    <2> HIDE DEF p
    <2>4. c[p] > 0 /\ \A w \in Wakers : d[w] = IF w = p THEN c[w] - 1 ELSE c[w]
      BY <1>1, <1>2, <2>2, <2>3
    <2>5. \A w \in Wakers : OwnerCount'[w] = d[w]
      BY <1>1, <1>2, <1>4, <2>4 DEF p
    <2> HIDE DEF d
    <2>6. /\ RemoveOwner(added, p) \in Seq(Entries)
          /\ EntriesExact(RemoveOwner(added, p), d)
          /\ \A u : Holds(RemoveOwner(added, p), u) <=> Holds(added, u)
          /\ KeepsPersistent(added, RemoveOwner(added, p))
      BY ZenonT(60), <1>2, <1>3, <2>2, <2>4, RemoveOwnerFacts DEF d
    <2>7. EntriesExact(RemoveOwner(added, p), OwnerCount')
      BY <2>5, <2>6, SameCounts
    <2>8. KeepsPersistent(waiters, RemoveOwner(added, p))
      BY <1>3, <2>6 DEF KeepsPersistent
    <2> QED
      BY <1>3, <2>1, <2>6, <2>7, <2>8
  <1> QED
    BY <1>5, <1>6

\* A future registers with the waker of its latest poll.
LEMMA RegisterFutureWait ==
    ASSUME CellTypes, CellInv, WaitInv, NEW f \in Futures, RegisterFuture(f)
    PROVE  WaitInv'
  <1>1. f \in Observers /\ f \notin Threads /\ f \notin Adapters /\ f \in Futures \cup Adapters
    BY HandlesAssumption DEF Observers
  <1>2. WaiterTypes /\ PollOK(f) /\ ObserverOK(f)
    BY <1>1 DEF WaitInv, ObserverOK
  <1>3. /\ pc[f] = "register" /\ UNCHANGED <<bits, pub, taken, waker, token, notified>>
        /\ pc' = [pc EXCEPT ![f] = "recheck"]
    BY Zenon DEF RegisterFuture, publisher, wakes, Goto
  <1>4. Open' = Open /\ Completed' = Completed
    BY <1>3 DEF Open, Completed
  <1>5. waker[f] \in Wakers
    BY <1>2, <1>3 DEF PollOK
  <1>6. CASE Completed
    <2>1. waker \in [Futures \cup Adapters -> Wakers \cup {NoWaker}] /\ UNCHANGED <<waiters, reg>>
      BY <1>2, <1>6 DEF WaiterTypes, RegisterFuture
    <2> QED
      BY ZenonT(60), <1>1, <1>3, <1>4, <1>5, <1>6, <2>1, MovePoll
  <1>7. CASE ~Completed
    <2>1. waiters' = MigrateOwner(waiters, reg[f], waker[f]) /\ reg' = [reg EXCEPT ![f] = waker[f]]
      BY <1>7 DEF RegisterFuture
    <2>2. pc'[f] = "recheck" /\ \A p \in Observers \ {f} : pc'[p] = pc[p]
      BY <1>1, <1>3 DEF CellTypes
    <2>3. /\ reg' \in [Futures -> Wakers \cup {NoWaker}] /\ reg'[f] = waker[f]
          /\ \A g \in Futures \ {f} : reg'[g] = reg[g]
      BY <1>2, <1>5, <2>1 DEF WaiterTypes
    <2>4. Open /\ EntriesExact(waiters, OwnerCount)
      BY <1>7 DEF Open, WaitInv, ListInv
    <2>5. /\ waiters' \in Seq(Entries) /\ EntriesExact(waiters', OwnerCount')
          /\ \A u : Holds(waiters', u) <=> Holds(waiters, u)
          /\ KeepsPersistent(waiters, waiters')
      BY Zenon, <1>2, <1>5, <2>1, <2>4, MigrateFacts
    <2>6. StepOf(f)
      BY Zenon, <1>3, <1>4, <2>2, <2>3, <2>5 DEF StepOf
    <2>7. "HAS_WAITER" \in bits'
      BY <1>2, <1>3 DEF ObserverOK
    <2>8. ListInv'
      BY <1>4, <2>4, <2>5, <2>7 DEF ListInv
    <2>9. PollOK(f)'
      BY <1>3, <1>5, <2>2, <2>3 DEF PollOK
    <2>10. ObserverOK(f)' /\ WaiterTypes'
      BY <1>1, <1>2, <1>3, <2>2, <2>3, <2>5, <2>9 DEF ObserverOK, WaiterTypes
    <2> QED
      BY <1>1, <2>6, <2>8, <2>10, LockedStep
  <1> QED
    BY <1>6, <1>7

\* A dropped future leaves the registry.
LEMMA DropFutureWait ==
    ASSUME CellTypes, CellInv, WaitInv, NEW f \in Futures, DropFuture(f)
    PROVE  WaitInv'
  <1>1. f \in Observers /\ f \notin Threads /\ f \notin Adapters /\ f \in Futures \cup Adapters
    BY HandlesAssumption DEF Observers
  <1>2. WaiterTypes
    BY DEF WaitInv
  <1>3. /\ UNCHANGED <<bits, pub, taken, token>> /\ pc' = [pc EXCEPT ![f] = "gone"]
        /\ reg' = [reg EXCEPT ![f] = NoWaker] /\ waker' = [waker EXCEPT ![f] = NoWaker]
        /\ notified' = notified \ {f}
        /\ waiters' = IF reg[f] = NoWaker THEN waiters ELSE RemoveOwner(waiters, reg[f])
    BY DEF DropFuture, Forget, publisher, Goto
  <1>4. Open' = Open /\ Completed' = Completed
    BY <1>3 DEF Open, Completed
  <1>5. pc'[f] = "gone" /\ \A p \in Observers \ {f} : pc'[p] = pc[p]
    BY <1>1, <1>3 DEF CellTypes
  <1>6. /\ reg' \in [Futures -> Wakers \cup {NoWaker}]
        /\ waker' \in [Futures \cup Adapters -> Wakers \cup {NoWaker}]
        /\ \A g \in Futures \ {f} : reg'[g] = reg[g]
        /\ \A p \in (Futures \cup Adapters) \ {f} : waker'[p] = waker[p] /\ (p \in notified => p \in notified')
    BY <1>2, <1>3 DEF WaiterTypes
  <1>7. waiters = <<>> => waiters' = <<>>
    BY <1>3, EmptyFacts
  <1>8. OwnerCount \in [Wakers -> Nat]
    BY CountType
  <1>9. Open => /\ waiters' \in Seq(Entries) /\ EntriesExact(waiters', OwnerCount')
                /\ \A u : Holds(waiters', u) <=> Holds(waiters, u)
                /\ KeepsPersistent(waiters, waiters')
    <2> SUFFICES ASSUME Open
                 PROVE  /\ waiters' \in Seq(Entries) /\ EntriesExact(waiters', OwnerCount')
                        /\ \A u : Holds(waiters', u) <=> Holds(waiters, u)
                        /\ KeepsPersistent(waiters, waiters')
      OBVIOUS
    <2>1. waiters \in Seq(Entries) /\ EntriesExact(waiters, OwnerCount)
      BY DEF WaitInv, WaiterTypes, ListInv
    <2>2. \A w \in Wakers :
              OwnerCount'[w] = IF w = reg[f] THEN OwnerCount[w] - 1 ELSE OwnerCount[w]
      <3>1. \A w \in Wakers :
                OwnerCount'[w] = IF w = NoWaker /\ w # reg[f] THEN OwnerCount[w] + 1
                                 ELSE IF w = reg[f] /\ w # NoWaker THEN OwnerCount[w] - 1 ELSE OwnerCount[w]
        BY Zenon, <1>2, <1>3, CountMoves
      <3> QED
        BY <3>1, NoWakerAssumption
    <2>3. CASE reg[f] = NoWaker
      <3>1. EntriesExact(waiters, OwnerCount')
        BY <2>1, <2>2, <2>3, SameCounts, NoWakerAssumption
      <3> QED
        BY <1>3, <2>1, <2>3, <3>1 DEF KeepsPersistent
    <2>4. CASE reg[f] # NoWaker
      <3> DEFINE p == reg[f]
                 d == [OwnerCount EXCEPT ![p] = @ - 1]
      <3>1. p \in Wakers /\ waiters' = RemoveOwner(waiters, p)
        BY <1>2, <1>3, <2>4 DEF WaiterTypes
      <3>2. OwnerCount[p] > 0
        BY <3>1, CountPositive
      <3>3. \A w \in Wakers : OwnerCount'[w] = d[w]
        BY <1>8, <2>2
      <3> HIDE DEF p
      <3>4. /\ waiters' \in Seq(Entries) /\ EntriesExact(waiters', d)
            /\ \A u : Holds(waiters', u) <=> Holds(waiters, u)
            /\ KeepsPersistent(waiters, waiters')
        BY Zenon, <1>8, <2>1, <3>1, <3>2, RemoveOwnerFacts
      <3> HIDE DEF d
      <3>5. EntriesExact(waiters', OwnerCount')
        BY <3>3, <3>4, SameCounts
      <3> QED
        BY <3>4, <3>5
    <2> QED
      BY <2>3, <2>4
  <1>10. ~Open => waiters = <<>> /\ waiters' = <<>>
    BY <1>7 DEF WaitInv, ListInv
  <1>11. StepOf(f)
    BY <1>3, <1>4, <1>5, <1>6, <1>9, <1>10 DEF StepOf
  <1>12. ListInv'
    BY <1>3, <1>4, <1>7, <1>9, <1>10 DEF WaitInv, ListInv
  <1>13. ObserverOK(f)'
    BY <1>1, <1>5 DEF ObserverOK, PollOK
  <1>14. waiters' \in Seq(Entries)
    <2>1. <<>> \in Seq(Entries)
      OBVIOUS
    <2> QED
      BY ZenonT(60), <1>9, <1>10, <2>1
  <1>15. WaiterTypes'
    BY <1>2, <1>3, <1>6, <1>14 DEF WaiterTypes
  <1> QED
    BY <1>1, <1>11, <1>12, <1>13, <1>15, LockedStep

-----------------------------------------------------------------------------
(* Steps of the publisher *)

\* While the registry is in use, a pending future or adapter is in it.
LEMMA PendingRegistered ==
    ASSUME WaitInv, Open, NEW o \in Futures \cup Adapters, pc[o] = "pending"
    PROVE  View(waiters, waker[o]) # {}
  <1>1. o \in Observers
    BY DEF Observers
  <1>2. PollOK(o)
    BY <1>1 DEF WaitInv, ObserverOK
  <1>3. CASE o \in Futures
    <2>1. reg[o] = waker[o] /\ waker[o] \in Wakers
      BY <1>2, <1>3 DEF PollOK
    <2>2. OwnerCount[waker[o]] > 0
      BY <1>3, <2>1, CountPositive
    <2> QED
      BY <2>1, <2>2 DEF WaitInv, ListInv, EntriesExact
  <1>4. CASE o \in Adapters
    BY <1>2, <1>4 DEF PollOK
  <1> QED
    BY <1>3, <1>4

\* An element of a list is its head or in its tail.
LEMMA TailFacts ==
    ASSUME NEW S, NEW s \in Seq(S), s # <<>>
    PROVE  /\ Head(s) \in S /\ Tail(s) \in Seq(S)
           /\ \A e : (\E i \in DOMAIN s : s[i] = e) => e = Head(s) \/ \E i \in DOMAIN Tail(s) : Tail(s)[i] = e
  <1>1. Head(s) \in S /\ Tail(s) \in Seq(S) /\ Head(s) = s[1]
    OBVIOUS
  <1>2. \A i \in DOMAIN s : i = 1 \/ (i - 1 \in DOMAIN Tail(s) /\ Tail(s)[i - 1] = s[i])
    OBVIOUS
  <1> QED
    BY Zenon, <1>1, <1>2

\* Publishing hands the registry to complete, or finds that nobody waits.
LEMMA PublishWait ==
    ASSUME CellTypes, CellInv, WaitInv, Publish
    PROVE  WaitInv'
  <1>1. /\ pub = "publish" /\ ~Completed /\ Completed' /\ Open
        /\ pub' = IF "HAS_WAITER" \in bits THEN "drain" ELSE "leave"
        /\ UNCHANGED <<waiters, taken, pc, waker, reg, token, notified>>
        /\ "HAS_WAITER" \in bits' <=> "HAS_WAITER" \in bits
    BY DEF Publish, CellInv, Completed, Open, polling, wakes
  <1>2. WaiterTypes' /\ OwnerCount' = OwnerCount
    BY <1>1 DEF WaitInv, WaiterTypes, OwnerCount, Owners
  <1>3. CASE "HAS_WAITER" \in bits
    <2>1. pub' = "drain" /\ Open'
      BY <1>1, <1>3 DEF Open
    <2>2. ListInv'
      BY <1>1, <1>2, <1>3, <2>1 DEF WaitInv, ListInv
    <2>3. \A o \in Observers : ObserverOK(o)'
      BY Zenon, <1>1, <1>3, <2>1 DEF WaitInv, ObserverOK, ThreadOK, PollOK
    <2> QED
      BY <1>2, <2>2, <2>3 DEF WaitInv
  <1>4. CASE "HAS_WAITER" \notin bits
    <2>1. pub' = "leave" /\ ~Open' /\ waiters = <<>>
      BY <1>1, <1>4 DEF Open, WaitInv, ListInv
    <2>2. ListInv'
      BY <1>1, <2>1 DEF ListInv
    <2>3. \A t \in Threads : pc[t] \notin {"park", "deadline"}
      BY <1>1, <2>1 DEF WaitInv, ObserverOK, ThreadOK, Holds, Observers
    <2>4. \A w : View(waiters, w) = {}
      BY <2>1 DEF View, Registered
    <2>5. \A o \in Futures \cup Adapters : pc[o] # "pending"
      BY <1>1, <2>4, PendingRegistered
    <2>6. \A o \in Observers : ObserverOK(o)'
      BY Zenon, <1>1, <2>1, <2>3, <2>5 DEF WaitInv, ObserverOK, ThreadOK, PollOK, Holds
    <2> QED
      BY <1>2, <2>2, <2>6 DEF WaitInv
  <1> QED
    BY <1>3, <1>4

\* complete takes the registry.
LEMMA DrainWait ==
    ASSUME CellTypes, CellInv, WaitInv, Drain
    PROVE  WaitInv'
  <1>1. /\ pub = "drain" /\ Completed /\ Completed' /\ Open /\ ~Open' /\ pub' = "notify"
        /\ taken' = waiters /\ waiters' = <<>>
        /\ UNCHANGED <<bits, pc, waker, reg, token, notified>>
    BY DEF Drain, CellInv, Completed, Open, polling, wakes
  <1>2. WaiterTypes'
    BY <1>1 DEF WaitInv, WaiterTypes
  <1>3. ListInv'
    BY <1>1 DEF ListInv
  <1>4. \A t \in Threads : ThreadOK(t)'
    BY <1>1 DEF WaitInv, ObserverOK, ThreadOK, Holds, Observers
  <1>5. \A o \in Futures \cup Adapters : pc[o] = "pending" => View(taken', waker[o]) # {}
    BY ZenonT(60), <1>1, PendingRegistered
  <1>6. \A o \in Futures \cup Adapters : PollOK(o)'
    <2>1. \A o \in Futures \cup Adapters : PollOK(o)
      BY DEF WaitInv, ObserverOK, Observers
    <2> QED
      BY <1>1, <1>5, <2>1 DEF PollOK
  <1>7. \A o \in Observers : ObserverOK(o)'
    BY <1>1, <1>4, <1>6 DEF WaitInv, ObserverOK
  <1> QED
    BY <1>2, <1>3, <1>7 DEF WaitInv

\* The next waiter taken is notified.
LEMMA NotifyWait ==
    ASSUME CellTypes, CellInv, WaitInv, Notify
    PROVE  WaitInv'
  <1> DEFINE e == Head(taken)
  <1>1. /\ pub = "notify" /\ Completed /\ ~Open /\ taken # <<>> /\ taken' = Tail(taken)
        /\ UNCHANGED <<bits, pub, pc, waiters, waker, reg>> /\ Open' = Open /\ Completed' = Completed
    BY DEF Notify, CellInv, Completed, Open, slot, polling
  <1>2. /\ IsWaker(e) => token' = token
                         /\ notified' = IF e.waker \in Panicking THEN notified ELSE notified \cup Wake(e.waker)
        /\ ~IsWaker(e) => token' = token \cup {e.thread} /\ notified' = notified
    BY DEF Notify
  <1>3. taken \in Seq(Entries)
    BY DEF WaitInv, WaiterTypes
  <1>4. /\ e \in Entries /\ Tail(taken) \in Seq(Entries)
        /\ \A d : (\E i \in DOMAIN taken : taken[i] = d) => d = e \/ \E i \in DOMAIN Tail(taken) : Tail(taken)[i] = d
    BY <1>1, <1>3, TailFacts
  <1> HIDE DEF e
  <1>5. WaiterTypes' /\ ListInv'
    <2>1. OwnerCount' = OwnerCount
      BY <1>1 DEF OwnerCount, Owners
    <2> QED
      BY <1>1, <1>4, <2>1 DEF WaitInv, WaiterTypes, ListInv
  <1>6. \A t \in Threads : ThreadOK(t)'
    <2> SUFFICES ASSUME NEW t \in Threads PROVE ThreadOK(t)'
      OBVIOUS
    <2>1. ThreadOK(t)
      BY DEF WaitInv, ObserverOK, Observers
    <2>2. Holds(taken, t) => e = ThreadWaiter(t) \/ Holds(taken', t)
      BY Zenon, <1>1, <1>4 DEF Holds
    <2>3. e = ThreadWaiter(t) => t \in token'
      <3>1. ThreadWaiter(t).thread = t
        BY DEF ThreadWaiter
      <3> QED
        BY <1>2, <3>1, EntryFacts
    <2>4. t \in token => t \in token'
      BY <1>2
    <2> QED
      BY <1>1, <2>1, <2>2, <2>3, <2>4 DEF ThreadOK
  <1>7. \A o \in Futures \cup Adapters : PollOK(o)'
    <2> SUFFICES ASSUME NEW o \in Futures \cup Adapters PROVE PollOK(o)'
      OBVIOUS
    <2>1. PollOK(o)
      BY DEF WaitInv, ObserverOK, Observers
    <2>2. o \in notified => o \in notified'
      BY <1>2
    <2>3. ASSUME View(taken, waker[o]) # {}, waker[o] \notin Panicking
          PROVE  View(taken', waker[o]) # {} \/ o \in notified'
      <3>1. PICK d : d \in View(taken, waker[o])
        BY <2>3
      <3>2. (\E i \in DOMAIN taken : taken[i] = d) /\ IsWaker(d) /\ d.waker = waker[o]
        BY <3>1, ViewMember
      <3>3. CASE d = e
        BY <1>2, <2>3, <3>2, <3>3 DEF Wake
      <3>4. CASE d # e
        <4>1. \E i \in DOMAIN taken' : taken'[i] = d
          BY Zenon, <1>1, <1>4, <3>2, <3>4
        <4>2. d \in View(taken', waker[o])
          BY <3>2, <4>1, ViewMember
        <4> QED
          BY <4>2
      <3> QED
        BY <3>3, <3>4
    <2> QED
      BY <1>1, <2>1, <2>2, <2>3 DEF PollOK
  <1>8. \A o \in Observers : ObserverOK(o)'
    BY <1>1, <1>6, <1>7 DEF WaitInv, ObserverOK
  <1> QED
    BY <1>5, <1>8 DEF WaitInv

\* The steps at the ends of the publisher's life.
LEMMA PublisherEnds ==
    ASSUME CellTypes, CellInv, WaitInv, SetOutcome \/ Leave \/ DropPublisher
    PROVE  WaitInv'
  <1>1. UNCHANGED <<bits, waiters, taken, pc, waker, reg, token, notified>>
    BY DEF SetOutcome, Leave, DropPublisher, polling, wakes
  <1>2. WaiterTypes' /\ OwnerCount' = OwnerCount /\ Completed' = Completed
    BY <1>1 DEF WaitInv, WaiterTypes, OwnerCount, Owners, Completed
  <1>3. CASE SetOutcome \/ DropPublisher
    <2>1. pub = "held" /\ pub' \in {"publish", "gone"} /\ ~Completed /\ Open /\ Open'
      BY <1>2, <1>3 DEF SetOutcome, DropPublisher, CellInv, Open
    <2>2. ListInv'
      BY <1>1, <1>2, <2>1 DEF WaitInv, ListInv
    <2>3. \A o \in Observers : ObserverOK(o)'
      BY ZenonT(60), <1>1, <1>2, <2>1 DEF WaitInv, ObserverOK, ThreadOK, PollOK
    <2> QED
      BY <1>2, <2>2, <2>3 DEF WaitInv
  <1>4. CASE Leave
    <2>1. /\ pub \in {"leave", "notify"} /\ pub' = "gone" /\ Completed /\ ~Open /\ ~Open'
          /\ pub = "notify" => taken = <<>>
      BY <1>2, <1>4 DEF Leave, CellInv, Open
    <2>2. ListInv'
      BY <1>1, <2>1 DEF WaitInv, ListInv
    <2>3. pub = "notify" => (\A t : ~Holds(taken, t)) /\ (\A w : View(taken, w) = {})
      BY <2>1 DEF Holds, View, Registered
    <2>4. \A t \in Threads : ThreadOK(t)'
      BY <1>1, <2>1, <2>3 DEF WaitInv, ObserverOK, ThreadOK, Observers
    <2>5. \A o \in Futures \cup Adapters : PollOK(o)'
      BY Zenon, <1>1, <1>2, <2>1, <2>3 DEF WaitInv, ObserverOK, PollOK, Observers
    <2>6. \A o \in Observers : ObserverOK(o)'
      BY <1>1, <2>4, <2>5 DEF WaitInv, ObserverOK
    <2> QED
      BY <1>2, <2>2, <2>6 DEF WaitInv
  <1> QED
    BY <1>3, <1>4

-----------------------------------------------------------------------------
(* The theorem *)

\* Every step keeps the registry exact.
LEMMA NextWait ==
    ASSUME CellTypes, CellInv, WaitInv, [Next]_vars
    PROVE  WaitInv'
  <1>1. CASE UNCHANGED vars
    BY Zenon, <1>1 DEF vars, WaitInv, WaiterTypes, ListInv, Open, Completed, OwnerCount, Owners,
                ObserverOK, ThreadOK, PollOK
  <1>2. CASE SetOutcome \/ Completing \/ DropPublisher
    BY <1>2, PublisherEnds, PublishWait, DrainWait, NotifyWait DEF Completing
  <1>3. CASE \E t \in Threads :
                \/ ThreadCall(t) \/ UnparkSpuriously(t) \/ TryGet(t) \/ IntoOutcome(t) \/ Release(t)
                \/ \E deadline \in {"none", "running"} : Wait(t, deadline)
    BY <1>3, ThreadMoves, RegisterThreadWait DEF ThreadCall
  <1>4. CASE \E f \in Futures : FuturePoll(f) \/ DropFuture(f) \/ \E w \in Wakers : Poll(f, w)
    BY <1>4, FutureMoves, RegisterFutureWait, DropFutureWait DEF FuturePoll
  <1>5. CASE \E a \in Adapters : AdapterCall(a) \/ Release(a) \/ \E w \in Wakers : RegisterWaker(a, w)
    BY <1>5, AdapterMoves, RegisterAdapterWait, CountType DEF AdapterCall
  <1> QED
    BY <1>1, <1>2, <1>3, <1>4, <1>5 DEF Next

\* A new slot has an empty registry.
LEMMA InitWait == Init => WaitInv
  <1> SUFFICES ASSUME Init PROVE WaitInv
    OBVIOUS
  <1>1. \A o \in Observers : pc[o] \in {"idle", "gone"}
    BY DEF Init
  <1>2. WaiterTypes
    BY DEF Init, WaiterTypes
  <1>3. \A w \in Wakers : OwnerCount[w] = 0 /\ View(waiters, w) = {} /\ Single(waiters, w)
    <2> SUFFICES ASSUME NEW w \in Wakers
                 PROVE  OwnerCount[w] = 0 /\ View(waiters, w) = {} /\ Single(waiters, w)
      OBVIOUS
    <2>1. Owners(w) = {}
      BY NoWakerAssumption DEF Init, Owners
    <2>2. Registered(waiters, w) = {}
      BY DEF Init, Registered
    <2> QED
      BY <2>1, <2>2, FS_EmptySet DEF OwnerCount, View, Single
  <1>4. ListInv
    BY <1>3 DEF Init, ListInv, Open, Completed, EntriesExact
  <1>5. \A o \in Observers : ObserverOK(o)
    BY <1>1 DEF ObserverOK, ThreadOK, PollOK, Holds, Init
  <1> QED
    BY <1>2, <1>4, <1>5 DEF WaitInv

\* The invariant says what the waiters were promised.
LEMMA WaitFollows ==
    ASSUME CellTypes, CellInv, WaitInv
    PROVE  WaitersExact
  <1>1. NoLostWakeup
    <2> SUFFICES ASSUME Completed, pub = "gone" PROVE
                   /\ \A t \in Threads : pc[t] = "park" => t \in token
                   /\ \A o \in Futures \cup Adapters :
                        pc[o] = "pending" /\ waker[o] \notin Panicking => o \in notified
      BY DEF NoLostWakeup, Delivered
    <2>1. ~Open
      BY DEF Open
    <2>2. \A t \in Threads : pc[t] = "park" => t \in token
      BY <2>1 DEF WaitInv, ObserverOK, ThreadOK, Observers
    <2>3. \A o \in Futures \cup Adapters : pc[o] = "pending" /\ waker[o] \notin Panicking => o \in notified
      BY <2>1 DEF WaitInv, ObserverOK, PollOK, Observers
    <2> QED
      BY <2>2, <2>3
  <1>2. ASSUME ~Completed, NEW w \in Wakers
        PROVE  LET owners == Cardinality({f \in Futures : reg[f] = w}) IN
                 /\ Cardinality(Registered(waiters, w)) <= 1
                 /\ owners > 0 => Registered(waiters, w) # {}
                 /\ \A i \in Registered(waiters, w) :
                      /\ waiters[i].owners = owners
                      /\ owners > 0 \/ waiters[i].persistent
    <2>1. OwnerCount[w] = Cardinality({f \in Futures : reg[f] = w})
      BY DEF OwnerCount, Owners
    <2>2. /\ Single(waiters, w)
          /\ OwnerCount[w] > 0 => View(waiters, w) # {}
          /\ \A e \in View(waiters, w) : e.owners = OwnerCount[w] /\ (OwnerCount[w] > 0 \/ e.persistent)
      BY <1>2 DEF WaitInv, ListInv, Open, EntriesExact
    <2>3. Cardinality(Registered(waiters, w)) <= 1
      <3>1. CASE Registered(waiters, w) = {}
        BY <3>1, FS_EmptySet
      <3>2. CASE Registered(waiters, w) # {}
        <4>1. PICK i : i \in Registered(waiters, w)
          BY <3>2
        <4>2. \A j : j \in Registered(waiters, w) <=> j = i
          BY <2>2, <4>1 DEF Single
        <4>3. Registered(waiters, w) = {i}
          BY ONLY <4>2
        <4>4. Cardinality({i}) = 1
          BY FS_Singleton
        <4> QED
          BY <4>3, <4>4
      <3> QED
        BY <3>1, <3>2
    <2>4. OwnerCount[w] > 0 => Registered(waiters, w) # {}
      BY <2>2 DEF View
    <2>5. \A i \in Registered(waiters, w) : waiters[i] \in View(waiters, w)
      BY DEF View
    <2> QED
      BY <2>1, <2>2, <2>3, <2>4, <2>5
  <1>3. \A t \in Threads :
            (\E i \in DOMAIN waiters : waiters[i] = ThreadWaiter(t)) =>
                pc[t] \notin {"idle", "gone"} \/ pub = "drain"
    BY DEF WaitInv, ObserverOK, ThreadOK, Holds, Observers
  <1>4. Completed /\ pub # "drain" => waiters = <<>>
    BY DEF WaitInv, ListInv, Open
  <1>5. RegistryExact
    BY Zenon, <1>2, <1>3, <1>4 DEF RegistryExact
  <1> QED
    BY <1>1, <1>5 DEF WaitersExact

\* No wakeup is lost between registration and publication, and the registry holds exactly
\* those who wait, whatever threads, futures and adapters share the slot, with whatever
\* wakers, of which any may panic (Slot::complete, update_future_waker, register_waker,
\* wait, wait_timeout and the drops of observe/mod.rs).
THEOREM WaitersKept == SlotSpec => []WaitersExact
  <1>1. Init => CellTypes /\ CellInv /\ WaitInv
    BY InitCell, InitWait
  <1>2. CellTypes /\ CellInv /\ WaitInv /\ [Next]_vars => CellTypes' /\ CellInv' /\ WaitInv'
    BY NextCell, NextWait
  <1>3. CellTypes /\ CellInv /\ WaitInv => WaitersExact
    BY WaitFollows
  <1> QED
    BY <1>1, <1>2, <1>3, PTL DEF SlotSpec
=============================================================================
