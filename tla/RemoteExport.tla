---------------------------- MODULE RemoteExport ----------------------------
(***************************************************************************)
(* One actor exported to the network (remote/export/): the native callback *)
(* charges and queues queries, `serving` gives each accepted query a row,  *)
(* a row's request future verifies it, finds the canonical row of the same *)
(* request, admits one command to the target actor, waits for its result,  *)
(* encodes and protects it, and `publish` answers every query whose        *)
(* canonical row has completed.  Node withdraws the export at the end.     *)
(*                                                                         *)
(* All request futures run inside the serving task, so what a future does  *)
(* between two awaits is one step; the callback, the target actor and the  *)
(* end of the application are other threads.  Providers, policies and the  *)
(* target actor are external: each of their calls may fail as Faults says. *)
(***************************************************************************)
EXTENDS Integers, Sequences, FiniteSets, FiniteSetsExt, Functions

CONSTANTS
    Queries,            \* native Query objects
    Ident,              \* the receipt of each query, as same_request compares it
    Bytes,              \* its protected bytes
    Accepts,            \* the projections that accept its decoded input
    Declarations,       \* the declared operations in order: "reply", "submission", "stop"
    Controls,           \* whether the target's control observes its retirement: root or actor
    QueuedQueries, RetainedQueries, RetainedRequests, Diagnostics,      \* ExportLimits
    Discharging,        \* RefusalRetention::Discharge
    MailboxCapacity,    \* of the target actor
    Faults,             \* the calls out of the export that may fail
    Vacant,             \* an entry taken by discharge
    MaxDelivered        \* bound on the queries of a behaviour

ASSUME ExportLimitsPositive ==
    {QueuedQueries, RetainedQueries, RetainedRequests, Diagnostics, MailboxCapacity} \subseteq Nat \ {0}

VARIABLES
    queryable,          \* the native declaration: "none", "declared", "withdrawn"
    withdrawal,         \* whether the export retains the result of its withdrawal
    incoming,           \* the counted query receiver
    open,               \* whether that receiver still accepts
    ingress,            \* retained diagnostics
    entries,            \* the request rows
    phase,              \* of serving, and of Node's withdrawal after it
    mailbox,            \* external: commands admitted to the target, oldest first
    working,            \* external: rows whose command the target has taken
    inbox,              \* the reply endpoint of each row
    life,               \* external: the target and its application
    admitted,           \* history: how often a command of each request was admitted
    sent,               \* history: the replies published
    delivered           \* the queries the network has handed to the callback

exportVars == <<queryable, withdrawal, incoming, open, ingress, entries, phase, mailbox, working, inbox, life,
                admitted, sent>>
vars == <<exportVars, delivered>>

Rows == 1 .. RetainedRequests
Idents == {Ident[q] : q \in Queries}
Occupied == {r \in DOMAIN entries : entries[r] # Vacant}

Stages == {"start", "verification", "full", "receive", "protection", "done", "dropped"}
Refusals == {"Json", "RequestPermission", "ReplyPermission", "Conflict", "Decoded", "Endpoint", "StopAuthority"}

\* The custody of a request.
Custody ==
    [q : Queries, stage : Stages, verified : {"None", "Ok", "Err"},
     panic : {"None", "verification", "protection"}, identity : 0 .. RetainedRequests,
     construction : {"None", "Left", "Right"}, admission : {"Unattempted", "Ok", "Full", "Closed"},
     received : {"None", "reply", "eof", "report"}, encoding : {"None", "Ok", "Err"},
     protection : {"None", "Ok", "Err"}, completed : BOOLEAN, query : BOOLEAN,
     refusal : {"None"} \cup Refusals, tail : Nat]

ASSUME VacantAssumption == Vacant \notin Custody

\* Custody of a new request; identity 0 is Unassigned, the row's own position
\* Canonical, and another position Duplicate.
Request(q) ==
    [q |-> q, stage |-> "start", verified |-> "None", panic |-> "None", identity |-> 0,
     construction |-> "None", admission |-> "Unattempted", received |-> "None",
     encoding |-> "None", protection |-> "None", completed |-> FALSE, query |-> TRUE,
     refusal |-> "None", tail |-> 0]

Canonical(e, r) == e[r] # Vacant /\ e[r].identity = r
Pending(row) == row.stage \notin {"done", "dropped"}

\* try_into_parts gives the row back while a producer lease survives.
SoleOwner(row) == ~Pending(row)

\* select over the declared pairs: the first projection that accepts the input.
Selected(q) == SelectSeq(Declarations, LAMBDA op : op \in Accepts[q])
Op(q) == Head(Selected(q))

\* The retirement a control can observe; the recipient of a child that is not
\* the root comes without one.
Retirement == life.control /\ life.retired

\* Queries whose count permit is out.
Charged(queue, e) ==
    Range(queue) \cup {e[r].q : r \in {i \in DOMAIN e : e[i] # Vacant /\ e[i].query}}

ExportInit ==
    /\ queryable = "none"
    /\ withdrawal = FALSE
    /\ incoming = <<>>
    /\ open = FALSE
    /\ ingress = <<>>
    /\ entries = <<>>
    /\ phase = "cold"
    /\ mailbox = <<>>
    /\ working = {}
    /\ inbox = [r \in Rows |-> [open |-> FALSE, replies |-> 0]]
    /\ \E control \in Controls : life = [control |-> control, retired |-> FALSE, ended |-> FALSE, joined |-> FALSE]
    /\ admitted = [i \in Idents |-> 0]
    /\ sent = <<>>

target == <<mailbox, working, inbox, life, admitted>>
native == <<queryable, withdrawal, incoming, open, ingress>>

-----------------------------------------------------------------------------
(* Declaration and native ingress *)

\* declare: the limits and the storage are checked before the native call.
Declare ==
    /\ phase = "cold"
    /\ \/ /\ queryable' = "declared"
          /\ open' = TRUE
          /\ phase' = "serving"
       \/ /\ "declare" \in Faults
          /\ phase' = "withdraw"
          /\ UNCHANGED <<queryable, open>>
    /\ UNCHANGED <<withdrawal, incoming, ingress, entries, target, sent>>

\* retain_diagnostic.
Diagnosed(cause) == IF Len(ingress) < Diagnostics THEN Append(ingress, cause) ELSE ingress

\* Mutant: the callback queues without acquiring a permit.
RetainUncharged(q) ==
    IF open /\ Len(incoming) < QueuedQueries
    THEN incoming' = Append(incoming, q) /\ UNCHANGED ingress
    ELSE UNCHANGED incoming /\ ingress' = Diagnosed("IngressFull")

\* try_retain in the native callback: a permit first, then a place in the channel.
Retain(q) ==
    IF Cardinality(Charged(incoming, entries)) >= RetainedQueries
    THEN UNCHANGED incoming /\ ingress' = Diagnosed("IngressCapacity")
    ELSE IF ~open
    THEN UNCHANGED incoming /\ ingress' = Diagnosed("IngressClosed")
    ELSE IF Len(incoming) = QueuedQueries
    THEN UNCHANGED incoming /\ ingress' = Diagnosed("IngressFull")
    ELSE incoming' = Append(incoming, q) /\ UNCHANGED ingress

\* The native callback of the declared queryable.
Callback(q) ==
    /\ queryable = "declared"
    /\ Retain(q)
    /\ UNCHANGED <<queryable, withdrawal, open, entries, phase, target, sent>>

-----------------------------------------------------------------------------
(* Publication *)

\* The rows publish reaches a decision for: completed, still holding their
\* query, and unassigned or bound to a completed canonical row.
Publishable(e, r) ==
    /\ e[r] # Vacant /\ e[r].completed /\ e[r].query
    /\ e[r].identity # 0 => e[e[r].identity].completed

\* The custody a row is answered from has a verified receipt, an encoding and
\* a proof, and no protection panic.
Answerable(e, r) ==
    LET o == e[r].identity
    IN  /\ o # 0
        /\ e[o].panic # "protection" /\ e[o].verified = "Ok"
        /\ e[o].encoding = "Ok" /\ e[o].protection = "Ok"

\* The rows of the set S in storage order: the i-th has i rows of S up to itself.
InOrder(S) ==
    [i \in 1 .. Cardinality(S) |-> CHOOSE r \in S : Cardinality({k \in S : k <= r}) = i]

\* discharge: completed refusals without a key or a panic give up their row.
Discharge(e) ==
    [r \in DOMAIN e |->
        IF /\ Discharging /\ e[r] # Vacant /\ e[r].completed /\ ~e[r].query
           /\ e[r].identity = 0 /\ e[r].panic = "None" /\ SoleOwner(e[r])
        THEN Vacant ELSE e[r]]

\* publish: drops every decided query, after one reply if it has an answer and
\* current_reply grants it; then discharge, in the serving loop only.
Publish(e) ==
    LET ready == {r \in DOMAIN e : Publishable(e, r)}
        answered == {r \in ready : Answerable(e, r)}
    IN  \E denied \in SUBSET (IF "reply_permission" \in Faults THEN answered ELSE {}) :
          LET replies == InOrder(answered \ denied)
              published == [r \in DOMAIN e |->
                    IF r \notin ready THEN e[r]
                    ELSE [e[r] EXCEPT !.query = FALSE,
                                      !.refusal = IF r \in denied THEN "ReplyPermission" ELSE @]]
          IN  /\ sent' = sent \o [i \in DOMAIN replies |->
                    [q |-> e[replies[i]].q, from |-> e[replies[i]].identity,
                     origin |-> e[e[replies[i]].identity].q]]
              /\ entries' = IF phase = "serving" THEN Discharge(published) ELSE published

\* A request future returns: its row completes, and the loop that polled it
\* publishes before it polls anything else.
Return(r, row) ==
    Publish([entries EXCEPT ![r] = [row EXCEPT !.stage = "done", !.completed = TRUE]])

Await(r, row, stage) ==
    /\ entries' = [entries EXCEPT ![r] = [row EXCEPT !.stage = stage]]
    /\ UNCHANGED sent

-----------------------------------------------------------------------------
(* The request future *)

\* The request futures are polled by the serving loop and by the loop after it.
Polled == phase \in {"serving", "draining"}
At(r, stage) == Polled /\ r \in Occupied /\ entries[r].stage = stage

\* What `provide` leaves behind when the provider ends: its result, or a panic of
\* its construction, a poll or its disposal.
Provided(kind) ==
    {[result |-> "Ok", panic |-> "None"]}
        \cup IF kind \in Faults
             THEN {[result |-> "Err", panic |-> "None"], [result |-> "None", panic |-> kind],
                   [result |-> "Ok", panic |-> kind]}
             ELSE {}

\* request, to its first await: the protected framing is checked.
Start(r) ==
    /\ At(r, "start")
    /\ \/ "json" \in Faults /\ Return(r, [entries[r] EXCEPT !.refusal = "Json"])
       \/ Await(r, entries[r], "verification")
    /\ UNCHANGED <<native, phase, target>>

\* encode of the selected declaration: a reply needs one, an acknowledgement or
\* a stop encodes whatever its attempt returned.
Encodable(row) == Op(row.q) = "reply" => row.received = "reply"

\* request, from the received native result to the protection of its encoding.
Encode(r, row) ==
    \/ "reply_permission" \in Faults /\ Return(r, [row EXCEPT !.refusal = "ReplyPermission"])
    \/ ~Encodable(row) /\ Return(r, row)
    \/ "encode" \in Faults /\ Encodable(row) /\ Return(r, [row EXCEPT !.encoding = "Err"])
    \/ Encodable(row) /\ Await(r, [row EXCEPT !.encoding = "Ok"], "protection")

\* try_send at the target.
Admission ==
    IF life.retired THEN "Closed" ELSE IF Len(mailbox) < MailboxCapacity THEN "Ok" ELSE "Full"

\* The attempt closure of a reply or a submission sends the constructed command,
\* or the one that Full returned; Full waits, and only a reply is received.
AttemptCommand(r, row) ==
    LET made == [row EXCEPT !.construction = "None", !.admission = Admission]
    IN  /\ IF Admission = "Ok"
           THEN /\ mailbox' = Append(mailbox, r)
                /\ admitted' = [admitted EXCEPT ![Ident[row.q]] = @ + 1]
           ELSE UNCHANGED <<mailbox, admitted>>
        /\ IF Admission = "Full" THEN Await(r, made, "full")
           ELSE IF Admission = "Ok" /\ Op(row.q) = "reply" THEN Await(r, made, "receive")
           ELSE Encode(r, made)

\* The attempt closure of a stop requests the shutdown; the retirement is
\* awaited whatever that returned.
AttemptStop(r, row) ==
    LET result == IF life.retired THEN "Closed" ELSE "Ok"
    IN  /\ admitted' = [admitted EXCEPT ![Ident[row.q]] = IF result = "Ok" THEN @ + 1 ELSE @]
        /\ Await(r, [row EXCEPT !.admission = result], "receive")
        /\ UNCHANGED mailbox

\* Mutant: no canonical row is looked for.
CanonicalNever(q) == {}

\* The canonical rows of the request that q repeats.
CanonicalOf(q) ==
    {k \in Occupied : Canonical(entries, k) /\ Ident[entries[k].q] = Ident[q]}

\* A request with a canonical row: a conflict, or a duplicate if current_reply
\* still grants the cached reply.
Replay(r, row) ==
    LET k == Min(CanonicalOf(row.q))
    IN  IF Bytes[entries[k].q] # Bytes[row.q]
        THEN Return(r, [row EXCEPT !.refusal = "Conflict"])
        ELSE \/ /\ "reply_permission" \in Faults
                /\ Return(r, [row EXCEPT !.refusal = "ReplyPermission"])
             \/ Return(r, [row EXCEPT !.identity = k])

\* A first request refused before anything was constructed: by the decoder, by
\* every projection, by the target's interface or for want of a control.
Refused(r, row) ==
    \/ /\ "decode" \in Faults \/ Selected(row.q) = <<>>
       /\ Return(r, [row EXCEPT !.refusal = "Decoded"])
    \/ /\ Selected(row.q) # <<>> /\ Op(row.q) # "stop"
       /\ "endpoint" \in Faults
       /\ Return(r, [row EXCEPT !.construction = "Left", !.refusal = "Endpoint"])
    \/ /\ Selected(row.q) # <<>> /\ Op(row.q) = "stop" /\ ~life.control
       /\ Return(r, [row EXCEPT !.refusal = "StopAuthority"])

\* A first request: a command is constructed, which makes its row canonical,
\* before the second permission; a stop becomes canonical in its attempt.
Execute(r, row) ==
    LET stop == Op(row.q) = "stop"
        constructed == [row EXCEPT !.construction = "Right", !.identity = r]
    IN  /\ Selected(row.q) # <<>>
        /\ stop => life.control
        /\ \/ /\ "request_permission" \in Faults
              /\ Return(r, [(IF stop THEN row ELSE constructed)
                                EXCEPT !.refusal = "RequestPermission"])
              /\ UNCHANGED <<mailbox, admitted>>
           \/ /\ stop
              /\ AttemptStop(r, [row EXCEPT !.identity = r])
           \/ /\ ~stop
              /\ AttemptCommand(r, constructed)
        /\ inbox' = [inbox EXCEPT ![r].open = Op(row.q) = "reply"]
        /\ UNCHANGED <<working, life>>

\* request after a verified receipt, up to the next await.
Select(r, row) ==
    \/ /\ "request_permission" \in Faults
       /\ Return(r, [row EXCEPT !.refusal = "RequestPermission"])
       /\ UNCHANGED target
    \/ CanonicalOf(row.q) # {} /\ Replay(r, row) /\ UNCHANGED target
    \/ CanonicalOf(row.q) = {} /\ Refused(r, row) /\ UNCHANGED target
    \/ CanonicalOf(row.q) = {} /\ Execute(r, row)

\* The verification ends.
Verified(r, out) ==
    /\ At(r, "verification")
    /\ LET row == [entries[r] EXCEPT !.verified = out.result, !.panic = out.panic]
       IN  IF out = [result |-> "Ok", panic |-> "None"] THEN Select(r, row)
           ELSE Return(r, row) /\ UNCHANGED target
    /\ UNCHANGED <<native, phase>>

\* A request calls the caller's policies, decoder and encoder between its awaits:
\* their panic unwinds through the serving task to Node, which drops the task with
\* its queue, the withdrawal it holds in a local and every request future.
Dropped(e) ==
    [r \in DOMAIN e |->
        IF e[r] # Vacant /\ Pending(e[r]) THEN [e[r] EXCEPT !.stage = "dropped"] ELSE e[r]]

Escape(r) ==
    /\ "panic" \in Faults
    /\ Polled /\ r \in Occupied /\ entries[r].stage \in {"verification", "full", "receive"}
    /\ phase' = "withdraw"
    /\ incoming' = <<>>
    /\ open' = FALSE
    /\ entries' = Dropped([entries EXCEPT ![r].verified = "Ok"])
    /\ UNCHANGED <<queryable, withdrawal, ingress, target, sent>>

\* The capacity wait, biased: retirement and the application's end win; capacity
\* and closing both lead to fresh permission and another attempt.
Full(r) ==
    /\ At(r, "full")
    /\ IF Retirement \/ life.ended
       THEN Return(r, entries[r]) /\ UNCHANGED <<mailbox, admitted>>
       ELSE /\ Len(mailbox) < MailboxCapacity \/ life.retired
            /\ \/ /\ "request_permission" \in Faults
                  /\ Return(r, [entries[r] EXCEPT !.refusal = "RequestPermission"])
                  /\ UNCHANGED <<mailbox, admitted>>
               \/ AttemptCommand(r, entries[r])
    /\ UNCHANGED <<native, phase, working, inbox, life>>

\* receive of a reply: a reply first, then retirement or the application's end,
\* which close the endpoint and take what it still holds.
ReceiveReply(r) ==
    /\ At(r, "receive") /\ Op(entries[r].q) = "reply"
    /\ \/ /\ inbox[r].replies > 0
          /\ inbox' = [inbox EXCEPT ![r].replies = @ - 1]
          /\ Encode(r, [entries[r] EXCEPT !.received = "reply"])
       \/ /\ inbox[r].replies = 0
          /\ Retirement \/ life.ended
          /\ inbox' = [inbox EXCEPT ![r].open = FALSE]
          /\ Encode(r, [entries[r] EXCEPT !.received = "eof"])
    /\ UNCHANGED <<native, phase, mailbox, working, life, admitted>>

\* receive of a stop: the retirement report.
ReceiveStop(r) ==
    /\ At(r, "receive") /\ Op(entries[r].q) = "stop"
    /\ Retirement
    /\ Encode(r, [entries[r] EXCEPT !.received = "report"])
    /\ UNCHANGED <<native, phase, target>>

\* The protection ends, and with it the request.
Protected(r, out) ==
    /\ At(r, "protection")
    /\ Return(r, [entries[r] EXCEPT !.protection = out.result,
                                    !.panic = IF out.panic = "None" THEN @ ELSE out.panic])
    /\ UNCHANGED <<native, phase, target>>

\* Mutant: nothing but its provider ends a protection.
CancelVerification(r) ==
    /\ life.joined
    /\ At(r, "verification")
    /\ Return(r, entries[r])
    /\ UNCHANGED <<native, phase, target>>

\* joined ends a pending `provide` without a result, and the request with it.
Cancel(r) ==
    /\ life.joined
    /\ At(r, "verification") \/ At(r, "protection")
    /\ Return(r, entries[r])
    /\ UNCHANGED <<native, phase, target>>

-----------------------------------------------------------------------------
(* serving, and Node's withdrawal *)

\* serving takes one query when nothing joined and no future has returned.
Accept ==
    /\ phase = "serving" /\ ~life.joined
    /\ incoming # <<>>
    /\ incoming' = Tail(incoming)
    /\ LET vacancies == {r \in DOMAIN entries : entries[r] = Vacant}
           q == Head(incoming)
       IN  \/ /\ vacancies = {} /\ Len(entries) = RetainedRequests
              /\ ingress' = Diagnosed("RetentionCapacity")
              /\ UNCHANGED entries
           \/ /\ vacancies # {} \/ Len(entries) < RetainedRequests
              /\ "json" \in Faults
              /\ ingress' = Diagnosed("Json")
              /\ UNCHANGED entries
           \/ /\ vacancies # {} \/ Len(entries) < RetainedRequests
              /\ entries' = IF vacancies # {} THEN [entries EXCEPT ![Min(vacancies)] = Request(q)]
                            ELSE Append(entries, Request(q))
              /\ UNCHANGED ingress
    /\ UNCHANGED <<queryable, withdrawal, open, phase, target, sent>>

\* joined wins the biased select: serving starts the undeclaration.
Join ==
    /\ phase = "serving" /\ life.joined
    /\ phase' = "undeclaring"
    /\ UNCHANGED <<native, entries, target, sent>>

\* The undeclaration returned: the queue is closed and its queries disposed.
Undeclared ==
    /\ phase = "undeclaring"
    /\ phase' = "draining"
    /\ queryable' = "withdrawn"
    /\ open' = FALSE
    /\ incoming' = <<>>
    /\ UNCHANGED <<withdrawal, ingress, entries, target, sent>>

\* drain: disposes the remaining queries, closes every reply endpoint that was
\* made and has not delivered its end, and retains what it still holds.
Drained(e) ==
    [r \in DOMAIN e |->
        IF e[r] = Vacant THEN Vacant
        ELSE [e[r] EXCEPT !.query = FALSE,
                          !.tail = IF e[r].received = "eof" THEN 0 ELSE inbox[r].replies]]

\* The last future returned, or Node withdraws after the serving task was dropped.
Finish ==
    /\ \/ phase = "draining" /\ \A r \in Occupied : ~Pending(entries[r])
       \/ phase = "withdraw"
    /\ phase' = "ended"
    /\ queryable' = IF queryable = "declared" THEN "withdrawn" ELSE queryable
    \* serving keeps the result in a local until its futures are gone
    /\ withdrawal' = (phase = "draining" \/ queryable = "declared")
    /\ entries' = Drained(entries)
    /\ inbox' = [r \in Rows |-> [open |-> FALSE, replies |-> 0]]
    /\ UNCHANGED <<incoming, open, ingress, mailbox, working, life, admitted, sent>>

-----------------------------------------------------------------------------
(* The target actor and its application, external *)

\* The actor takes a command, and may answer it now or later.
Take ==
    /\ mailbox # <<>> /\ ~life.retired
    /\ mailbox' = Tail(mailbox)
    /\ working' = working \cup {Head(mailbox)}
    /\ UNCHANGED <<native, entries, phase, inbox, life, admitted, sent>>

Answer(r) ==
    /\ r \in working /\ inbox[r].open
    /\ inbox' = [inbox EXCEPT ![r].replies = @ + 1]
    /\ working' = working \ {r}
    /\ UNCHANGED <<native, entries, phase, mailbox, life, admitted, sent>>

\* The actor retires, by itself or because it was stopped.
Retire ==
    /\ ~life.retired
    /\ life' = [life EXCEPT !.retired = TRUE]
    /\ mailbox' = <<>>
    /\ UNCHANGED <<native, entries, phase, working, inbox, admitted, sent>>

\* The application's root retires, and then its cleanup is joined.
End ==
    /\ life.retired /\ ~life.joined
    /\ life' = IF life.ended THEN [life EXCEPT !.joined = TRUE] ELSE [life EXCEPT !.ended = TRUE]
    /\ UNCHANGED <<native, entries, phase, mailbox, working, inbox, admitted, sent>>

Poll ==
    \/ Accept \/ Join \/ Undeclared \/ Finish
    \/ \E r \in Rows : Cancel(r) \/ Start(r) \/ Full(r) \/ ReceiveReply(r) \/ ReceiveStop(r)

Provides ==
    \/ \E r \in Rows, out \in Provided("verification") : Verified(r, out)
    \/ \E r \in Rows, out \in Provided("protection") : Protected(r, out)

Host == Take \/ Retire \/ End \/ \E r \in Rows : Answer(r)
Escapes == \E r \in Rows : Escape(r)

\* The network hands each native Query to the callback once.
Deliver(q) ==
    /\ q \notin delivered /\ Cardinality(delivered) < MaxDelivered
    /\ Callback(q)
    /\ delivered' = delivered \cup {q}

Init == ExportInit /\ delivered = {}

Next ==
    \/ \E q \in Queries : Deliver(q)
    \/ (Declare \/ Poll \/ Provides \/ Host \/ Escapes) /\ UNCHANGED delivered

Spec == Init /\ [][Next]_vars
\* The serving task is polled whenever it can move; providers and the target may stop.
FairSpec == Spec /\ WF_vars(Poll /\ UNCHANGED delivered)

-----------------------------------------------------------------------------
(* Properties *)

\* However often a request is repeated, concurrently or after it was answered,
\* at most one command of it is ever admitted to the target: the canonical row
\* is found and set without an await, survives discharge, and retries only the
\* message of an exact native Full (query.rs request, discharge; declaration.rs
\* prepare_attempt).  A key always names an occupied canonical row of the same request with the
\* same bytes, whatever discharge vacated and serving reused in between, so
\* every reply published for a query was made by the one execution of its own
\* request, and is published after that execution completed.
OneExecution ==
    /\ \A i \in Idents : admitted[i] <= 1
    /\ \A r \in Occupied :
         LET k == entries[r].identity
         IN  k # 0 => /\ k \in Occupied /\ Canonical(entries, k)
                      /\ Ident[entries[k].q] = Ident[entries[r].q]
                      /\ Bytes[entries[k].q] = Bytes[entries[r].q]
    /\ \A i \in DOMAIN sent :
         /\ Ident[sent[i].origin] = Ident[sent[i].q] /\ Bytes[sent[i].origin] = Bytes[sent[i].q]
         /\ sent[i].from \in Occupied
         /\ entries[sent[i].from].q = sent[i].origin /\ entries[sent[i].from].completed

\* Query custody: no more queries are charged than retained_queries, none is
\* both queued and owned by a row or owned twice, none is answered twice, and
\* none is left once the export has ended.
QueryCustody ==
    /\ Cardinality(Charged(incoming, entries)) <= RetainedQueries
    /\ \A r, s \in Occupied : entries[r].query /\ entries[s].query /\ entries[r].q = entries[s].q => r = s
    /\ \A r \in Occupied : entries[r].query => entries[r].q \notin Range(incoming)
    /\ \A i, j \in DOMAIN sent : sent[i].q = sent[j].q => i = j
    /\ phase = "ended" => Charged(incoming, entries) = {}

\* Joining the application ends the export: no provider, capacity wait, reply
\* wait or withdrawal can hold the serving task, and so Node, afterwards.
ServeReturns == (life.joined /\ phase # "cold") ~> phase = "ended"

\* static-remote-actors.md:38762 asks recovery from a decoder fault to "preserve
\* withdrawal when already acquired": once the native declaration is withdrawn,
\* the ended export retains the result.
WithdrawalPreserved == phase = "ended" /\ queryable = "withdrawn" => withdrawal
=============================================================================
