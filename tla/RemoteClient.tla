---------------------------- MODULE RemoteClient ----------------------------
(***************************************************************************)
(* The outgoing boundary of one actor (remote/client.rs): serving takes    *)
(* the actor's messages from its source, gives each a row, and runs an     *)
(* operation that encodes, protects and frames it, waits for a route,      *)
(* issues one native Get, and delivers the verified replies to the actor   *)
(* that asked.  The native callback retains replies on another thread.     *)
(*                                                                         *)
(* Every operation runs inside the serving task: what it does between two  *)
(* awaits is one step.  The policies, providers, the network and the actor *)
(* are external, and each of their calls may fail as Faults says.          *)
(***************************************************************************)
EXTENDS Integers, Sequences, FiniteSets, Functions

CONSTANTS
    MaxMessages,            \* bound on what the actor sends out
    ConcurrentRequests, RetainedRequests, RetainedResponses,        \* ClientLimits
    MailboxCapacity,        \* of the actor the replies return to
    MaxReplies,             \* bound on the native replies to all Gets
    Faults                  \* the calls out of the client that may fail

ASSUME ClientLimitsPositive ==
    {ConcurrentRequests, RetainedRequests, RetainedResponses, MailboxCapacity} \subseteq Nat \ {0}

VARIABLES
    source,         \* the ExternalActor: [open, queue, eof]
    requests,       \* the rows, in the order of their acquisition
    querier,        \* "none", "declared", "withdrawn"
    visibility,     \* the first observed matching of a route: "None", "Ok", "Err"
    phase,          \* of serve, and of Node's withdrawal after it
    joined,         \* external: the application's cleanup was joined
    mailbox,        \* external: the actor's mailbox, [open, count]
    accepted,       \* history: how many messages the source accepted, each its number
    delivered,      \* history: the replies the actor's mailbox accepted
    gave            \* history: how many replies the network gave each row

clientVars == <<source, requests, querier, visibility, phase, joined, mailbox, accepted, delivered,
                gave>>

RowIds == 1 .. RetainedRequests

\* Request::new; `stage` is where its operation is suspended.
Request(m) ==
    [m |-> m, stage |-> "start", refusal |-> "None", encoded |-> "None", protected |-> "None",
     query |-> "Unattempted", callback |-> "none", queue |-> <<>>, refused |-> "None",
     discharged |-> 0, replies |-> <<>>, eof |-> FALSE, completed |-> FALSE]

\* Response::new: the original beside what is acquired about it.
Response(original) ==
    [original |-> original, shape |-> "None", verified |-> "None", decoded |-> "None",
     denied |-> FALSE, charge |-> "row"]

Pending(row) == row.stage \notin {"done", "dropped", "unstarted", "parts"}
Holding == {r \in DOMAIN requests :
              requests[r].stage \in {"protecting", "visible", "receiving", "verifying", "capacity"}}

\* The count charges of one Get: queued and acquired replies, and the native
\* errors handed over with theirs.
Charges(row) ==
    Len(row.queue) + Cardinality({i \in DOMAIN row.replies : row.replies[i].charge # "released"})

ClientInit ==
    /\ source = [open |-> TRUE, queue |-> <<>>, eof |-> FALSE]
    /\ requests = <<>>
    /\ querier = "none"
    /\ visibility = "None"
    /\ phase = "fresh"
    /\ joined = FALSE
    /\ mailbox = [open |-> TRUE, count |-> 0]
    /\ accepted = 0
    /\ delivered = <<>>
    /\ gave = [r \in RowIds |-> 0]

outside == <<joined, accepted>>

-----------------------------------------------------------------------------
(* Declaration, selection and acquisition *)

\* preflight: the reply target's endpoint and address; a target this
\* application did not establish refuses startup.
Preflight ==
    /\ phase = "fresh"
    /\ \/ phase' = "cold"
       \/ "preflight" \in Faults /\ phase' = "withdraw"
    /\ UNCHANGED <<source, requests, querier, visibility, mailbox, delivered, gave, outside>>

\* declare: limits and storage, the querier, then its matching listener; a
\* refused listener leaves the querier to Node's withdrawal.
Declare ==
    /\ phase = "cold"
    /\ \/ querier' = "declared" /\ phase' = "serving"
       \/ "declare" \in Faults /\ querier' = "none" /\ phase' = "withdraw"
       \/ "listener" \in Faults /\ querier' = "declared" /\ phase' = "withdraw"
    /\ UNCHANGED <<source, requests, visibility, mailbox, delivered, gave, outside>>

\* select: the declared origin, the current permission and the encoder may each
\* refuse the message; the encoder's None chooses no Get.
Select(m) ==
    {[Request(m) EXCEPT !.encoded = e] :
        e \in {"Some", "NoGet"} \cup (IF "select" \in Faults THEN {"Refused"} ELSE {})}

\* Reaching the row quota closes the source.
Taken == [source EXCEPT !.queue = Tail(@),
                        !.open = @ /\ Len(requests) + 1 < RetainedRequests]

Acquire ==
    /\ phase = "serving" /\ ~joined
    /\ source.queue # <<>> /\ Len(requests) < RetainedRequests
    /\ source' = Taken
    /\ \E row \in Select(Head(source.queue)) : requests' = Append(requests, row)
    /\ UNCHANGED <<querier, visibility, phase, mailbox, delivered, gave, outside>>

-----------------------------------------------------------------------------
(* The operation of a row *)

\* Operations are polled by the serving loop and, after the source's end, alone.
At(r, stage) ==
    /\ phase \in {"serving", "finishing"}
    /\ r \in DOMAIN requests /\ requests[r].stage = stage

Becomes(r, row) == requests' = [requests EXCEPT ![r] = row]
Suspend(r, row, stage) == Becomes(r, [row EXCEPT !.stage = stage])
Return(r, row) == Becomes(r, [row EXCEPT !.stage = "done", !.completed = TRUE])
OnlyRow == UNCHANGED <<source, querier, visibility, phase, mailbox, delivered, gave, outside>>

\* An operation without an encoded request returns; another waits for a permit.
Permit(r) ==
    /\ At(r, "start")
    /\ IF requests[r].encoded = "Some"
       THEN /\ Cardinality(Holding) < ConcurrentRequests
            /\ Suspend(r, requests[r], "protecting")
       ELSE Return(r, requests[r])
    /\ OnlyRow

\* What `provide` leaves behind when the provider ends.
Provided(kind) == {"Ok"} \cup (IF kind \in Faults THEN {"Err", "Panic"} ELSE {})

\* The proof is there: the framing is checked before the route is awaited.
Protected(r, out) ==
    /\ At(r, "protecting")
    /\ LET row == [requests[r] EXCEPT !.protected = out]
       IN  \/ out # "Ok" /\ Return(r, row)
           \/ out = "Ok" /\ "json" \in Faults /\ Return(r, [row EXCEPT !.refusal = "Json"])
           \/ out = "Ok" /\ Suspend(r, row, "visible")
    /\ OnlyRow

\* The shared computation over matching_status and the listener.
ObserveMatching ==
    /\ phase \in {"serving", "finishing"} /\ visibility = "None"
    /\ \E r \in DOMAIN requests : requests[r].stage = "visible"
    /\ visibility' \in {"Ok"} \cup (IF "matching" \in Faults THEN {"Err"} ELSE {})
    /\ UNCHANGED <<source, requests, querier, phase, mailbox, delivered, gave, outside>>

\* Fresh permission, the Get and its return in one step; a refused Get drops
\* the callback.
RequestGet(r) ==
    /\ At(r, "visible") /\ visibility # "None"
    /\ \/ visibility = "Err" /\ Return(r, requests[r])
       \/ /\ visibility = "Ok" /\ "select" \in Faults
          /\ Return(r, [requests[r] EXCEPT !.refusal = "Permission"])
       \/ /\ visibility = "Ok"
          /\ \E result \in {"Ok"} \cup (IF "get" \in Faults THEN {"Err"} ELSE {}) :
               Suspend(r, [requests[r] EXCEPT !.query = result,
                                              !.callback = IF result = "Ok" THEN "live" ELSE "gone"],
                       "receiving")
    /\ OnlyRow

\* One native reply is acquired with its charge; a native error, a missing proof
\* or a refused size or framing ends its handling.
Receive(r) ==
    /\ At(r, "receiving") /\ requests[r].queue # <<>>
    /\ LET original == Head(requests[r].queue)
           acquired(shape) ==
             [requests[r] EXCEPT !.queue = Tail(@),
                                 !.replies = Append(@, [Response(original) EXCEPT !.shape = shape])]
       IN  \/ original # "sample" /\ Suspend(r, acquired(original), "receiving")
           \/ /\ original = "sample" /\ "json" \in Faults
              /\ Suspend(r, acquired("Json"), "receiving")
           \/ original = "sample" /\ Suspend(r, acquired("Ok"), "verifying")
    /\ OnlyRow

\* The receiver's None: every callback owner is gone and the queue is empty.
Eof(r) ==
    /\ At(r, "receiving") /\ requests[r].queue = <<>> /\ requests[r].callback = "gone"
    /\ Return(r, [requests[r] EXCEPT !.eof = TRUE])
    /\ OnlyRow

Current(r) == Len(requests[r].replies)

\* Mutant: whatever the actor's mailbox returned is offered again.
EligibleAgain(response) == TRUE

\* Only an unattempted message or the exact Full enters try_send.
Eligible(response) == response.decoded \in {"Left", "Full"}

\* One turn of the delivery loop: fresh permission, then try_send_from; only
\* Full suspends, and everything else goes back to the next reply.
Offer(r, response) ==
    LET result == IF ~mailbox.open THEN "Closed"
                  ELSE IF mailbox.count < MailboxCapacity THEN "Ok" ELSE "Full"
        kept(new) == [requests[r] EXCEPT !.replies[Current(r)] = new]
    IN  \/ /\ "reply_permission" \in Faults
           /\ Suspend(r, kept([response EXCEPT !.denied = TRUE]), "receiving")
           /\ UNCHANGED <<mailbox, delivered>>
        \/ /\ Suspend(r, kept([response EXCEPT !.decoded = result]),
                      IF Eligible([response EXCEPT !.decoded = result]) THEN "capacity"
                      ELSE "receiving")
           /\ IF result = "Ok"
              THEN /\ mailbox' = [mailbox EXCEPT !.count = @ + 1]
                   /\ delivered' = Append(delivered, <<r, Current(r)>>)
              ELSE UNCHANGED <<mailbox, delivered>>

\* A verified reply is permitted and decoded, and then offered to the actor.
Verified(r, out) ==
    /\ At(r, "verifying")
    /\ LET response == [requests[r].replies[Current(r)] EXCEPT !.verified = out]
           kept(new) == [requests[r] EXCEPT !.replies[Current(r)] = new]
       IN  \/ /\ out # "Ok"
              /\ Suspend(r, kept(response), "receiving")
              /\ UNCHANGED <<mailbox, delivered>>
           \/ /\ out = "Ok" /\ "reply_permission" \in Faults
              /\ Suspend(r, kept([response EXCEPT !.denied = TRUE]), "receiving")
              /\ UNCHANGED <<mailbox, delivered>>
           \/ /\ out = "Ok" /\ "decode" \in Faults
              /\ Suspend(r, kept([response EXCEPT !.decoded = "Err"]), "receiving")
              /\ UNCHANGED <<mailbox, delivered>>
           \/ out = "Ok" /\ Offer(r, [response EXCEPT !.decoded = "Left"])
    /\ UNCHANGED <<source, querier, visibility, phase, gave, outside>>

\* The capacity wait, biased to joined; a closed mailbox is offered too.
Capacity(r) ==
    /\ At(r, "capacity")
    /\ \/ /\ joined
          /\ Suspend(r, requests[r], "receiving")
          /\ UNCHANGED <<mailbox, delivered>>
       \/ /\ ~joined /\ (mailbox.count < MailboxCapacity \/ ~mailbox.open)
          /\ Offer(r, requests[r].replies[Current(r)])
    /\ UNCHANGED <<source, querier, visibility, phase, gave, outside>>

-----------------------------------------------------------------------------
(* The native callback, on its own thread *)

\* Mutant: the callback is bounded by the channel alone.
RetainedFree(row, reply) ==
    IF Len(row.queue) < RetainedResponses THEN [row EXCEPT !.queue = Append(@, reply)]
    ELSE [row EXCEPT !.discharged = @ + 1]

\* The IngressError with its original: the first is kept, later ones dropped.
Refuse(row, reply) ==
    IF row.refused = "None" THEN [row EXCEPT !.refused = reply]
    ELSE [row EXCEPT !.discharged = @ + 1]

\* try_retain with its charge.
Retained(row, reply) ==
    IF Charges(row) < RetainedResponses THEN [row EXCEPT !.queue = Append(@, reply)]
    ELSE Refuse(row, reply)

Callback(r, reply) ==
    /\ r \in DOMAIN requests /\ requests[r].callback = "live" /\ SumFunction(gave) < MaxReplies
    /\ Becomes(r, Retained(requests[r], reply))
    /\ gave' = [gave EXCEPT ![r] = @ + 1]
    /\ UNCHANGED <<source, querier, visibility, phase, mailbox, delivered, outside>>

\* The network drops the callback: answered, timed out or withdrawn.
CallbackGone(r) ==
    /\ r \in DOMAIN requests /\ requests[r].callback = "live"
    /\ Becomes(r, [requests[r] EXCEPT !.callback = "gone"])
    /\ OnlyRow

-----------------------------------------------------------------------------
(* The end of serving, and Node's withdrawal *)

Dropped == [r \in DOMAIN requests |->
              IF Pending(requests[r]) THEN [requests[r] EXCEPT !.stage = "dropped"] ELSE requests[r]]

\* The source's own end: the loop only finishes its operations, each of which
\* joined cancels by itself.
SourceEof ==
    /\ phase = "serving" /\ ~joined
    /\ ~source.open /\ source.queue = <<>> /\ Len(requests) < RetainedRequests
    /\ source' = [source EXCEPT !.eof = TRUE]
    /\ phase' = "finishing"
    /\ UNCHANGED <<requests, querier, visibility, mailbox, delivered, gave, outside>>

\* Mutant: the wait for a route is not cancelled.
CancelLate(r) ==
    /\ phase = "finishing" /\ joined
    /\ r \in DOMAIN requests /\ Pending(requests[r]) /\ requests[r].stage # "visible"
    /\ Suspend(r, requests[r], "dropped")
    /\ OnlyRow

\* joined cancels the `provide` that owns an operation.
CancelOperation(r) ==
    /\ phase = "finishing" /\ joined
    /\ r \in DOMAIN requests /\ Pending(requests[r])
    /\ Suspend(r, requests[r], "dropped")
    /\ OnlyRow

\* joined: every operation is dropped and admission closed.
Join ==
    /\ joined
    /\ phase = "serving" \/ (phase = "finishing" /\ \A r \in DOMAIN requests : ~Pending(requests[r]))
    /\ requests' = Dropped
    /\ source' = [source EXCEPT !.open = FALSE]
    /\ phase' = "prefix"
    /\ UNCHANGED <<querier, visibility, mailbox, delivered, gave, outside>>

\* The accepted prefix is selected within the row quota, and nothing is started.
Prefix ==
    /\ phase = "prefix" /\ ~source.eof /\ Len(requests) < RetainedRequests
    /\ IF source.queue = <<>>
       THEN source' = [source EXCEPT !.eof = TRUE] /\ UNCHANGED requests
       ELSE /\ source' = Taken
            /\ \E row \in Select(Head(source.queue)) :
                 requests' = Append(requests, [row EXCEPT !.stage = "unstarted"])
    /\ UNCHANGED <<querier, visibility, phase, mailbox, delivered, gave, outside>>

\* A policy panics: in the operation, whose provider owner rethrows it once the
\* operation is disposed, or in select.  Node drops the serving task.
Escape(r) ==
    /\ "panic" \in Faults
    /\ \/ phase \in {"serving", "finishing"}
          /\ r \in DOMAIN requests /\ requests[r].stage \in {"visible", "verifying", "capacity"}
          /\ requests' = Dropped
          /\ UNCHANGED source
       \/ /\ r = Len(requests) + 1 /\ r \in RowIds
          /\ phase = "serving" \/ (phase = "prefix" /\ ~source.eof)
          /\ source.queue # <<>>
          /\ source' = Taken
          /\ requests' = Append(Dropped, [Request(Head(source.queue)) EXCEPT !.stage = "unstarted"])
    /\ phase' = "withdraw"
    /\ UNCHANGED <<querier, visibility, mailbox, delivered, gave, outside>>

\* retire: admission closed, the listener and the querier undeclared, in order.
RetireClient ==
    /\ \/ phase = "prefix" /\ (source.eof \/ Len(requests) = RetainedRequests)
       \/ phase = "withdraw"
    /\ source' = [source EXCEPT !.open = FALSE]
    /\ querier' = IF querier = "declared" THEN "withdrawn" ELSE querier
    /\ phase' = "retiring"
    /\ UNCHANGED <<requests, visibility, mailbox, delivered, gave, outside>>

Undrained(row) == row.query # "Unattempted" /\ ~row.eof

\* retire drains the rows in order, each to the end of its callback.
DrainRow(r) ==
    /\ phase = "retiring"
    /\ r \in DOMAIN requests /\ Undrained(requests[r])
    /\ \A s \in 1 .. r - 1 : ~Undrained(requests[s])
    /\ \/ /\ requests[r].queue # <<>>
          /\ Becomes(r, [requests[r] EXCEPT !.queue = Tail(@),
                                            !.replies = Append(@, Response(Head(requests[r].queue)))])
       \/ /\ requests[r].queue = <<>> /\ requests[r].callback = "gone"
          /\ Becomes(r, [requests[r] EXCEPT !.eof = TRUE])
    /\ OnlyRow

Retired ==
    /\ phase = "retiring" /\ \A r \in DOMAIN requests : ~Undrained(requests[r])
    /\ phase' = "ended"
    /\ UNCHANGED <<source, requests, querier, visibility, mailbox, delivered, gave, outside>>

-----------------------------------------------------------------------------
(* The terminal handoff to the owner *)

\* Request::into_parts: every fact of the row moves out, the refusal included.
RequestParts(row) == [row EXCEPT !.stage = "parts"]

\* Client::into_parts: the native owners are dropped, each row is unwrapped, and
\* an operation that still owns its row is the panic.
IntoParts ==
    /\ phase \in {"fresh", "ended"}
    /\ querier' = IF querier = "declared" THEN "dropped" ELSE querier
    /\ phase' = IF \E r \in DOMAIN requests : Pending(requests[r]) THEN "panicked" ELSE "taken"
    /\ requests' = [r \in DOMAIN requests |-> RequestParts(requests[r])]
    /\ UNCHANGED <<source, visibility, mailbox, delivered, gave, outside>>

\* Response::into_parts, a row's responses in turn: a sample goes before its
\* charge, an error takes its charge along.
Discharge(response) ==
    [response EXCEPT !.charge = IF response.original = "sample" THEN "released" ELSE "error"]

ResponseIntoParts(r) ==
    /\ phase = "taken" /\ r \in DOMAIN requests
    /\ \E i \in DOMAIN requests[r].replies :
         /\ requests[r].replies[i].charge = "row"
         /\ \A j \in 1 .. i - 1 : requests[r].replies[j].charge # "row"
         /\ Becomes(r, [requests[r] EXCEPT !.replies[i] = Discharge(@)])
    /\ OnlyRow

-----------------------------------------------------------------------------
(* The actor and its application, external *)

Send ==
    /\ source.open /\ accepted < MaxMessages
    /\ source' = [source EXCEPT !.queue = Append(@, accepted + 1)]
    /\ accepted' = accepted + 1
    /\ UNCHANGED <<requests, querier, visibility, phase, joined, mailbox, delivered, gave>>

\* The last sender of the source goes away.
CloseSource ==
    /\ source.open
    /\ source' = [source EXCEPT !.open = FALSE]
    /\ UNCHANGED <<requests, querier, visibility, phase, mailbox, delivered, gave, outside>>

TakeReply ==
    /\ mailbox.open /\ mailbox.count > 0
    /\ mailbox' = [mailbox EXCEPT !.count = @ - 1]
    /\ UNCHANGED <<source, requests, querier, visibility, phase, delivered, gave, outside>>

\* The actor retires, and its application's cleanup is joined.
End ==
    /\ ~joined
    /\ IF mailbox.open
       THEN mailbox' = [open |-> FALSE, count |-> 0] /\ UNCHANGED joined
       ELSE joined' = TRUE /\ UNCHANGED mailbox
    /\ UNCHANGED <<source, requests, querier, visibility, phase, accepted, delivered, gave>>

ServePoll ==
    \/ Acquire \/ SourceEof \/ Join \/ Prefix \/ RetireClient \/ Retired
    \/ \E r \in RowIds : Permit(r) \/ RequestGet(r) \/ Receive(r) \/ Eof(r) \/ Capacity(r) \/ CancelOperation(r)
                        \/ DrainRow(r)

Provides ==
    \/ \E r \in RowIds, out \in Provided("protection") : Protected(r, out)
    \/ \E r \in RowIds, out \in Provided("verification") : Verified(r, out)

Owner == IntoParts \/ \E r \in RowIds : ResponseIntoParts(r)

Originals == {"sample"} \cup (IF "reply" \in Faults THEN {"error"} ELSE {})

Native == ObserveMatching \/ \E r \in RowIds, reply \in Originals : Callback(r, reply)
NativeEnds == \E r \in RowIds : CallbackGone(r)
Host == CloseSource \/ TakeReply \/ End \/ Send
Escapes == \E r \in RowIds : Escape(r)

ClientNext ==
    Preflight \/ Declare \/ ServePoll \/ Owner \/ Provides \/ Native \/ NativeEnds \/ Host \/ Escapes

ClientSpec == ClientInit /\ [][ClientNext]_clientVars
\* The task that serves is polled, and the network drops every callback in the
\* end: its queries time out.
ClientFairness == WF_clientVars(ServePoll) /\ WF_clientVars(NativeEnds)

-----------------------------------------------------------------------------
(* Properties *)

\* No reply reaches the actor twice, however often its mailbox was full, and
\* what reaches it was verified and decoded in a row that issued a Get
\* (client.rs reply).
RepliesOnce ==
    /\ IsInjective(delivered)
    /\ \A i \in DOMAIN delivered :
         LET row == requests[delivered[i][1]]
             response == row.replies[delivered[i][2]]
         IN  row.query = "Ok" /\ response.verified = "Ok" /\ response.decoded = "Ok"

\* Nothing is lost or held in excess: the rows and the unread source are what
\* the source accepted, in order; active operations, rows and charged replies
\* stay within ClientLimits; each native reply is queued, acquired, the first
\* refusal or discharged; a row's end is recorded only when its callback is gone
\* and nothing is queued; and the terminal handoff finds no operation that still
\* owns its row, and gives no charge back while its native error lives.
ClientCustody ==
    /\ [r \in DOMAIN requests |-> requests[r].m] \o source.queue = [i \in 1 .. accepted |-> i]
    /\ Cardinality(Holding) <= ConcurrentRequests /\ Len(requests) <= RetainedRequests
    /\ \A r \in DOMAIN requests :
         LET row == requests[r]
         IN  /\ Charges(row) <= RetainedResponses
             /\ gave[r] = Len(row.queue) + Len(row.replies) + row.discharged + (IF row.refused = "None" THEN 0 ELSE 1)
             /\ row.eof => row.callback = "gone" /\ row.queue = <<>>
             /\ phase \in {"ended", "taken"} => (row.query # "Unattempted" <=> row.eof)
             /\ \A i \in DOMAIN row.replies :
                  row.replies[i].charge = "released" =>
                    row.replies[i].original = "sample" /\ row.eof
    /\ phase # "panicked"

\* Joining the application ends the client: no provider, route, reply or full
\* mailbox holds the serving task afterwards, once the network drops its callbacks.
ClientReturns == (joined /\ phase \notin {"fresh", "cold"}) ~> phase \in {"ended", "taken"}
=============================================================================
