--------------------------- MODULE ProtectedJson ---------------------------
(***************************************************************************)
(* The protected JSON profile (remote/json.rs check): sizes, then one pass *)
(* over the native parser's events that checks token sizes, nesting and    *)
(* the value of every top-level `bombay` key, and stops at the first       *)
(* refusal or at the native end.                                           *)
(*                                                                         *)
(* The parser is external: it offers the events of well-formed JSON, or a  *)
(* syntax error or no event at any place.                                  *)
(***************************************************************************)
EXTENDS Integers, Sequences, FiniteSets

CONSTANTS MaxEvents,    \* bound on the events of one message
          Nesting       \* Limits::nesting; a token is large against token_bytes

ASSUME NestingPositive == Nesting \in Nat \ {0}

VARIABLES
    sizes,      \* the set of buffers over their byte limit
    parser,     \* external: the open containers, and whether a key awaits its value
    events,     \* history: the events next_event returned
    depth,      \* check's count of open containers
    expects,    \* the call of next_event that is due: "first", "event", "metadata"
    verdict     \* "None" while check runs

jsonVars == <<sizes, parser, events, depth, expects, verdict>>

Starts == {"StartObject", "StartArray"}
EndOf(container) == IF container = "StartObject" THEN "EndObject" ELSE "EndArray"

\* Keys, strings and numbers are tokens with a size; a key may be `bombay`.
Event(kind, large, bombay) == [kind |-> kind, large |-> large, bombay |-> bombay]
Events ==
    {Event(kind, FALSE, FALSE) : kind \in Starts \cup {"EndObject", "EndArray", "Literal", "Eof"}}
    \cup {Event("Token", large, FALSE) : large \in BOOLEAN}
    \cup {Event("ObjectKey", large, bombay) : large, bombay \in BOOLEAN}

JsonInit ==
    /\ sizes \in SUBSET {"InputBytes", "ProofBytes"}
    /\ parser = [open |-> <<>>, key |-> FALSE]
    /\ events = <<>> /\ depth = 0 /\ expects = "first" /\ verdict = "None"

-----------------------------------------------------------------------------
(* The native parser *)

Innermost == parser.open[Len(parser.open)]
Value == Starts \cup {"Token", "Literal"}

Grammar ==
    IF parser.key \/ events = <<>> THEN Value
    ELSE IF parser.open = <<>> THEN {"Eof"}
    ELSE {EndOf(Innermost)} \cup (IF Innermost = "StartObject" THEN {"ObjectKey"} ELSE Value)

Parsed(kind) ==
    [open |-> IF kind \in Starts THEN Append(parser.open, kind)
              ELSE IF kind \in {"EndObject", "EndArray"}
              THEN SubSeq(parser.open, 1, Len(parser.open) - 1) ELSE parser.open,
     key |-> kind = "ObjectKey"]

-----------------------------------------------------------------------------
(* check *)

\* The two byte limits precede the parser, the input's first.
CheckSizes ==
    /\ verdict = "None" /\ events = <<>> /\ sizes # {}
    /\ verdict' = IF "InputBytes" \in sizes THEN "InputBytes" ELSE "ProofBytes"
    /\ UNCHANGED <<sizes, parser, events, depth, expects>>

\* Mutant: the metadata object opened beside its key is not counted.
DepthAtKeys(kind) ==
    IF expects = "metadata" THEN depth
    ELSE IF kind \in Starts THEN depth + 1
    ELSE IF kind \in {"EndObject", "EndArray"} THEN depth - 1 ELSE depth

Depth(kind) ==
    IF kind \in Starts THEN depth + 1
    ELSE IF kind \in {"EndObject", "EndArray"} THEN depth - 1 ELSE depth

MetadataKey(event) == expects = "event" /\ event.kind = "ObjectKey" /\ event.bombay /\ depth = 1

Refusal(event) ==
    IF event.large THEN "TokenBytes"
    ELSE IF expects = "first" /\ event.kind # "StartObject" THEN "OuterObject"
    ELSE IF expects = "metadata" /\ event.kind # "StartObject" THEN "MetadataObject"
    ELSE IF event.kind = "Eof" THEN "Ok"
    ELSE IF expects # "first" /\ Depth(event.kind) > Nesting THEN "Nesting"
    ELSE "None"

\* One call of next_event and what check makes of it.
NextEvent(event) ==
    /\ verdict = "None" /\ sizes = {} /\ Len(events) < MaxEvents
    /\ event.kind \in Grammar
    /\ parser' = Parsed(event.kind)
    /\ events' = Append(events, event)
    /\ depth' = Depth(event.kind)
    /\ expects' = IF MetadataKey(event) THEN "metadata" ELSE "event"
    /\ verdict' = Refusal(event)
    /\ UNCHANGED sizes

\* Malformed or trailing input, the parser's own state limit, or no event.
NativeRefusal ==
    /\ verdict = "None" /\ sizes = {}
    /\ verdict' \in {"Syntax", "NoEvent"}
    /\ UNCHANGED <<sizes, parser, events, depth, expects>>

JsonNext == CheckSizes \/ NativeRefusal \/ \E event \in Events : NextEvent(event)

-----------------------------------------------------------------------------
(* Properties *)

\* The containers open after the first i events.
Level(i) ==
    Cardinality({j \in 1 .. i : events[j].kind \in Starts})
      - Cardinality({j \in 1 .. i : events[j].kind \in {"EndObject", "EndArray"}})

Profile ==
    /\ events # <<>> => events[1].kind = "StartObject"
    /\ \A i \in DOMAIN events :
         /\ ~events[i].large
         /\ Level(i) <= Nesting
         /\ events[i].kind = "ObjectKey" /\ events[i].bombay /\ Level(i) = 1
              => i = Len(events) \/ events[i + 1].kind = "StartObject"

\* check accepts exactly the profile: while it runs and when it returns Ok all
\* it has read is within the profile, it accepts only a complete message, and
\* each refusal of its own names a message outside the profile.  The metadata
\* key's value is read out of turn, and its object still counts (json.rs check).
ProfileExact ==
    /\ verdict \in {"None", "Ok"} => Profile
    /\ verdict = "Ok" => parser.open = <<>> /\ events[Len(events)].kind = "Eof"
    /\ verdict \in {"OuterObject", "MetadataObject", "TokenBytes", "Nesting"} => ~Profile
    /\ verdict \in {"InputBytes", "ProofBytes"} => verdict \in sizes /\ events = <<>>
=============================================================================
