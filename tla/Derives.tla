------------------------------ MODULE Derives ------------------------------
(***************************************************************************)
(* The derives of bombay-macros (lib.rs): #[actor] on an inherent impl,    *)
(* #[derive(TerminalProjection)] on an enum and #[derive(ActorSpaces)] on  *)
(* a struct.  An input grows clause by clause and is then expanded.        *)
(*                                                                         *)
(* A type is its name; a generated item is the record of the types and     *)
(* fields it is built from.  Rust's own checks of the expansion and the    *)
(* behavior macro behind #[actor] are external.                            *)
(***************************************************************************)
EXTENDS Integers, Sequences, FiniteSets, SequencesExt

VARIABLES derive,       \* "actor", "terminal", "spaces"
          item,         \* the annotated item, as parsed so far
          expanded      \* "parsing", "rejected", or "accepted"

deriveVars == <<derive, item, expanded>>

MailAddr == "MailAddr"
Rejects == [rejected |-> TRUE, items |-> <<>>, forwarded |-> <<>>]
Generates(items) == [Rejects EXCEPT !.rejected = FALSE, !.items = items]

-----------------------------------------------------------------------------
(* #[actor] *)

\* An argument is its key and, for `sends`, whether a visibility and braces are
\* there; a method `receive` is its inputs, "self" among them.
ArgumentKeys == {"message", "error", "sends", "births", "creation_settlements"}
Argument(key, visible, braced) == [key |-> key, visible |-> visible, braced |-> braced]

Keys(arguments) == {arguments[i].key : i \in DOMAIN arguments}

\* ActorArgs::parse: no key twice, the known keys, no `addr`, and a visibility
\* only before named lanes.
ActorArgs(arguments) ==
    /\ \A i, j \in DOMAIN arguments : arguments[i].key = arguments[j].key => i = j
    /\ Keys(arguments) \subseteq ArgumentKeys
    /\ \A i \in DOMAIN arguments :
         arguments[i].key = "sends" /\ arguments[i].visible => arguments[i].braced

Forwarded(arguments) == SelectSeq(arguments, LAMBDA argument : argument.key # "message")

Explicit(type) == type # "self"

\* actor_signature with a `receive`: its last input is the message; a sender is
\* inserted where none is declared.
Signature(inputs) ==
    LET last == inputs[Len(inputs)]
        whole == IF Len(inputs) = 2 THEN <<inputs[1], MailAddr, last>> ELSE inputs
    IN  IF Len(inputs) \notin {2, 3} THEN Rejects
        ELSE IF ~Explicit(last) \/ ~Explicit(whole[2]) THEN Rejects
        ELSE Generates(<<[addr |-> whole[2], message |-> last, receive |-> whole]>>)

\* ... and without one: an explicit uninhabited message gets the impossible fold.
Uninhabited(arguments) ==
    IF "message" \in Keys(arguments)
    THEN Generates(<<[addr |-> MailAddr, message |-> "Message",
                      receive |-> <<"self", MailAddr, "Message">>]>>)
    ELSE Rejects

ActorSignature(implementation) ==
    IF implementation.receive = <<>> THEN Uninhabited(implementation.arguments)
    ELSE IF "message" \in Keys(implementation.arguments) THEN Rejects
    ELSE Signature(implementation.receive)

ExpandActor(implementation) ==
    IF ~ActorArgs(implementation.arguments) \/ implementation.of_trait THEN Rejects
    ELSE [ActorSignature(implementation) EXCEPT !.forwarded = Forwarded(implementation.arguments)]

-----------------------------------------------------------------------------
(* #[derive(TerminalProjection)] *)

\* A variant: its field names in order (<<>> when unnamed) and its attributes,
\* each a path with the number of its arguments (0: the bare path).
Markers == {"application_actor", "structural_child", "declared_child"}
Marked(variant) == SelectSeq(variant.attributes, LAMBDA attribute : attribute.path \in Markers)

TerminalProjectionFields(variant) ==
    Len(variant.fields) = 2 /\ {"origin", "terminal"} \subseteq ToSet(variant.fields)

\* origin_projection: bare markers take no arguments, and there is at most one.
OriginProjection(variant) ==
    LET marked == Marked(variant) IN
    IF \E i \in DOMAIN marked : marked[i].path # "declared_child" /\ marked[i].arguments > 0
    THEN "rejected"
    ELSE IF Len(marked) > 1 THEN "rejected"
    ELSE IF marked = <<>> THEN "Root"
    ELSE IF marked[1].path = "declared_child" /\ marked[1].arguments # 3 THEN "rejected"
    ELSE marked[1].path

\* The From source: a declared child arrives under its structural position.
Projection(variant) ==
    [variant |-> variant.name,
     source |-> IF OriginProjection(variant) = "declared_child" THEN "Position" ELSE "Origin",
     nonce |-> OriginProjection(variant) \in {"application_actor", "structural_child"}]

ExpandTerminalProjection(enum) ==
    IF ~enum.is_enum THEN Rejects
    ELSE IF \E i \in DOMAIN enum.variants :
              \/ ~TerminalProjectionFields(enum.variants[i])
              \/ OriginProjection(enum.variants[i]) = "rejected"
    THEN Rejects
    ELSE Generates([i \in DOMAIN enum.variants |-> Projection(enum.variants[i])])

-----------------------------------------------------------------------------
(* #[derive(ActorSpaces)] *)

\* A field: its name and the protocols of its actor_space attributes.
ExpandActorSpaces(struct) ==
    LET spaces == SelectSeq(struct.fields, LAMBDA field : field.protocols # <<>>)
    IN  IF ~struct.is_named \/ \E i \in DOMAIN spaces : Len(spaces[i].protocols) # 1 THEN Rejects
        ELSE Generates([i \in DOMAIN spaces |->
                          [protocol |-> spaces[i].protocols[1], field |-> spaces[i].name]])

-----------------------------------------------------------------------------
(* The item grows, and is expanded *)

DeriveInit ==
    /\ derive \in {"actor", "terminal", "spaces"}
    /\ \/ /\ derive = "actor"
          /\ item \in [arguments : {<<>>}, receive : {<<>>}, of_trait : BOOLEAN]
       \/ derive = "terminal" /\ item \in [is_enum : BOOLEAN, variants : {<<>>}]
       \/ derive = "spaces" /\ item \in [is_named : BOOLEAN, fields : {<<>>}]
    /\ expanded = "parsing"

Written(new) == expanded = "parsing" /\ item' = new /\ UNCHANGED <<derive, expanded>>

WriteArgument(argument) ==
    derive = "actor" /\ Written([item EXCEPT !.arguments = Append(@, argument)])
\* Only the first input of a method can be its receiver.
WriteInput(input) ==
    /\ derive = "actor"
    /\ input = "self" => item.receive = <<>>
    /\ Written([item EXCEPT !.receive = Append(@, input)])
WriteVariant(variant) ==
    derive = "terminal" /\ Written([item EXCEPT !.variants = Append(@, variant)])
WriteField(field) == derive = "spaces" /\ Written([item EXCEPT !.fields = Append(@, field)])

Expansion ==
    CASE derive = "actor" -> ExpandActor(item)
      [] derive = "terminal" -> ExpandTerminalProjection(item)
      [] OTHER -> ExpandActorSpaces(item)

Expand ==
    /\ expanded = "parsing"
    /\ expanded' = IF Expansion.rejected THEN "rejected" ELSE "accepted"
    /\ UNCHANGED <<derive, item>>

-----------------------------------------------------------------------------
(* Properties *)

\* What an accepted #[actor] promises its behavior macro: a fold of receiver,
\* sender and message whose types are those named in the attribute, inferred from
\* the one source there is, and every other argument forwarded once.
ActorFaithful ==
    LET fold == Expansion.items[1] IN
    /\ fold.receive[2] = fold.addr /\ fold.receive[3] = fold.message /\ Len(fold.receive) = 3
    /\ item.receive # <<>> => "message" \notin Keys(item.arguments)
    /\ item.receive = <<>> => "message" \in Keys(item.arguments)
    /\ Len(item.receive) = 3 => fold.receive = item.receive
    /\ IsInjective(Expansion.forwarded)
    /\ Keys(Expansion.forwarded) = Keys(item.arguments) \ {"message"}
    /\ "addr" \notin Keys(item.arguments)

\* Every accepted derive generates exactly what its item declares: #[actor] as
\* above; one projection for each variant in order, from the structural position
\* exactly when the variant names a declared role; and one host for each field
\* that is marked, none for the others (lib.rs expand_actor,
\* expand_terminal_projection, expand_actor_spaces).
DerivesExact ==
    expanded = "accepted" =>
      CASE derive = "actor" -> ActorFaithful
        [] derive = "terminal" ->
             /\ Len(Expansion.items) = Len(item.variants)
             /\ \A i \in DOMAIN item.variants :
                  LET attributes == item.variants[i].attributes
                      count(path) == Cardinality({a \in DOMAIN attributes : attributes[a].path = path})
                  IN  /\ Expansion.items[i].variant = item.variants[i].name
                      /\ ToSet(item.variants[i].fields) = {"origin", "terminal"}
                      /\ Expansion.items[i].source = "Position" <=> count("declared_child") = 1
                      /\ count("application_actor") + count("structural_child")
                           = (IF Expansion.items[i].nonce THEN 1 ELSE 0)
        [] OTHER ->
             /\ {Expansion.items[i].field : i \in DOMAIN Expansion.items} =
                  {item.fields[i].name : i \in {i \in DOMAIN item.fields : item.fields[i].protocols # <<>>}}
             /\ Len(Expansion.items) =
                  Cardinality({i \in DOMAIN item.fields : Len(item.fields[i].protocols) = 1})
=============================================================================
