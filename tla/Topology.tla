------------------------------ MODULE Topology ------------------------------
(***************************************************************************)
(* The topology! macro (bombay-macros/src/topology.rs): it parses a closed *)
(* graph of actor classes, validates it, infers the type of each class and *)
(* generates the custody types and the proofs of native creation.  The     *)
(* positions it writes for cold members are the ones by which an executed  *)
(* application finds their origins (application/composition.rs).           *)
(*                                                                         *)
(* A label is the sequence of its underscore-separated parts.  A declared  *)
(* type is present or absent; a generated type is the set of type          *)
(* parameters that occur in it.                                            *)
(***************************************************************************)
EXTENDS Integers, Sequences, FiniteSets, SequencesExt, Relation

CONSTANTS
    Labels,         \* labels of classes, as sequences of parts
    Hosts,          \* labels of logical hosts
    RoleNames       \* variant names of child edges and members

VARIABLES
    declaration,    \* what has been parsed
    expansion       \* "parsing", the rejection, or the generated module

topologyVars == <<declaration, expansion>>

RootLabel == <<"root">>
NoHost == <<>>
ExecutedRoot == <<"ExecutedRoot">>
OriginalRoot == <<"OriginalRoot">>

(***************************************************************************)
(* Names and lookups.                                                      *)
(***************************************************************************)
\* Conventional type casing: no raw prefix, and no empty part.
ActorName(label) ==
    SelectSeq(IF Head(label) = "r#" THEN Tail(label) ELSE label, LAMBDA part : part # "")

RetirementName(label) == Append(ActorName(label), "retirements")

Class(d, label) == d.actors[CHOOSE i \in DOMAIN d.actors : d.actors[i].name = label]
RootClass(d) == Class(d, RootLabel)
Declared(d) == {d.actors[i].name : i \in DOMAIN d.actors}
Members(d) == {d.members[i].actor : i \in DOMAIN d.members}
Families(d) == ToSet(d.families)
Distinct(s) == \A i, j \in DOMAIN s : s[i] = s[j] => i = j
NamesOf(children) == [i \in DOMAIN children |-> children[i].name]
Targets(class) == {class.children[i].actor : i \in DOMAIN class.children}

\* The edges in the order in which every pass of the macro visits them.
Edges(d) ==
    FlattenSeq([i \in DOMAIN d.actors |->
        [j \in DOMAIN d.actors[i].children |-> <<d.actors[i], d.actors[i].children[j]>>]])

(***************************************************************************)
(* Inference of the actor types.                                           *)
(***************************************************************************)
\* select_birth_types: the children of known classes become known.
RECURSIVE SelectBirthTypes(_, _)
SelectBirthTypes(d, known) ==
    LET grown == known \cup UNION {Targets(Class(d, l)) \ {RootLabel} : l \in known}
    IN  IF grown = known THEN known ELSE SelectBirthTypes(d, grown)

\* incoming_occurrences: concrete anchors first, then the root, then cold members.
Known(d) ==
    LET anchors == {l \in Declared(d) : Class(d, l).behavior} \cup Families(d)
        rooted == SelectBirthTypes(d, SelectBirthTypes(d, anchors) \cup {RootLabel})
    IN  SelectBirthTypes(d, rooted \cup Members(d))

\* One occurrence: a pending class takes its type from a nominal role owner or
\* from a parent whose type is known, with the parameters of that type.
Infer(t, edge) ==
    LET parent == edge[1]  child == edge[2]
        nominal == parent.parent /\ child.role
    IN  IF child.actor \in t.pending /\ (nominal \/ parent.name \notin t.pending)
        THEN [pending |-> t.pending \ {child.actor},
              sources |-> [t.sources EXCEPT ![child.actor] =
                             IF nominal THEN {} ELSE t.sources[parent.name]],
              selected |-> [t.selected EXCEPT ![child.actor] = <<parent.name, child.name>>]]
        ELSE t

\* A pass that makes no progress turns the pending cold classes into parameters.
Seed(d, t) == Members(d) \cap t.pending

RECURSIVE InferAll(_, _)
InferAll(d, t) ==
    LET passed == FoldLeft(Infer, t, Edges(d))
        seeds == Seed(d, passed)
    IN  IF passed.pending # t.pending THEN InferAll(d, passed)
        ELSE IF seeds = {} THEN passed
        ELSE InferAll(d, [passed EXCEPT !.pending = @ \ seeds,
                            !.sources = [l \in DOMAIN @ |->
                                IF l \in seeds THEN {Append(ActorName(l), "Actor")} ELSE @[l]]])

ActorTypes(d) ==
    LET opaque == ~RootClass(d).behavior
        typed == {l \in Declared(d) : Class(d, l).behavior} \cup Families(d)
                 \cup {RootLabel}
    IN  InferAll(d, [pending |-> Declared(d) \ typed,
                     sources |-> [l \in Declared(d) |->
                         IF l = RootLabel /\ opaque THEN {ExecutedRoot} ELSE {}],
                     selected |-> [l \in Declared(d) |-> <<>>]])

Dependent(d) == LET t == ActorTypes(d) IN {l \in Declared(d) : t.sources[l] # {}}

\* schema_dependencies: parents of dependent classes, and then their ancestors.
RECURSIVE Ancestors(_, _)
Ancestors(d, schemas) ==
    LET grown == schemas \cup {l \in Declared(d) : Targets(Class(d, l)) \cap schemas # {}}
    IN  IF grown = schemas THEN schemas ELSE Ancestors(d, grown)

SchemaDependencies(d) ==
    LET dependent == Dependent(d)
    IN  Ancestors(d, {l \in Declared(d) : /\ Targets(Class(d, l)) # {}
                                          /\ ({l} \cup Targets(Class(d, l))) \cap dependent # {}})

(***************************************************************************)
(* Validation.                                                             *)
(***************************************************************************)
ClassRules(d) ==
    /\ Distinct(NamesOf(d.actors))
    /\ Distinct([i \in DOMAIN d.actors |-> ActorName(d.actors[i].name)])
    /\ \A i \in DOMAIN d.actors : LET class == d.actors[i] IN
          /\ class.parent => /\ class.name # RootLabel
                             /\ \E j \in DOMAIN class.children : class.children[j].role
          /\ Distinct(NamesOf(class.children))
          /\ \A j \in DOMAIN class.children : class.children[j].role \/ Len(class.children) = 1

FamilyRules(d) ==
    /\ Families(d) \subseteq Declared(d) /\ Distinct(d.families)
    /\ \A l \in Families(d) : l # RootLabel /\ ~Class(d, l).behavior

MemberRules(d) ==
    /\ Distinct(NamesOf(RootClass(d).children) \o NamesOf(d.members))
    /\ Members(d) \subseteq Declared(d)

ValidateHosts(d) ==
    /\ \A i \in DOMAIN d.actors : LET class == d.actors[i] IN
          class.host # NoHost => /\ class.host \in ToSet(d.hosts)
                                 /\ class.name = RootLabel => class.host = RootLabel
    /\ Distinct(d.hosts)

\* A worklist: the classes visited from pending along edges into some classes.
RECURSIVE Visit(_, _, _, _)
Visit(d, pending, visited, within) ==
    IF pending = {} THEN visited
    ELSE LET next == UNION {Targets(Class(d, l)) : l \in pending \cap Declared(d)} \cap within
         IN  Visit(d, next \ (visited \cup pending), visited \cup pending, within)

\* A schema with parameters that reaches itself.
Recursive(d, schemas, label) ==
    label \in Visit(d, Targets(Class(d, label)) \cap schemas, {}, schemas)

ValidateInference(d) ==
    /\ ~RootClass(d).behavior => d.members = <<>> /\ Len(RootClass(d).children) <= 1
    /\ Known(d) = Declared(d)
    /\ LET schemas == SchemaDependencies(d)
       IN  \A l \in schemas : ~Recursive(d, schemas, l)

\* The first rule that a declaration breaks, in the order they are checked.
Rejection(d) ==
    LET visited == Visit(d, {RootLabel} \cup Families(d) \cup Members(d), {}, Labels)
    IN  IF ~ClassRules(d) THEN "class"
        ELSE IF RootLabel \notin Declared(d) THEN "root"
        ELSE IF ~FamilyRules(d) THEN "family"
        ELSE IF ~MemberRules(d) THEN "member"
        ELSE IF ~(visited \subseteq Declared(d)) THEN "target"
        ELSE IF ~(Declared(d) \subseteq visited) THEN "unreachable"
        ELSE IF ~ValidateHosts(d) THEN "host"
        ELSE IF ~ValidateInference(d) THEN "inference" ELSE "Ok"

(***************************************************************************)
(* Generation.                                                             *)
(***************************************************************************)
\* What retirement_custody writes for a class: a row per child, and for the root
\* one per cold member.
Rows(d, class) ==
    class.children \o (IF class.name = RootLabel THEN d.members ELSE <<>>)

\* role_parent: the parameters of the nominal owner of the child roles.
RoleParent(t, class) == IF class.parent THEN {} ELSE t.sources[class.name]

\* With members: each class starts with the parameters of its rows, and takes over
\* those of its children's schemas until nothing changes.
Direct(d, t, class) ==
    (IF class.children # <<>> THEN RoleParent(t, class) ELSE {})
    \cup (IF class.name = RootLabel THEN {OriginalRoot} ELSE {})
    \cup UNION {t.sources[Rows(d, class)[i].actor] : i \in DOMAIN Rows(d, class)}

RECURSIVE Inherit(_, _)
Inherit(d, custody) ==
    LET Rest(class) == UNION {custody[Rows(d, class)[i].actor] : i \in DOMAIN Rows(d, class)}
        grown == [l \in Declared(d) |-> custody[l] \cup Rest(Class(d, l))]
    IN  IF grown = custody THEN custody ELSE Inherit(d, grown)

\* Mutant: a schema does not take over the parameters of its children's schemas.
CustodyDirect(d, t) == [l \in Declared(d) |-> Direct(d, t, Class(d, l))]

\* The parameters of the generated schemas.
CustodyOfMembers(d, t) == Inherit(d, [l \in Declared(d) |-> Direct(d, t, Class(d, l))])
CustodyOfRoot(d) ==
    LET schemas == SchemaDependencies(d)
    IN  [l \in Declared(d) |-> IF l \in schemas THEN {ExecutedRoot} ELSE {}]
Custody(d, t) == IF d.members = <<>> THEN CustodyOfRoot(d) ELSE CustodyOfMembers(d, t)

\* Members follow the births of the root, the last declared first.
MemberPosition(d, i) == Len(RootClass(d).children) + Len(d.members) - i

\* Whether an occurrence is bound to its class's type by an equality: on its role
\* (role_consistency) or on its birth; the occurrence that defines the type is not.
Selected(t, class, child) == t.selected[child.actor] = <<class.name, child.name>>
RoleConsistency(t, class, child) == child.role /\ ~Selected(t, class, child)
BirthEquality(t, class, child) == child.role \/ ~Selected(t, class, child)

\* The parameters of the implementation of NativeChild for a row.
RootedParameters(d, class) ==
    IF class.name = RootLabel \/ ~RootClass(d).behavior THEN {ExecutedRoot} ELSE {}
MemberParameters(d, t, custody, class, child) ==
    custody[class.name] \cup t.sources[child.actor] \cup custody[child.actor]
    \cup t.sources[class.name]
    \cup IF class.name # RootLabel THEN {}
         ELSE {ExecutedRoot} \cup UNION {t.sources[l] : l \in Members(d)}
NativeParameters(d, t, class, child) ==
    IF d.members = <<>> THEN RootedParameters(d, class)
    ELSE MemberParameters(d, t, Custody(d, t), class, child)

\* child_registration: the space of a declared host, or a space of its own.
ChildRegistration(class) == class.host

\* The field of the runtime is prefixed until no host has its name.
RECURSIVE RuntimeField(_, _)
RuntimeField(d, field) ==
    IF field \in ToSet(d.hosts) THEN RuntimeField(d, <<"_">> \o field) ELSE field
Fields(d) ==
    <<RootLabel, RuntimeField(d, <<"runtime">>)>> \o SelectSeq(d.hosts, LAMBDA h : h # RootLabel)

\* retirement_custody: no row is Never, one row a struct, several rows an enum with
\* an enum of failures beside it.
RECURSIVE TrimRetirements(_)
TrimRetirements(name) ==
    IF name # <<>> /\ Last(name) = "retirements" THEN TrimRetirements(Front(name)) ELSE name
FailureName(label) == Append(TrimRetirements(RetirementName(label)), "failure")
TypeNames(d) ==
    FlattenSeq([i \in DOMAIN d.actors |->
        IF Len(Rows(d, d.actors[i])) > 1
        THEN <<RetirementName(d.actors[i].name), FailureName(d.actors[i].name)>>
        ELSE <<RetirementName(d.actors[i].name)>>])

\* expand: each declared type is written once, as an alias in the caller's scope.
One(present, type) == IF present THEN <<type>> ELSE <<>>
ChildAliases(of, children) ==
    FlattenSeq([j \in DOMAIN children |-> One(children[j].role, <<of, children[j].name>>)])
Aliases(d) ==
    FlattenSeq([i \in DOMAIN d.actors |->
        One(d.actors[i].behavior, <<d.actors[i].name, "behavior">>)
        \o One(d.actors[i].parent, <<d.actors[i].name, "parent">>)
        \o ChildAliases(d.actors[i].name, d.actors[i].children)])
    \o [k \in DOMAIN d.hosts |-> <<d.hosts[k], "protocol">>]
    \o ChildAliases(<<"members">>, d.members)
    \o [k \in DOMAIN d.families |-> <<d.families[k], "definition">>]
    \o One(d.interpreter, <<<<"interpreter">>, "configuration">>)
(***************************************************************************)
(* The composed births of an executed root (application/composition.rs).   *)
(***************************************************************************)
\* The product of the members, grown at its head by each .child.
MemberProduct(d) == Reverse(d.members)
DeclaredOriginAt(product, relative) == <<OriginalRoot, product[relative + 1].name>>
\* The origin of a position: an original birth of the root, else a declared member.
AppendedOriginAt(births, product, position) ==
    IF position < births THEN <<<<"Base">>, position>>
    ELSE DeclaredOriginAt(product, position - births)

(***************************************************************************)
(* Parsing, one clause or edge at a time.                                  *)
(***************************************************************************)
TopologyInit ==
    /\ declaration = [actors |-> <<>>, hosts |-> <<>>, members |-> <<>>, families |-> <<>>,
                      interpreter |-> FALSE]
    /\ expansion = "parsing"

Parse(d) == expansion = "parsing" /\ declaration' = d /\ expansion' = expansion

ParseActor(label, behavior, parent, host) ==
    Parse([declaration EXCEPT !.actors = Append(@,
              [name |-> label, behavior |-> behavior, parent |-> parent, host |-> host,
               children |-> <<>>])])

ParseEdge(name, role, actor) ==
    /\ declaration.actors # <<>>
    /\ Parse([declaration EXCEPT !.actors[Len(declaration.actors)].children =
                 Append(@, [name |-> name, role |-> role, actor |-> actor])])

ParseMember(name, actor) ==
    Parse([declaration EXCEPT !.members =
              Append(@, [name |-> name, role |-> TRUE, actor |-> actor])])
ParseFamily(actor) == Parse([declaration EXCEPT !.families = Append(@, actor)])
ParseHost(name) == Parse([declaration EXCEPT !.hosts = Append(@, name)])
\* A second configuration is an error.
ParseInterpreter ==
    IF declaration.interpreter
    THEN expansion = "parsing" /\ expansion' = "interpreter" /\ declaration' = declaration
    ELSE Parse([declaration EXCEPT !.interpreter = TRUE])

Validate ==
    /\ expansion = "parsing"
    /\ expansion' = Rejection(declaration) /\ declaration' = declaration

(***************************************************************************)
(* Properties.                                                             *)
(***************************************************************************)
Named(d) == Declared(d) \cup Members(d) \cup UNION {Targets(Class(d, l)) : l \in Declared(d)}

\* validate decides the graph by worklists and staged fixpoints that depend on the
\* order of the clauses.  A declaration that obeys the local rules is accepted
\* exactly when the classes reached from the root, the families and the members are
\* the declared ones, and no class on a cycle reaches a schema with a parameter: so
\* its "actor class requires a birth occurrence" is never the reason.
AcceptsExactly ==
    LET d == declaration  roots == {RootLabel} \cup Families(d) \cup Members(d)
        Local == /\ ClassRules(d) /\ RootLabel \in Declared(d) /\ FamilyRules(d)
                 /\ MemberRules(d) /\ ValidateHosts(d)
                 /\ ~RootClass(d).behavior => d.members = <<>> /\ Len(RootClass(d).children) <= 1
        Edge == [l, m \in Named(d) |-> l \in Declared(d) /\ m \in Targets(Class(d, l))]
        Reaches == ReflexiveTransitiveClosure(Edge, Named(d))
        OnCycle(l) == \E m \in Targets(Class(d, l)) : Reaches[m, l]
        Parametric(l) == /\ Targets(Class(d, l)) # {}
                         /\ ({l} \cup Targets(Class(d, l))) \cap Dependent(d) # {}
    IN  expansion \notin {"parsing", "interpreter"} /\ Local =>
            (expansion = "Ok" <=>
                /\ {m \in Named(d) : \E r \in roots : Reaches[r, m]} = Declared(d)
                /\ \A l \in Declared(d) : OnCycle(l) =>
                        ~\E m \in Declared(d) : Reaches[l, m] /\ Parametric(m))

\* The parameters that the trait arguments of a NativeChild implementation mention.
Mentioned(d, t, class, child, structural) ==
    (IF class.name = RootLabel THEN {ExecutedRoot} ELSE t.sources[class.name])
    \cup (IF structural /\ child.role THEN RoleParent(t, class) ELSE {})
    \cup t.sources[child.actor] \cup Custody(d, t)[class.name] \cup Custody(d, t)[child.actor]
    \cup (IF d.members = <<>> /\ ~RootClass(d).behavior THEN {ExecutedRoot} ELSE {})

\* Two generated types of one accepted declaration never have the same name: "Labels
\* must produce distinct custody names" and "such naming collisions are rejected before
\* expansion" (lib.rs).  The code compares actor_name alone, while retirement_custody
\* trims every trailing Retirements of a label off the name of its failure enum.
NamesDistinct == expansion = "Ok" => Distinct(TypeNames(declaration))

\* An occurrence whose role or birth is not equated with its class's type.
Unchecked(t, class, child) ==
    (child.role /\ ~RoleConsistency(t, class, child)) \/ ~BirthEquality(t, class, child)

\* An accepted declaration expands without failing an assertion, into a closed
\* module: custody types, fields and aliases have distinct names (the failure enums
\* are NamesDistinct's question); every class has a type, along a chain of parents
\* that ends, and every occurrence is checked against it but for the one that defines
\* it, which a class with a declared type or a family's definition does not have;
\* a schema has every parameter that its rows use, and with cold members no other;
\* an implementation has exactly the parameters its trait arguments determine; and
\* the position written for a cold member is the one at which the composed births
\* of the executed root find its origin.
ExpansionClosed ==
    LET d == declaration
        t == ActorTypes(d)
        custody == Custody(d, t)
        Reaches == ReflexiveTransitiveClosure(
                       [l, m \in Declared(d) |-> \E i \in DOMAIN Rows(d, Class(d, l)) :
                                                 Rows(d, Class(d, l))[i].actor = m], Declared(d))
        Defines == TransitiveClosure(
                       [l, m \in Declared(d) |-> \E i \in DOMAIN Edges(d) :
                           LET parent == Edges(d)[i][1]  child == Edges(d)[i][2] IN
                           /\ parent.name = l /\ child.actor = m
                           /\ Selected(t, parent, child) /\ ~(parent.parent /\ child.role)],
                       Declared(d))
    IN  expansion = "Ok" =>
            /\ t.pending = {}
            /\ Distinct(SelectSeq(TypeNames(d), LAMBDA name : Last(name) # "failure"))
            /\ Distinct(Fields(d)) /\ Distinct(Aliases(d))
            /\ \A l \in Declared(d) :
                  LET class == Class(d, l)  rows == Rows(d, class)
                      free == {i \in DOMAIN Edges(d) :
                                 Edges(d)[i][2].actor = l /\ Unchecked(t, Edges(d)[i][1], Edges(d)[i][2])}
                  IN
                  /\ Cardinality(free) <= 1
                  /\ class.behavior \/ l \in Families(d) => free = {}
                  /\ ChildRegistration(class) \in {NoHost} \cup ToSet(Fields(d))
                  /\ ~Defines[l, l]
                  /\ rows # <<>> => Direct(d, t, class) \ {OriginalRoot} \subseteq custody[l]
                  /\ \A i \in DOMAIN rows :
                        /\ custody[rows[i].actor] \subseteq custody[l]
                        /\ NativeParameters(d, t, class, rows[i]) =
                              Mentioned(d, t, class, rows[i], i \in DOMAIN class.children)
                  /\ d.members # <<>> =>
                        custody[l] = UNION {Direct(d, t, Class(d, m)) :
                                            m \in {n \in Declared(d) : Reaches[l, n]}}
            /\ \A i \in DOMAIN d.members :
                  AppendedOriginAt(Len(RootClass(d).children), MemberProduct(d),
                                   MemberPosition(d, i))
                      = <<OriginalRoot, d.members[i].name>>
=============================================================================
