------------------------ MODULE ApplicationBuilder ------------------------
(***************************************************************************)
(* What an application is built from (application/scope.rs, mod.rs,        *)
(* mailbox.rs, composition.rs and the family product of entity/family.rs): *)
(* a scope may establish external endpoints before the root exists; the    *)
(* declaration grows its members and entity families head first; preparing *)
(* it composes root and members and installs the families.  Every address  *)
(* and every mailbox size of the running application comes from here.      *)
(***************************************************************************)
EXTENDS Application

CONSTANTS
    RootBirths,         \* child positions the root's own behavior declares
    Minimums,           \* the mailbox sizes a caller may request
    MaxEndpoints        \* bound on the addresses issued

VARIABLES
    building,       \* "start", "scope", "application", "prepared", "rejected"
    scope,          \* Option<ApplicationScope>: [some, source, client, mailbox]
    declared,       \* [members, families, hosts], head first
    sources,        \* every ApplicationAddresses created: the address it issues next
    installed,      \* the installed families: [role, source, mailbox]
    endpoints,      \* every address issued: [address, source, capacity, selected, child, origin]
    selected        \* the sizes last accepted from the caller: [client, mailbox]

builderVars == <<building, scope, declared, sources, installed, endpoints, selected>>

(***************************************************************************)
(* MailboxCapacity: the channel's rounding, validated before it is used.   *)
(***************************************************************************)
MAX_CAPACITY == 1073741824      \* 2^30
DefaultCapacity == 1024
NextPowerOfTwo(n) == Min({p \in {2 ^ k : k \in 0 .. 30} : p >= n})
Rejected(minimum) == minimum = 0 \/ minimum > MAX_CAPACITY
MailboxCapacity(minimum) == NextPowerOfTwo(Max({minimum, 2}))

(***************************************************************************)
(* The scope and the declaration.                                          *)
(***************************************************************************)
NewScope(source) ==
    [some |-> TRUE, source |-> source, client |-> DefaultCapacity, mailbox |-> DefaultCapacity]
NoScope == [NewScope(0) EXCEPT !.some = FALSE]
FreshSource == Len(sources) + 1
NoDeclaration == [members |-> <<>>, families |-> <<>>, hosts |-> "spaces"]

BuilderInit ==
    /\ building = "start" /\ scope = NoScope /\ declared = NoDeclaration
    /\ sources = <<>> /\ installed = <<>> /\ endpoints = <<>>
    /\ selected = [client |-> DefaultCapacity, mailbox |-> DefaultCapacity]

BeginScope ==
    /\ building = "start" /\ building' = "scope"
    /\ scope' = NewScope(FreshSource) /\ sources' = Append(sources, 1)
    /\ UNCHANGED <<declared, installed, endpoints, selected>>

\* Application::new: no scope until one is needed.
NewApplication ==
    /\ building = "start" /\ building' = "application"
    /\ UNCHANGED <<scope, declared, sources, installed, endpoints, selected>>

\* ApplicationScope::with_root, with_topology: the scope is consumed.
WithTopology ==
    /\ building = "scope" /\ building' = "application" /\ declared' = NoDeclaration
    /\ UNCHANGED <<scope, sources, installed, endpoints, selected>>

Select(minimum, of) ==
    /\ ~Rejected(minimum)
    /\ scope' = [of EXCEPT !.client = MailboxCapacity(minimum)]
    /\ selected' = [selected EXCEPT !.client = MailboxCapacity(minimum)]
SelectMailbox(minimum, of) ==
    /\ ~Rejected(minimum)
    /\ scope' = [of EXCEPT !.mailbox = MailboxCapacity(minimum)]
    /\ selected' = [selected EXCEPT !.mailbox = MailboxCapacity(minimum)]
unsized == <<building, declared, installed, endpoints>>

ScopeClientCapacity(minimum) ==
    building = "scope" /\ Select(minimum, scope) /\ UNCHANGED <<sources, unsized>>
ScopeMailboxCapacity(minimum) ==
    building = "scope" /\ SelectMailbox(minimum, scope) /\ UNCHANGED <<sources, unsized>>

\* Mutant: selecting a size replaces the scope the endpoints were established in.
ReplacedScope == [NewScope(FreshSource) EXCEPT !.client = scope.client, !.mailbox = scope.mailbox]

\* Option::get_or_insert_with(ApplicationScope::new)
InsertedScope == IF scope.some THEN scope ELSE NewScope(FreshSource)

Inserts == sources' = IF InsertedScope = scope THEN sources ELSE Append(sources, 1)
ClientCapacityOf(minimum) ==
    building = "application" /\ Select(minimum, InsertedScope) /\ Inserts /\ UNCHANGED unsized
MailboxCapacityOf(minimum) ==
    building = "application" /\ SelectMailbox(minimum, InsertedScope) /\ Inserts /\ UNCHANGED unsized

Declares(next_) ==
    /\ building = "application" /\ declared' = next_
    /\ UNCHANGED <<building, scope, sources, installed, endpoints, selected>>
DeclareChild(role) ==
    /\ Len(declared.members) < MaxMembers
    /\ Declares([declared EXCEPT !.members = <<role>> \o @])
\* A family is declared for the hosts the application has at that point, under a
\* role that selects it.
EntityFamily(role) ==
    /\ \A i \in DOMAIN declared.families : declared.families[i].role # role
    /\ Declares([declared EXCEPT !.families = <<[role |-> role, hosts |-> declared.hosts]>> \o @])
\* with_interpreter of an application over plain spaces.
WithInterpreter ==
    declared.hosts = "spaces" /\ Declares([declared EXCEPT !.hosts = "spaces and runtime"])

(***************************************************************************)
(* Preparing it.                                                           *)
(***************************************************************************)
\* Application::allocations, and the scope of an application that had none.
Allocations == IF scope.some THEN scope.source ELSE FreshSource
PreparedScope == IF scope.some THEN scope ELSE NewScope(Allocations)

\* InstallEntityFamilies: every family shares the application's source and size.
Install(source, mailbox) ==
    [p \in DOMAIN declared.families |->
        [role |-> declared.families[p].role, source |-> source, mailbox |-> mailbox]]

\* Only families declared over the final hosts can be installed in them.
Prepare ==
    /\ building = "application"
    /\ \A p \in DOMAIN declared.families : declared.families[p].hosts = declared.hosts
    /\ scope' = PreparedScope
    /\ sources' = IF scope.some THEN sources ELSE Append(sources, 1)
    /\ IF Stage(declared.members).ok
       THEN building' = "prepared" /\ installed' = Install(Allocations, PreparedScope.mailbox)
       ELSE building' = "rejected" /\ installed' = installed
    /\ UNCHANGED <<declared, endpoints, selected>>

\* A rejected staging returns the scope with the root: it can be used again.
Reuse ==
    /\ building = "rejected" /\ building' = "scope" /\ declared' = NoDeclaration
    /\ UNCHANGED <<scope, sources, installed, endpoints, selected>>

(***************************************************************************)
(* What runs.                                                              *)
(***************************************************************************)
\* The composed births: the root's own, then the members' product.
Composed ==
    [p \in 1 .. RootBirths |-> [owner |-> "root birth", at |-> p]]
    \o [i \in DOMAIN declared.members |-> [owner |-> "member", at |-> i]]

\* AppendedChildOriginAt: past the root's positions a declared member is named by
\* its own, relative to the product.
Origin(p) ==
    IF p <= RootBirths THEN [owner |-> "root birth", at |-> p]
    ELSE [owner |-> "member", at |-> p - RootBirths]

\* EntityFamilyAt: the receptionist at the role's position.
SelectFamily(role) == installed[CHOOSE p \in DOMAIN installed : installed[p].role = role]

Establish(source, capacity, wanted, child, origin) ==
    /\ Len(endpoints) < MaxEndpoints
    /\ sources' = [sources EXCEPT ![source] = @ + 1]
    /\ endpoints' = Append(endpoints, [address |-> sources[source], source |-> source,
          capacity |-> capacity, selected |-> wanted, child |-> child, origin |-> origin])
    /\ UNCHANGED <<building, scope, declared, installed, selected>>
NotBorn == [owner |-> "none", at |-> 0]

ScopeExternal ==
    building = "scope" /\ Establish(scope.source, scope.client, selected.client, NotBorn, NotBorn)
\* An endpoint of the live ApplicationHandle.
HandleExternal ==
    building = "prepared" /\ Establish(scope.source, scope.client, selected.client, NotBorn, NotBorn)
StartChild(p) ==
    /\ building = "prepared" /\ p \in DOMAIN Composed
    /\ Establish(scope.source, scope.mailbox, selected.mailbox, Composed[p], Origin(p))
StartEntity(role) ==
    /\ building = "prepared" /\ \E p \in DOMAIN installed : installed[p].role = role
    /\ LET family == SelectFamily(role)
       IN  Establish(family.source, family.mailbox, selected.mailbox, NotBorn, NotBorn)

\* One application has one address source, however it was built and whenever its
\* scope came to be: no two of its endpoints, early or late, share an address and
\* none has the root's.  Each mailbox has the size the caller had selected, and is
\* never smaller than requested; a child retires under the origin of its declaration.
BuildExact ==
    /\ \A i \in DOMAIN endpoints :
          /\ endpoints[i].address # 0 /\ endpoints[i].capacity = endpoints[i].selected
          /\ endpoints[i].origin = endpoints[i].child
          /\ \A j \in DOMAIN endpoints : endpoints[i].address = endpoints[j].address => i = j
    /\ \A m \in Minimums : ~Rejected(m) => MailboxCapacity(m) \in m .. MAX_CAPACITY /\ MailboxCapacity(m) > 1
    /\ building = "prepared" =>
          \A p \in DOMAIN installed : /\ SelectFamily(installed[p].role) = installed[p]
                                      /\ installed[p].source = scope.source
=============================================================================
