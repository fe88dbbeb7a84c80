------------------------------- MODULE Access -------------------------------
(***************************************************************************)
(* Who may do what: the role bindings of one organisation, and the control  *)
(* commands (pause, drain, stop, start, retry) that they authorise.         *)
(*                                                                         *)
(* A request reads the actor's bindings, and only later opens the           *)
(* transaction of its effect: between the two the binding that allowed it   *)
(* may be revoked, and another request may have changed the row it read.    *)
(***************************************************************************)
EXTENDS Integers, Sequences, FiniteSets, FiniteSetsExt

CONSTANTS
    Actor,            \* people
    Founder,          \* the actor the deployment makes an owner
    GlobalOperators,  \* ids the deployment lets control all execution
    Site,             \* projects
    GivenRole,        \* the roles and the operations that are tried
    TriedOperation,
    CommandKey,       \* idempotency keys of control commands
    MaxBindings,      \* bounds on the bindings, on the requests under way
    MaxRequests,      \* at once, and on the commands that took effect
    MaxControls

Organization == "organization"      \* a binding without a project
Global == "global"                  \* the scope of all execution
Scope == Site \cup {Global}

Reads == {"goal.read", "spec.read", "issue.read", "evidence.read",
          "delivery_report.read"}
Operates == {"goal.verify", "run.operate", "delivery_report.generate"}
Writes == {"goal.write", "spec.generate", "issue.generate", "issue.edit"}
Approves == {"goal.approve", "goal.accept", "spec.approve", "issue.approve",
             "issue.project"}
Manages == {"project.manage", "role_binding.manage"}
Permissions == Reads \cup Operates \cup Writes \cup Approves \cup Manages
                \cup {"organization.manage"}

grants == [
    organization_owner |-> Permissions,
    project_admin |-> Reads \cup Operates \cup Writes \cup Manages,
    approver |-> (Permissions \ Manages)
                    \ {"run.operate", "organization.manage"},
    operator |-> Reads \cup Operates,
    viewer |-> Reads]

Role == DOMAIN grants

ASSUME AccessAssumption ==
    /\ Founder \in Actor
    /\ GivenRole \subseteq Role
    /\ Organization \notin Site /\ Global \notin Site

VARIABLES
    bindings,   \* role_bindings, in the order of their insertion
    audits,     \* audit_events about role bindings
    controls,   \* execution_controls
    receipts,   \* execution_command_receipts, in the order of their insertion
    requests    \* the requests past their authorization

accessVars == <<bindings, audits, controls, receipts, requests>>

\* role_bindings_scope_chk.
Fits(role, site) ==
    CASE role = "organization_owner" -> site = Organization
      [] role = "project_admin" -> site # Organization
      [] OTHER -> TRUE

Live(b) == ~bindings[b].revoked
BindingsOf(actor) == {b \in DOMAIN bindings : Live(b) /\ bindings[b].actor = actor}

\* The bindings of an actor that count in a project: its own and the
\* organisation's.
ListActive(actor, site) ==
    {b \in BindingsOf(actor) : bindings[b].site \in {Organization, site}}

Allowed(actor, site, permission) ==
    \E b \in ListActive(actor, site) : permission \in grants[bindings[b].role]

\* An owner gives any role where it fits; a project's admin gives the lesser
\* roles of its own project.
\* Mutant of CanAssignRole: an admin may make another admin.
CanAssignRoleMutant(actor, role, site) ==
    \E b \in ListActive(actor, site) :
        \/ bindings[b].role = "organization_owner" /\ Fits(role, site)
        \/ /\ bindings[b].role = "project_admin"
           /\ bindings[b].site = site
           /\ role # "organization_owner"
CanAssignRole(actor, role, site) ==
    \E b \in ListActive(actor, site) :
        \/ bindings[b].role = "organization_owner" /\ Fits(role, site)
        \/ /\ bindings[b].role = "project_admin"
           /\ bindings[b].site = site
           /\ role \in {"approver", "operator", "viewer"}

\* All execution is controlled by an owner the deployment names; a project by
\* whoever may operate its runs.
MayControl(actor, scope) ==
    IF scope = Global
    THEN /\ actor \in GlobalOperators
         /\ \E b \in BindingsOf(actor) : bindings[b].role = "organization_owner"
    ELSE Allowed(actor, scope, "run.operate")

Ask(request) ==
    /\ Cardinality(requests) < MaxRequests
    /\ requests' = requests \cup {request}

Answered(request) == requests' = requests \ {request}

AccessInit ==
    /\ bindings = <<[actor |-> Founder, role |-> "organization_owner",
                     site |-> Organization, by |-> Founder, version |-> 1,
                     revoked |-> FALSE]>>
    /\ audits = {}
    /\ controls = [s \in Scope |-> [state |-> "active", version |-> 1]]
    /\ receipts = <<>>
    /\ requests = {}

-----------------------------------------------------------------------------
(* Roles.                                                                   *)

AskAssign(actor, target, role, site) ==
    /\ CanAssignRole(actor, role, site)
    /\ Ask([kind |-> "assign", actor |-> actor, target |-> target,
            role |-> role, site |-> site])
    /\ UNCHANGED <<bindings, audits, controls, receipts>>

\* An active binding is unique; a second one fails on its index.
Assign(request) ==
    LET duplicate == \E b \in BindingsOf(request.target) :
            bindings[b].role = request.role /\ bindings[b].site = request.site
    IN  /\ request.kind = "assign"
        /\ Answered(request)
        /\ IF duplicate
           THEN UNCHANGED <<bindings, audits>>
           ELSE /\ Len(bindings) < MaxBindings
                /\ bindings' = Append(bindings,
                        [actor |-> request.target, role |-> request.role,
                         site |-> request.site, by |-> request.actor,
                         version |-> 1, revoked |-> FALSE])
                /\ audits' = audits \cup
                        {[action |-> "assigned", binding |-> Len(bindings) + 1,
                          version |-> 1, actor |-> request.actor]}
        /\ UNCHANGED <<controls, receipts>>

AskRevoke(actor, b) ==
    /\ Live(b)
    /\ CanAssignRole(actor, bindings[b].role, bindings[b].site)
    /\ Ask([kind |-> "revoke", actor |-> actor, binding |-> b,
            version |-> bindings[b].version])
    /\ UNCHANGED <<bindings, audits, controls, receipts>>

\* The binding is still the one that was read.
Unrevoked(request) ==
    /\ bindings[request.binding].version = request.version
    /\ Live(request.binding)

Revoke(request) ==
    /\ request.kind = "revoke"
    /\ Answered(request)
    /\ IF Unrevoked(request)
       THEN /\ bindings' = [bindings EXCEPT ![request.binding] =
                    [@ EXCEPT !.revoked = TRUE, !.version = request.version + 1]]
            /\ audits' = audits \cup
                    {[action |-> "revoked", binding |-> request.binding,
                      version |-> request.version + 1, actor |-> request.actor]}
       ELSE UNCHANGED <<bindings, audits>>
    /\ UNCHANGED <<controls, receipts>>

-----------------------------------------------------------------------------
(* Execution control.                                                       *)

\* A failure of the gateway counts against the project: the row moves to a new
\* version in the state it has.
GatewayFails(site) ==
    /\ controls[site].version < MaxControls
    /\ controls' = [controls EXCEPT ![site].version = @ + 1]
    /\ UNCHANGED <<bindings, audits, receipts, requests>>

NextState(operation) ==
    CASE operation = "pause" -> "paused"
      [] operation = "drain" -> "draining"
      [] operation = "stop" -> "stopped"
      [] OTHER -> "active"

\* A command is authorised, and its receipt is looked for.  It names the version
\* the client saw; one that had passed already is refused by ReadControl.
AskControl(actor, scope, operation, key) ==
    /\ MayControl(actor, scope)
    /\ \A r \in DOMAIN receipts : <<receipts[r].actor, receipts[r].key>> # <<actor, key>>
    /\ Ask([kind |-> "control", actor |-> actor, scope |-> scope,
            operation |-> operation, key |-> key,
            expected |-> controls[scope].version])
    /\ UNCHANGED <<bindings, audits, controls, receipts>>

\* The control is read, and compared with the version the client saw.
ReadControl(request) ==
    LET control == controls[request.scope]
    IN  /\ request.kind = "control"
        /\ requests' = (requests \ {request}) \cup
            IF control.version # request.expected THEN {}
            ELSE {[kind |-> "commit", command |-> request, from |-> control.state]}
        /\ UNCHANGED <<bindings, audits, controls, receipts>>

\* The row is updated under the version that was read.
\* Mutant of SameVersion: the update does not compare the version.
SameVersionMutant(command) == TRUE
SameVersion(command) == controls[command.scope].version = command.expected

Recorded(command) ==
    \E r \in DOMAIN receipts :
        receipts[r].actor = command.actor /\ receipts[r].key = command.key

\* A receipt that exists is the answer; otherwise the row, the receipt and
\* its event are written together.
CommitControl(request) ==
    LET command == request.command
        new == NextState(command.operation)
        version == controls[command.scope].version + 1
    IN  /\ request.kind = "commit"
        /\ Answered(request)
        /\ IF ~Recorded(command) /\ SameVersion(command)
           THEN /\ Len(receipts) < MaxControls
                /\ controls' = [controls EXCEPT ![command.scope] =
                        [state |-> new, version |-> version]]
                /\ receipts' = Append(receipts,
                        [actor |-> command.actor, key |-> command.key,
                         scope |-> command.scope, from |-> request.from,
                         state |-> new, previous |-> command.expected,
                         version |-> version])
           ELSE UNCHANGED <<controls, receipts>>
        /\ UNCHANGED <<bindings, audits>>

AccessNext ==
    \/ \E actor, target \in Actor, role \in GivenRole, site \in Site \cup {Organization} :
            AskAssign(actor, target, role, site)
    \/ \E actor \in Actor, b \in DOMAIN bindings : AskRevoke(actor, b)
    \/ \E actor \in Actor, scope \in Scope, operation \in TriedOperation,
          key \in CommandKey : AskControl(actor, scope, operation, key)
    \/ \E request \in requests :
            \/ Assign(request)
            \/ Revoke(request)
            \/ ReadControl(request)
            \/ CommitControl(request)
    \/ \E site \in Site : GatewayFails(site)

-----------------------------------------------------------------------------
(* Properties.                                                              *)

\* What the rows and the requests hold.
Binding == [actor : Actor, role : Role, site : Site \cup {Organization}, by : Actor,
            version : {1, 2}, revoked : BOOLEAN]
AuditEvent == [action : {"assigned", "revoked"}, binding : Nat, version : {1, 2},
               actor : Actor]
ControlState == {"active", "paused", "draining", "stopped"}
ControlRow == [state : ControlState, version : Nat]
CommandReceipt == [actor : Actor, key : CommandKey, scope : Scope, from : ControlState,
                   state : ControlState, previous : Nat, version : Nat]
ControlRequest == [kind : {"control"}, actor : Actor, scope : Scope,
                   operation : TriedOperation, key : CommandKey, expected : Nat]
AccessRequest ==
    [kind : {"assign"}, actor : Actor, target : Actor, role : GivenRole,
     site : Site \cup {Organization}]
    \cup [kind : {"revoke"}, actor : Actor, binding : Nat, version : {1, 2}]
    \cup ControlRequest
    \cup [kind : {"commit"}, command : ControlRequest, from : ControlState]
AccessTypes ==
    /\ bindings \in Seq(Binding)
    /\ audits \in SUBSET AuditEvent
    /\ controls \in [Scope -> ControlRow]
    /\ receipts \in Seq(CommandReceipt)
    /\ requests \in SUBSET AccessRequest

\* Authority comes from above: every owner but the founder, and every admin of
\* a project, was made by somebody who had been made an owner before; any
\* other role of a project by an owner or by an admin of that very project; and
\* the trail has one event for each version of a binding, whatever is revoked
\* between a check and its effect and however often (rbac-policy.ts
\* assertCanAssignRole, role-binding-service.ts, postgres-role-binding-repository.ts).
AuthorityDescends ==
    /\ \A b \in 2 .. Len(bindings) :
        \E above \in 1 .. b - 1 :
            /\ bindings[above].actor = bindings[b].by
            /\ \/ bindings[above].role = "organization_owner"
               \/ /\ bindings[above].role = "project_admin"
                  /\ bindings[above].site = bindings[b].site
                  /\ bindings[b].role \notin {"organization_owner", "project_admin"}
    /\ \A b \in DOMAIN bindings :
        /\ bindings[b].version = IF Live(b) THEN 1 ELSE 2
        /\ {a.version : a \in {a \in audits : a.binding = b}}
                = (IF b = 1 THEN 2 ELSE 1) .. bindings[b].version
    /\ \A a, c \in audits : <<a.binding, a.version>> = <<c.binding, c.version>> => a = c

\* The receipts of a scope before the n-th receipt, and the row they left.
Before(scope, n) == {r \in DOMAIN receipts : r < n /\ receipts[r].scope = scope}
At(scope, n) == IF Before(scope, n) = {} THEN [state |-> "active", version |-> 1]
                ELSE receipts[Max(Before(scope, n))]

\* The actor was given a role that allows it, whether or not it still holds.
Entitled(actor, scope) == \E b \in DOMAIN bindings :
    /\ bindings[b].actor = actor
    /\ "run.operate" \in grants[bindings[b].role]
    /\ bindings[b].site \in {Organization, scope}

\* The trail of a control: its receipts, in the order of their versions, start
\* from the active state, each starts where the one before ended and at a later
\* version, and the last one's state is the row's: no command is lost under
\* another, or told that it changed a state the row was not in.  A key of an
\* actor has one receipt, and the actor had been given a role that allows it
\* (postgres-execution-control-repository.ts commit).
ControlsAreTraced ==
    /\ \A n \in DOMAIN receipts :
        LET at == At(receipts[n].scope, n)
        IN  /\ receipts[n].from = at.state
            /\ receipts[n].previous >= at.version
            /\ receipts[n].version = receipts[n].previous + 1
    /\ \A scope \in Scope :
        LET at == At(scope, Len(receipts) + 1)
        IN  /\ controls[scope].state = at.state
            /\ controls[scope].version >= at.version
    /\ \A r, s \in DOMAIN receipts :
        <<receipts[r].actor, receipts[r].key>> = <<receipts[s].actor, receipts[s].key>>
            => r = s
    /\ \A r \in DOMAIN receipts : Entitled(receipts[r].actor, receipts[r].scope)
=============================================================================
