---------------------------- MODULE AddonManager ----------------------------
(***************************************************************************)
(* Addons and the API they bring: Enable, Connect, Disconnect and Disable  *)
(* (application/addon_manager.go), the activation of resource schemas      *)
(* (transport/extensionresource/schema_activator.go and its registry), and *)
(* the type definitions behind them.                                       *)
(*                                                                         *)
(* The manager's mutex makes its calls one at a time, but what a Connect   *)
(* has activated is used at once: a Connect is therefore taken step by     *)
(* step, with users and the end of the process between the steps.  Inputs  *)
(* are those that pass the preflight, which changes nothing.               *)
(***************************************************************************)
EXTENDS Naturals

CONSTANTS
    Addons,
    Types,      \* resource types: an addon and a collection each
    Schemas,    \* what addons may bring: a type, a proto package, capabilities
    NoDef       \* no type definition, no schema

ASSUME AddonAssumption ==
    /\ Addons # {} /\ \A t \in Types : t[1] \in Addons
    /\ Schemas \subseteq [type : Types, pkg : Nat \ {0},
                          caps : SUBSET {"management", "inventory"}]
    /\ NoDef \notin Schemas /\ \A s \in Schemas : NoDef # s.caps

OwnerOf(t) == t[1]
CollectionOf(t) == t[2]
TypesOf(a) == {t \in Types : OwnerOf(t) = a}

\* The package and the type make the gRPC service name, which is the
\* activation ID.  Two schemas have the same content hash when they are equal.
ServiceOf(s) == <<s.type, s.pkg>>
Services == {ServiceOf(s) : s \in Schemas}
CapSets == {s.caps : s \in Schemas}

NoPackage == 0
\* registeredSchemas[t]: whether it is there, and the activation ID.
Registrations == [known : BOOLEAN, pkg : {s.pkg : s \in Schemas} \cup {NoPackage}]
NotRegistered == [known |-> FALSE, pkg |-> NoPackage]

VARIABLES
    typeDef,  \* stored: the capabilities of each type definition, or NoDef
    rows,     \* stored: types that have resources
    targets,  \* stored: addons whose target is registered
    rec,      \* m.addons
    route,    \* addons whose agent is in the router
    api,      \* the activator: muxes, registry and platform services
    op,       \* the Connect under way
    orphaned  \* history: types whose definition outlived its registration

vars == <<typeDef, rows, targets, rec, route, api, op, orphaned>>

NoRecord == [state |-> "unknown", agent |-> FALSE,
             reg |-> [t \in Types |-> NotRegistered]]
NoApi == [mux |-> {}, reg |-> [t \in Types |-> NoDef], owners |-> {}, platforms |-> {}]
\* Behind the input the compensation and, for the properties, what of the
\* input was served when the Connect began.
Idle == [stage |-> "idle", addon |-> CHOOSE a \in Addons : TRUE, todo |-> {},
         agent |-> FALSE, created |-> {}, activated |-> {}, added |-> {},
         newTarget |-> FALSE, kept |-> {}]

TypeOK ==
    /\ typeDef \in [Types -> CapSets \cup {NoDef}]
    /\ rows \subseteq Types /\ targets \subseteq Addons /\ route \subseteq Addons
    \* A resource has its type definition.
    /\ \A t \in rows : typeDef[t] # NoDef
    /\ rec \in [Addons -> [state : {"unknown", "defined", "enabled", "connected"},
                           agent : BOOLEAN, reg : [Types -> Registrations]]]
    /\ api \in [mux : SUBSET Services, reg : [Types -> Schemas \cup {NoDef}],
                owners : SUBSET Services, platforms : SUBSET {CollectionOf(t) : t \in Types}]
    /\ op \in [stage : {"idle", "schemas", "targets", "last"}, addon : Addons,
               todo : SUBSET Schemas, agent : BOOLEAN,
               created : SUBSET Types, activated : SUBSET Services, added : SUBSET Types,
               newTarget : BOOLEAN, kept : SUBSET Schemas]
    /\ orphaned \subseteq Types

Init ==
    /\ typeDef = [t \in Types |-> NoDef]
    /\ rows = {} /\ targets = {} /\ route = {} /\ orphaned = {}
    /\ rec = [a \in Addons |-> NoRecord]
    /\ api = NoApi
    /\ op = Idle

---------------------------------------------------------------------------
(* The activator: functions of its state x                                 *)

Served(x, v) == x.reg[v[1]] # NoDef /\ x.reg[v[1]].pkg = v[2]

\* acquirePlatform and releasePlatformOwner: the first owner brings the
\* platform service of the collection, the last one takes it away.
Acquire(x, v) ==
    [x EXCEPT !.owners = @ \cup {v}, !.platforms = @ \cup {CollectionOf(v[1])}]
Release(x, vs) ==
    LET rest == x.owners \ vs
        last == {v \in vs \cap x.owners : \A o \in rest : CollectionOf(o[1]) # CollectionOf(v[1])}
    IN  [x EXCEPT !.owners = rest, !.platforms = @ \ {CollectionOf(v[1]) : v \in last}]

Transport(x, v) == [x EXCEPT !.mux = @ \cup {v}]
Retire(x, vs) == [x EXCEPT !.mux = @ \ vs]

\* A wrong version: the old service name is left in place.
ActivateKeepsOld(x, s) ==
    [Acquire(Transport(x, ServiceOf(s)), ServiceOf(s)) EXCEPT !.reg[s.type] = s]

\* Activate.  The same content is left alone, new content under the same
\* service name is replaced in place; a new name is registered before the
\* old one is retired.
Activate(x, s) ==
    LET v == ServiceOf(s)
        old == x.reg[s.type]
        new == [Acquire(Transport(x, v), v) EXCEPT !.reg[s.type] = s]
    IN  IF old = NoDef THEN new
        ELSE IF old.pkg = s.pkg THEN [x EXCEPT !.reg[s.type] = s]
        ELSE Release(Retire(new, {ServiceOf(old)}), {ServiceOf(old)})

\* Where Activate may fail, and what it undoes then.  A name that is there
\* already is only compiled.
FailurePoints(x, s) ==
    IF x.reg[s.type] = s THEN {}
    ELSE IF x.reg[s.type] # NoDef /\ x.reg[s.type].pkg = s.pkg THEN {"compile"}
    ELSE {"compile", "platform", "registry"}
ActivateFails(x, s, point) ==
    LET v == ServiceOf(s)
    IN  CASE point = "compile"  -> x
          [] point = "platform" -> Retire(Transport(x, v), {v})
          [] point = "registry" -> Release(Retire(Acquire(Transport(x, v), v), {v}), {v})

\* Deactivate of the services vs, one after the other: one that is not in
\* the registry is ignored.
Deactivate(x, vs) ==
    LET gone == {v \in vs : Served(x, v)}
    IN  Release([Retire(x, gone) EXCEPT !.reg =
                    [t \in Types |-> IF \E v \in gone : v[1] = t THEN NoDef ELSE @[t]]], gone)

---------------------------------------------------------------------------
(* Enable and the start of Connect                                         *)

\* Neither a record that is there nor its registrations are made anew.
Enable(a) ==
    /\ op = Idle
    /\ rec[a].state \in {"unknown", "defined"}
    /\ rec' = [rec EXCEPT ![a].state = "enabled"]
    /\ UNCHANGED <<typeDef, rows, targets, route, api, op, orphaned>>

\* Wrong versions: resources are not looked at; the first refusal ends it.
DeleteTypesUnchecked(ts) == typeDef' = [t \in Types |-> IF t \in ts THEN NoDef ELSE typeDef[t]]
DeleteTypesAllOrNone(ts) ==
    typeDef' = [t \in Types |-> IF ts \cap rows = {} /\ t \in ts THEN NoDef ELSE typeDef[t]]

\* Type definitions are deleted unless resources refer to them; an error is
\* swallowed.
DeleteTypes(ts) == typeDef' = [t \in Types |-> IF t \in ts \ rows THEN NoDef ELSE typeDef[t]]

\* teardownSchema for the types ts.
Activations(a, ts) == {<<t, rec[a].reg[t].pkg>> : t \in ts} \cap Services
Forget(r, ts) == [t \in Types |-> IF t \in ts THEN NotRegistered ELSE r[t]]
Registered(a) == {t \in Types : rec[a].reg[t].known}

\* Connect, up to the teardown of what the input no longer provides; it is
\* not undone when the Connect fails.
Connect(a, given, agent) ==
    /\ op = Idle
    /\ rec[a].state = "enabled"
    /\ LET stale == Registered(a) \ {s.type : s \in given}
       IN  /\ api' = Deactivate(api, Activations(a, stale))
           /\ rec' = [rec EXCEPT ![a].reg = Forget(@, stale)]
           /\ DeleteTypes(stale)
           /\ orphaned' = orphaned \cup (stale \cap rows)
    /\ op' = [Idle EXCEPT !.stage = "schemas", !.addon = a, !.todo = given, !.agent = agent,
                          !.kept = {s \in given : api.reg[s.type] = s}]
    /\ UNCHANGED <<rows, targets, route>>

---------------------------------------------------------------------------
(* The steps of Connect                                                    *)

\* registerSchema: a definition that is there must not lose a capability; a
\* capability it lacks is added, and stays when the Connect fails.
Compatible(s) == typeDef[s.type] # NoDef => typeDef[s.type] \subseteq s.caps
Register(a, s) ==
    [rec[a].reg EXCEPT ![s.type].known = TRUE]

\* A wrong version: the agent is remembered only once the targets are in.
AgentRegisteredLate(c) == c.agent /\ c.stage = "last"
\* The agent is in the router.
AgentRegistered(c) == c.agent /\ c.stage \in {"targets", "last"}

\* rollback, with the record's registrations r, the activator x and the
\* definitions as the failed step left them: the targets, the agent, the
\* activations, the registrations, the definitions this call made.
Rollback(c, r, x, defs) ==
    /\ targets' = IF c.newTarget THEN targets \ {c.addon} ELSE targets
    /\ api' = Deactivate(x, c.activated)
    /\ rec' = [rec EXCEPT ![c.addon].reg = Forget(r, c.added),
                          ![c.addon].agent = @ /\ ~AgentRegistered(c)]
    /\ route' = IF AgentRegistered(c) THEN route \ {c.addon} ELSE route
    /\ typeDef' = [t \in Types |-> IF t \in c.created \ rows THEN NoDef ELSE defs[t]]
    /\ orphaned' = orphaned \cup {t \in c.added : typeDef'[t] # NoDef}
    /\ op' = Idle
    /\ UNCHANGED rows

\* A wrong version: a name the record has is taken to be live.
ActivatesTrustsRecord(prev, s) == s.caps # {} /\ prev.pkg # s.pkg
\* An empty schema has nothing to activate.
Activates(prev, s) == s.caps # {}

\* A wrong version: what was there before is undone too.
UndoesAll(prev, s) == Activates(prev, s)
\* Only a new activation is remembered for the rollback.
Undoes(prev, s) == Activates(prev, s) /\ prev.pkg # s.pkg

\* The definition cannot be written, or an incompatible one is there.
RegisterFails ==
    /\ op.stage = "schemas" /\ op.todo # {}
    /\ Rollback(op, rec[op.addon].reg, api, typeDef)

\* The schema is registered and its activation fails.
ActivationFails(s, point) ==
    /\ op.stage = "schemas" /\ s \in op.todo
    /\ Compatible(s) /\ Activates(rec[op.addon].reg[s.type], s)
    /\ point \in FailurePoints(api, s)
    /\ Rollback([op EXCEPT
                   !.created = IF typeDef[s.type] = NoDef THEN @ \cup {s.type} ELSE @,
                   !.added = IF rec[op.addon].reg[s.type].known THEN @ ELSE @ \cup {s.type}],
                Register(op.addon, s), ActivateFails(api, s, point),
                [typeDef EXCEPT ![s.type] = s.caps])

\* One schema, in any order: registered and activated.  An activation under a new name
\* takes the place of the recorded one.
ConnectSchema(s) ==
    /\ op.stage = "schemas" /\ s \in op.todo
    /\ LET a == op.addon
           prev == rec[a].reg[s.type]
           active == Activates(prev, s)
       IN  /\ Compatible(s)
           /\ typeDef' = [typeDef EXCEPT ![s.type] = s.caps]
           /\ api' = IF active THEN Deactivate(Activate(api, s), {<<s.type, prev.pkg>>} \cap
                                                    (Services \ {ServiceOf(s)}))
                     ELSE api
           /\ rec' = [rec EXCEPT ![a].reg[s.type] =
                        [known |-> TRUE, pkg |-> IF active THEN s.pkg ELSE prev.pkg]]
           /\ op' = [op EXCEPT
                !.todo = @ \ {s},
                !.created = IF typeDef[s.type] = NoDef THEN @ \cup {s.type} ELSE @,
                !.added = IF prev.known THEN @ ELSE @ \cup {s.type},
                !.activated = IF Undoes(prev, s) THEN @ \cup {ServiceOf(s)} ELSE @]
           /\ orphaned' = orphaned \ {s.type}
    /\ UNCHANGED <<rows, targets, route>>

\* connectDeliveryAgent
ConnectAgent ==
    /\ op.stage = "schemas" /\ op.todo = {}
    /\ route' = IF op.agent THEN route \cup {op.addon} ELSE route
    /\ rec' = [rec EXCEPT ![op.addon].agent = @ \/ op.agent]
    /\ op' = [op EXCEPT !.stage = "targets"]
    /\ UNCHANGED <<typeDef, rows, targets, api, orphaned>>

\* connectTargets: the first target is registered, or found and verified.
ConnectTarget ==
    /\ op.stage = "targets"
    /\ targets' = targets \cup {op.addon}
    /\ op' = [op EXCEPT !.stage = "last", !.newTarget = op.addon \notin targets]
    /\ UNCHANGED <<typeDef, rows, rec, route, api, orphaned>>

\* A target that is there differs, or cannot be read.
TargetFails ==
    /\ op.stage \in {"targets", "last"}
    /\ Rollback(op, rec[op.addon].reg, api, typeDef)

Connected ==
    /\ op.stage = "last"
    /\ rec' = [rec EXCEPT ![op.addon].state = "connected"]
    /\ op' = Idle
    /\ UNCHANGED <<typeDef, rows, targets, route, api, orphaned>>

---------------------------------------------------------------------------
(* Disconnect, Disable, users and the end of the process                   *)

\* The agent goes, the API stays.  There is no check of the state.
Disconnect(a) ==
    /\ op = Idle /\ rec[a].state # "unknown"
    /\ route' = IF rec[a].agent THEN route \ {a} ELSE route
    /\ rec' = [rec EXCEPT ![a].agent = FALSE, ![a].state = "enabled"]
    /\ UNCHANGED <<typeDef, rows, targets, api, op, orphaned>>

Disable(a) ==
    /\ op = Idle /\ rec[a].state # "unknown"
    /\ route' = IF rec[a].agent THEN route \ {a} ELSE route
    /\ LET all == Registered(a)
       IN  /\ api' = Deactivate(api, Activations(a, all))
           /\ rec' = [rec EXCEPT ![a] = [state |-> "defined", agent |-> FALSE,
                                         reg |-> Forget(@.reg, all)]]
           /\ DeleteTypes(all)
           /\ orphaned' = orphaned \cup (all \cap rows)
    /\ UNCHANGED <<rows, targets, op>>

\* Resources are made through the API; the workflow that removes one may end
\* when the API is gone.
CreateRow(t) ==
    /\ t \notin rows /\ typeDef[t] # NoDef
    /\ \E v \in api.mux : v[1] = t
    /\ rows' = rows \cup {t}
    /\ UNCHANGED <<typeDef, targets, rec, route, api, op, orphaned>>

DeleteRow(t) ==
    /\ t \in rows
    /\ rows' = rows \ {t}
    /\ UNCHANGED <<typeDef, targets, rec, route, api, op, orphaned>>

\* Only the store survives.
Restart ==
    /\ rec' = [a \in Addons |-> NoRecord]
    /\ route' = {} /\ api' = NoApi /\ op' = Idle
    /\ orphaned' = {t \in Types : typeDef[t] # NoDef}
    /\ UNCHANGED <<typeDef, rows, targets>>

---------------------------------------------------------------------------
\* At most one schema for each type.
Inputs(a) ==
    {S \in SUBSET {s \in Schemas : OwnerOf(s.type) = a} :
        \A s, t \in S : s.type = t.type => s = t}

Next ==
    \/ \E a \in Addons : Enable(a) \/ Disconnect(a) \/ Disable(a)
    \/ \E a \in Addons : \E given \in Inputs(a), agent \in BOOLEAN : Connect(a, given, agent)
    \/ \E s \in Schemas :
          \/ \E point \in {"compile", "platform", "registry"} : ActivationFails(s, point)
          \/ ConnectSchema(s)
    \/ RegisterFails \/ ConnectAgent \/ ConnectTarget \/ TargetFails \/ Connected
    \/ \E t \in Types : CreateRow(t) \/ DeleteRow(t)
    \/ Restart

Spec == Init /\ [][Next]_vars

---------------------------------------------------------------------------
\* What is served is accounted for, at every step of a Connect and after one
\* that failed: each service in the mux is the registered schema of its type,
\* the record of its addon names it, so that Disable reaches it, and its
\* definition is stored with the capabilities it uses; a platform service is
\* there exactly while an extension of its collection is.
ServedIsAccounted ==
    /\ \A v \in Services : v \in api.mux <=> Served(api, v)
    /\ \A v \in api.mux :
          /\ rec[OwnerOf(v[1])].reg[v[1]] = [known |-> TRUE, pkg |-> v[2]]
          /\ typeDef[v[1]] # NoDef /\ api.reg[v[1]].caps \subseteq typeDef[v[1]]
    /\ api.owners = api.mux
    /\ api.platforms = {CollectionOf(v[1]) : v \in api.mux}

\* A disabled addon leaves nothing behind: no service, no route, and no
\* definition but one whose delete resources refused or whose registration an
\* earlier process knew of.
DisabledIsGone ==
    \A a \in Addons : rec[a].state = "defined" =>
        /\ a \notin route
        /\ \A t \in TypesOf(a) :
              /\ \A v \in api.mux : v[1] # t
              /\ typeDef[t] # NoDef => t \in orphaned

\* The router sends deliveries only to the agent of an addon that is connected
\* or about to be: a Connect that fails after it put the agent there takes it
\* away.
RouteMeansConnected ==
    \A a \in route :
        /\ rec[a].agent
        /\ \/ rec[a].state = "connected"
           \/ op.addon = a /\ op.stage \in {"targets", "last"}

\* A connected addon is served: every activation its record names is live,
\* also when an earlier Connect failed after it had renamed a service and left
\* in the record the name it then took away.
ConnectedIsServed ==
    \A t \in Types :
        LET r == rec[OwnerOf(t)]
        IN  r.state = "connected" /\ r.reg[t].pkg # NoPackage => <<t, r.reg[t].pkg>> \in api.mux

\* A Connect that fails leaves what was there and is in its input unchanged:
\* the schema stays served and its definition stored.
FailedConnectPreserves ==
    [][op.stage # "idle" /\ op'.stage = "idle" /\ rec'[op.addon].state = "enabled"
         => \A s \in op.kept : api'.reg[s.type] = s /\ typeDef'[s.type] # NoDef]_vars
=============================================================================
