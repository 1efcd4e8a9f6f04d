----------------------------- MODULE AddonProofs -----------------------------
(***************************************************************************)
(* Proofs about AddonManager, for any set of addons, types and schemas and *)
(* without a hypothesis: whatever fails in whichever Connect, and wherever *)
(* the process ends, what is served stays accounted for, and a Connect     *)
(* that fails leaves what was served before it.                            *)
(***************************************************************************)
EXTENDS AddonManager, TLAPS

Collections == {CollectionOf(t) : t \in Types}
Apis == [mux : SUBSET Services, reg : [Types -> Schemas \cup {NoDef}],
         owners : SUBSET Services, platforms : SUBSET Collections]
Records == [state : {"unknown", "defined", "enabled", "connected"},
            agent : BOOLEAN, reg : [Types -> Registrations]]
Ops == [stage : {"idle", "schemas", "targets", "last"}, addon : Addons,
        todo : SUBSET Schemas, agent : BOOLEAN,
        created : SUBSET Types, activated : SUBSET Services, added : SUBSET Types,
        newTarget : BOOLEAN, kept : SUBSET Schemas]
Definitions == [Types -> CapSets \cup {NoDef}]

---------------------------------------------------------------------------
(* The activator                                                           *)

\* Between two calls of the activator the mux, the owners of platform
\* services and the platform services all follow from the registry.
Sound(x) ==
    /\ \A t \in Types : x.reg[t] # NoDef => x.reg[t].type = t
    /\ x.mux = {v \in Services : Served(x, v)}
    /\ x.owners = x.mux
    /\ x.platforms = {CollectionOf(v[1]) : v \in x.mux}

\* The schemas, their services and their capabilities.
LEMMA SchemaTypes ==
    /\ \A s \in Schemas : /\ s.type \in Types /\ s.pkg \in Nat /\ s.pkg # NoPackage
                          /\ s.caps \in CapSets /\ s # NoDef /\ s.caps # NoDef
                          /\ ServiceOf(s) \in Services
                          /\ ServiceOf(s)[1] = s.type /\ ServiceOf(s)[2] = s.pkg
    /\ \A v \in Services : v[1] \in Types /\ v = <<v[1], v[2]>>
    /\ \A v \in Services : CollectionOf(v[1]) \in Collections
    /\ \A t \in Types : OwnerOf(t) \in Addons
<1>1. \A s \in Schemas : /\ s.type \in Types /\ s.pkg \in Nat /\ s.pkg # NoPackage
                         /\ s.caps \in CapSets /\ s # NoDef /\ s.caps # NoDef
  BY AddonAssumption DEF CapSets, NoPackage
<1>2. \A s \in Schemas : /\ ServiceOf(s) \in Services
                         /\ ServiceOf(s)[1] = s.type /\ ServiceOf(s)[2] = s.pkg
  BY DEF Services, ServiceOf
<1>3. \A v \in Services : v[1] \in Types /\ v = <<v[1], v[2]>>
  BY <1>1 DEF Services, ServiceOf
<1>4. \A v \in Services : CollectionOf(v[1]) \in Collections
  BY <1>3 DEF Collections
<1>5. \A t \in Types : OwnerOf(t) \in Addons
  BY AddonAssumption DEF OwnerOf
<1>. QED
  BY <1>1, <1>2, <1>3, <1>4, <1>5

\* The services of a sound activator are those of the registered schemas.
LEMMA SoundServices ==
  ASSUME NEW x \in Apis, Sound(x)
  PROVE  /\ \A t \in Types : x.reg[t] # NoDef => <<t, x.reg[t].pkg>> \in x.mux
         /\ \A v \in x.mux : /\ v[1] \in Types /\ x.reg[v[1]] # NoDef
                             /\ v[2] = x.reg[v[1]].pkg
<1>1. ASSUME NEW t \in Types, x.reg[t] # NoDef
      PROVE  <<t, x.reg[t].pkg>> \in x.mux
  <2>1. x.reg[t] \in Schemas /\ x.reg[t].type = t
    BY <1>1 DEF Apis, Sound
  <2>2. ServiceOf(x.reg[t]) = <<t, x.reg[t].pkg>>
    BY <2>1 DEF ServiceOf
  <2>3. <<t, x.reg[t].pkg>> \in Services
    BY <2>1, <2>2, SchemaTypes
  <2>. QED
    BY <1>1, <2>3 DEF Sound, Served
<1>2. ASSUME NEW v \in x.mux
      PROVE  v[1] \in Types /\ x.reg[v[1]] # NoDef /\ v[2] = x.reg[v[1]].pkg
  BY <1>2, SchemaTypes DEF Sound, Served
<1>. QED
  BY <1>1, <1>2

\* What each elementary step of the activator changes.
LEMMA TransportFields ==
  ASSUME NEW x \in Apis, NEW v \in Services
  PROVE  /\ Transport(x, v) \in Apis /\ Transport(x, v).mux = x.mux \cup {v}
         /\ Transport(x, v).reg = x.reg /\ Transport(x, v).owners = x.owners
         /\ Transport(x, v).platforms = x.platforms
BY DEF Transport, Apis

LEMMA RetireFields ==
  ASSUME NEW x \in Apis, NEW vs
  PROVE  /\ Retire(x, vs) \in Apis /\ Retire(x, vs).mux = x.mux \ vs
         /\ Retire(x, vs).reg = x.reg /\ Retire(x, vs).owners = x.owners
         /\ Retire(x, vs).platforms = x.platforms
BY DEF Retire, Apis

LEMMA AcquireFields ==
  ASSUME NEW x \in Apis, NEW v \in Services
  PROVE  /\ Acquire(x, v) \in Apis /\ Acquire(x, v).mux = x.mux
         /\ Acquire(x, v).reg = x.reg /\ Acquire(x, v).owners = x.owners \cup {v}
         /\ Acquire(x, v).platforms = x.platforms \cup {CollectionOf(v[1])}
BY SchemaTypes DEF Acquire, Apis

Last(x, vs) ==
    {v \in vs \cap x.owners :
        \A o \in x.owners \ vs : CollectionOf(o[1]) # CollectionOf(v[1])}

LEMMA ReleaseFields ==
  ASSUME NEW x \in Apis, NEW vs
  PROVE  /\ Release(x, vs) \in Apis /\ Release(x, vs).mux = x.mux
         /\ Release(x, vs).reg = x.reg /\ Release(x, vs).owners = x.owners \ vs
         /\ Release(x, vs).platforms = x.platforms \ {CollectionOf(v[1]) : v \in Last(x, vs)}
BY DEF Release, Apis, Last

\* A schema put into the registry.
LEMMA RegistryFields ==
  ASSUME NEW x \in Apis, NEW r \in [Types -> Schemas \cup {NoDef}]
  PROVE  /\ [x EXCEPT !.reg = r] \in Apis /\ [x EXCEPT !.reg = r].mux = x.mux
         /\ [x EXCEPT !.reg = r].reg = r /\ [x EXCEPT !.reg = r].owners = x.owners
         /\ [x EXCEPT !.reg = r].platforms = x.platforms
BY DEF Apis

\* Two activator states with the same fields are the same.
LEMMA ApiEquality ==
  ASSUME NEW x \in Apis, NEW y \in Apis,
         x.mux = y.mux, x.reg = y.reg, x.owners = y.owners, x.platforms = y.platforms
  PROVE  x = y
BY DEF Apis

\* The platform services are those of the owners.
Balanced(x) == x.platforms = {CollectionOf(v[1]) : v \in x.owners}

\* Releasing owners takes away exactly the platform services no other owner
\* needs.
LEMMA ReleaseBalanced ==
  ASSUME NEW x \in Apis, NEW vs, Balanced(x)
  PROVE  Balanced(Release(x, vs))
<1>. DEFINE y == Release(x, vs)
<1>1. y.owners = x.owners \ vs
      /\ y.platforms = x.platforms \ {CollectionOf(v[1]) : v \in Last(x, vs)}
  BY ReleaseFields
<1>. HIDE DEF y
<1>2. ASSUME NEW c \in y.platforms
      PROVE  c \in {CollectionOf(v[1]) : v \in y.owners}
  <2>1. PICK v \in x.owners : c = CollectionOf(v[1])
    BY <1>1, <1>2 DEF Balanced
  <2>2. CASE v \notin vs
    BY <1>1, <2>1, <2>2
  <2>3. CASE v \in vs
    <3>1. v \notin Last(x, vs)
      BY <1>1, <1>2, <2>1
    <3>2. PICK o \in x.owners \ vs : CollectionOf(o[1]) = CollectionOf(v[1])
      BY <2>1, <2>3, <3>1 DEF Last
    <3>. QED
      BY <1>1, <2>1, <3>2
  <2>. QED
    BY <2>2, <2>3
<1>3. ASSUME NEW v \in y.owners
      PROVE  CollectionOf(v[1]) \in y.platforms
  <2>1. v \in x.owners \ vs /\ CollectionOf(v[1]) \in x.platforms
    BY <1>1, <1>3 DEF Balanced
  <2>2. \A u \in Last(x, vs) : CollectionOf(u[1]) # CollectionOf(v[1])
    BY <2>1 DEF Last
  <2>. QED
    BY <1>1, <2>1, <2>2
<1>. QED
  BY <1>2, <1>3 DEF Balanced, y

LEMMA AcquireBalanced ==
  ASSUME NEW x \in Apis, NEW v \in Services, Balanced(x)
  PROVE  Balanced(Acquire(x, v))
<1>. DEFINE y == Acquire(x, v)
<1>1. y.owners = x.owners \cup {v} /\ y.platforms = x.platforms \cup {CollectionOf(v[1])}
  BY AcquireFields
<1>. HIDE DEF y
<1>2. Balanced(y)
  BY <1>1 DEF Balanced
<1>. QED
  BY <1>2 DEF y

\* Activate puts the schema into the registry, and the rest follows: also when
\* it takes the place of another one, under the same service name or another.
LEMMA ActivateSound ==
  ASSUME NEW x \in Apis, Sound(x), NEW s \in Schemas
  PROVE  /\ Activate(x, s) \in Apis /\ Sound(Activate(x, s))
         /\ Activate(x, s).reg = [x.reg EXCEPT ![s.type] = s]
<1>. DEFINE v == ServiceOf(s)
            r == [x.reg EXCEPT ![s.type] = s]
            old == x.reg[s.type]
            y1 == Transport(x, v)
            y2 == Acquire(y1, v)
            y3 == [y2 EXCEPT !.reg = r]
<1>1. /\ v \in Services /\ v[1] = s.type /\ v[2] = s.pkg /\ s.type \in Types
      /\ s # NoDef /\ v = <<s.type, s.pkg>>
  BY SchemaTypes
<1>2. r \in [Types -> Schemas \cup {NoDef}] /\ x.reg \in [Types -> Schemas \cup {NoDef}]
      /\ r[s.type] = s /\ \A t \in Types : t # s.type => r[t] = x.reg[t]
  BY <1>1 DEF Apis
<1>3. Balanced(x)
  BY DEF Sound, Balanced
<1>4. /\ y1 \in Apis /\ y1.mux = x.mux \cup {v} /\ y1.reg = x.reg
      /\ y1.owners = x.owners /\ y1.platforms = x.platforms
  BY <1>1, TransportFields
<1>5. Balanced(y1)
  BY <1>3, <1>4 DEF Balanced
<1>. HIDE DEF v, r, old, y1
<1>6. /\ y2 \in Apis /\ y2.mux = x.mux \cup {v} /\ y2.reg = x.reg
      /\ y2.owners = x.owners \cup {v} /\ Balanced(y2)
  BY <1>1, <1>4, <1>5, AcquireFields, AcquireBalanced
<1>. HIDE DEF y2
<1>7. /\ y3 \in Apis /\ y3.mux = x.mux \cup {v} /\ y3.reg = r
      /\ y3.owners = x.owners \cup {v} /\ Balanced(y3)
  BY <1>2, <1>6, RegistryFields DEF Balanced
<1>. HIDE DEF y3
<1>8. y3 = [Acquire(Transport(x, ServiceOf(s)), ServiceOf(s)) EXCEPT !.reg[s.type] = s]
  BY <1>1, <1>2, <1>6 DEF y3, y2, y1, r, v
<1>9. x.owners = x.mux /\ \A u \in Services : u \in x.mux <=> Served(x, u)
  BY DEF Sound
<1>10. \A t \in Types : r[t] # NoDef => r[t].type = t
  BY <1>1, <1>2 DEF Sound
<1>11. ASSUME NEW y \in Apis, y.reg = r, Balanced(y), y.owners = y.mux,
              \A u \in Services : u \in y.mux <=> Served(y, u)
       PROVE  Sound(y)
  <2>1. y.mux \subseteq Services
    BY DEF Apis
  <2>. QED
    BY <1>10, <1>11, <2>1 DEF Sound, Balanced
<1>12. CASE old = NoDef
  <2>1. Activate(x, s) = y3
    BY <1>8, <1>12 DEF Activate, old
  <2>2. \A u \in Services : u \in y3.mux <=> Served(y3, u)
    BY <1>1, <1>2, <1>7, <1>9, <1>12, SchemaTypes DEF Served, old
  <2>3. Sound(y3)
    BY <1>7, <1>9, <1>11, <2>2
  <2>. QED
    BY <1>7, <2>1, <2>3 DEF r
<1>13. CASE old # NoDef /\ old.pkg = s.pkg
  <2>. DEFINE y == [x EXCEPT !.reg = r]
  <2>1. /\ y \in Apis /\ y.reg = r /\ y.mux = x.mux
        /\ y.owners = x.owners /\ y.platforms = x.platforms
    BY <1>2, RegistryFields
  <2>2. Activate(x, s) = y
    <3>1. Activate(x, s) = [x EXCEPT !.reg[s.type] = s]
      BY <1>13 DEF Activate, old
    <3>. QED
      BY <1>2, <3>1 DEF r, Apis
  <2>. HIDE DEF y
  <2>3. \A u \in Services : u \in y.mux <=> Served(y, u)
    BY <1>1, <1>2, <1>9, <1>13, <2>1, SchemaTypes DEF Served, old
  <2>4. Sound(y)
    BY <1>3, <1>9, <1>11, <2>1, <2>3 DEF Balanced
  <2>. QED
    BY <2>1, <2>2, <2>4 DEF r
<1>14. CASE old # NoDef /\ old.pkg # s.pkg
  <2>. DEFINE w == ServiceOf(old)
              y4 == Retire(y3, {w})
              y == Release(y4, {w})
  <2>1. old \in Schemas /\ w \in Services /\ w = <<s.type, old.pkg>> /\ w # v
    BY <1>1, <1>2, <1>14, SchemaTypes DEF ServiceOf, v, old, Sound
  <2>2. Activate(x, s) = y
    BY <1>8, <1>14 DEF Activate, old
  <2>. HIDE DEF w
  <2>3. /\ y4 \in Apis /\ y4.mux = (x.mux \cup {v}) \ {w} /\ y4.reg = r
        /\ y4.owners = x.owners \cup {v} /\ Balanced(y4)
    BY <1>7, RetireFields DEF Balanced
  <2>. HIDE DEF y4
  <2>4. /\ y \in Apis /\ y.mux = (x.mux \cup {v}) \ {w} /\ y.reg = r
        /\ y.owners = (x.owners \cup {v}) \ {w} /\ Balanced(y)
    BY <2>3, ReleaseFields, ReleaseBalanced
  <2>. HIDE DEF y
  <2>5. ASSUME NEW u \in Services
        PROVE  u \in y.mux <=> Served(y, u)
    <3>1. CASE u[1] # s.type
      BY <1>1, <1>2, <1>9, <2>1, <2>4, <3>1, SchemaTypes DEF Served
    <3>2. CASE u[1] = s.type
      <4>1. u = <<s.type, u[2]>>
        BY <3>2, SchemaTypes
      <4>2. Served(y, u) <=> u[2] = s.pkg
        BY <1>1, <1>2, <2>4, <3>2 DEF Served
      <4>3. Served(x, u) <=> u[2] = old.pkg
        BY <1>14, <3>2 DEF Served, old
      <4>. QED
        BY <1>1, <1>9, <2>1, <2>4, <4>1, <4>2, <4>3
    <3>. QED
      BY <3>1, <3>2
  <2>6. Sound(y)
    BY <1>9, <1>11, <2>4, <2>5
  <2>. QED
    BY <2>2, <2>4, <2>6 DEF r
<1>. QED
  BY <1>12, <1>13, <1>14

\* An Activate that fails, wherever it fails, leaves the activator as it was.
LEMMA ActivateFailsUndone ==
  ASSUME NEW x \in Apis, Sound(x), NEW s \in Schemas, NEW point \in FailurePoints(x, s)
  PROVE  ActivateFails(x, s, point) = x
<1>. DEFINE v == ServiceOf(s)
            y1 == Transport(x, v)
            z1 == Retire(y1, {v})
            y2 == Acquire(y1, v)
            y3 == Retire(y2, {v})
            y4 == Release(y3, {v})
<1>1. v \in Services /\ v[1] = s.type /\ v[2] = s.pkg
  BY SchemaTypes
<1>2. CASE point = "compile"
  BY <1>2 DEF ActivateFails
<1>3. CASE point \in {"platform", "registry"}
  <2>1. v \notin x.mux /\ v \notin x.owners
    BY <1>1, <1>3 DEF FailurePoints, Sound, Served
  <2>. HIDE DEF v
  <2>0. (x.mux \cup {v}) \ {v} = x.mux /\ (x.owners \cup {v}) \ {v} = x.owners
    BY <2>1
  <2>2. /\ y1 \in Apis /\ y1.mux = x.mux \cup {v} /\ y1.reg = x.reg
        /\ y1.owners = x.owners /\ y1.platforms = x.platforms
    BY <1>1, TransportFields
  <2>. HIDE DEF y1
  <2>3. /\ z1 \in Apis /\ z1.mux = x.mux /\ z1.reg = x.reg
        /\ z1.owners = x.owners /\ z1.platforms = x.platforms
    BY <2>0, <2>2, RetireFields
  <2>. HIDE DEF z1
  <2>4. z1 = x
    BY <2>3, ApiEquality
  <2>5. Balanced(y1)
    BY <2>2 DEF Sound, Balanced
  <2>6. /\ y2 \in Apis /\ y2.mux = x.mux \cup {v} /\ y2.reg = x.reg
        /\ y2.owners = x.owners \cup {v} /\ Balanced(y2)
    BY <1>1, <2>2, <2>5, AcquireFields, AcquireBalanced
  <2>. HIDE DEF y2
  <2>7. /\ y3 \in Apis /\ y3.mux = x.mux /\ y3.reg = x.reg
        /\ y3.owners = x.owners \cup {v} /\ Balanced(y3)
    BY <2>0, <2>6, RetireFields DEF Balanced
  <2>. HIDE DEF y3
  <2>8. /\ y4 \in Apis /\ y4.mux = x.mux /\ y4.reg = x.reg
        /\ y4.owners = x.owners /\ Balanced(y4)
    <3>1. /\ y4 \in Apis /\ y4.mux = y3.mux /\ y4.reg = y3.reg
          /\ y4.owners = y3.owners \ {v}
      BY <2>7, ReleaseFields
    <3>2. Balanced(y4)
      BY <2>7, ReleaseBalanced
    <3>. QED
      BY <2>0, <2>7, <3>1, <3>2
  <2>. HIDE DEF y4
  <2>9. y4.platforms = x.platforms
    BY <2>8 DEF Balanced, Sound
  <2>10. y4 = x
    BY <2>8, <2>9, ApiEquality
  <2>11. CASE point = "platform"
    BY <2>4, <2>11 DEF ActivateFails, z1, y1, v
  <2>12. CASE point = "registry"
    BY <2>10, <2>12 DEF ActivateFails, y4, y3, y2, y1, v
  <2>. QED
    BY <1>3, <2>11, <2>12
<1>. QED
  BY <1>2, <1>3 DEF FailurePoints

\* Deactivate takes out of the registry exactly the services it is given that
\* are served, and the rest follows.
LEMMA DeactivateSound ==
  ASSUME NEW x \in Apis, Sound(x), NEW vs \in SUBSET Services
  PROVE  /\ Deactivate(x, vs) \in Apis /\ Sound(Deactivate(x, vs))
         /\ \A t \in Types : Deactivate(x, vs).reg[t] =
               IF x.reg[t] # NoDef /\ <<t, x.reg[t].pkg>> \in vs THEN NoDef ELSE x.reg[t]
<1>. DEFINE gone == {v \in vs : Served(x, v)}
            r == [t \in Types |-> IF \E v \in gone : v[1] = t THEN NoDef ELSE x.reg[t]]
            y1 == Retire(x, gone)
            y2 == [y1 EXCEPT !.reg = r]
            y == Release(y2, gone)
<1>1. /\ x.reg \in [Types -> Schemas \cup {NoDef}] /\ r \in [Types -> Schemas \cup {NoDef}]
      /\ x.mux \subseteq Services /\ gone \subseteq Services
  BY DEF Apis
<1>2. Balanced(x) /\ x.owners = x.mux /\ \A u \in Services : u \in x.mux <=> Served(x, u)
  BY DEF Sound, Balanced
<1>3. ASSUME NEW t \in Types
      PROVE  (\E v \in gone : v[1] = t) <=> x.reg[t] # NoDef /\ <<t, x.reg[t].pkg>> \in vs
  <2>1. ASSUME NEW v \in gone, v[1] = t
        PROVE  x.reg[t] # NoDef /\ <<t, x.reg[t].pkg>> \in vs
    <3>1. v \in vs /\ v = <<v[1], v[2]>>
      BY <2>1, SchemaTypes
    <3>. QED
      BY <2>1, <3>1 DEF Served
  <2>2. ASSUME x.reg[t] # NoDef, <<t, x.reg[t].pkg>> \in vs
        PROVE  \E v \in gone : v[1] = t
    <3>1. Served(x, <<t, x.reg[t].pkg>>)
      BY <2>2 DEF Served
    <3>. QED
      BY <2>2, <3>1
  <2>. QED
    BY <2>1, <2>2
<1>4. \A u \in Services : u \in gone <=> u \in vs /\ Served(x, u)
  OBVIOUS
<1>5. \A t \in Types : r[t] = IF x.reg[t] # NoDef /\ <<t, x.reg[t].pkg>> \in vs
                              THEN NoDef ELSE x.reg[t]
  BY <1>3
<1>6. y1 \in Apis /\ y1.mux = x.mux \ gone /\ y1.owners = x.owners /\ y1.reg = x.reg
      /\ y1.platforms = x.platforms
  BY RetireFields
<1>7. Deactivate(x, vs) = y
  BY <1>6 DEF Deactivate
<1>. HIDE DEF gone, r, y1
<1>8. y2 \in Apis /\ y2.mux = x.mux \ gone /\ y2.owners = x.owners /\ y2.reg = r
      /\ Balanced(y2)
  BY <1>1, <1>2, <1>6, RegistryFields DEF Balanced
<1>. HIDE DEF y2
<1>9. y \in Apis /\ y.mux = x.mux \ gone /\ y.owners = x.owners \ gone /\ y.reg = r
      /\ Balanced(y)
  BY <1>8, ReleaseFields, ReleaseBalanced
<1>. HIDE DEF y
<1>10. ASSUME NEW u \in Services
       PROVE  u \in y.mux <=> Served(y, u)
  <2>1. u[1] \in Types /\ u = <<u[1], u[2]>>
    BY SchemaTypes
  <2>2. Served(y, u) <=> r[u[1]] # NoDef /\ r[u[1]].pkg = u[2]
    BY <1>9 DEF Served
  <2>3. Served(x, u) <=> x.reg[u[1]] # NoDef /\ x.reg[u[1]].pkg = u[2]
    BY DEF Served
  <2>4. Served(y, u) <=> Served(x, u) /\ u \notin vs
    BY <1>5, <2>1, <2>2, <2>3
  <2>. QED
    BY <1>2, <1>4, <1>9, <2>4
<1>11. \A t \in Types : y.reg[t] # NoDef => y.reg[t].type = t
  BY <1>5, <1>9 DEF Sound
<1>12. y.mux = {v \in Services : Served(y, v)} /\ y.owners = y.mux
  BY <1>1, <1>2, <1>9, <1>10
<1>13. Sound(y)
  BY <1>9, <1>11, <1>12 DEF Sound, Balanced
<1>. QED
  BY <1>5, <1>7, <1>9, <1>13

---------------------------------------------------------------------------
(* The inductive invariant                                                 *)

\* The records know only types of their addon, each with a stored definition,
\* which has a capability if the type was ever activated; a definition nobody
\* knows is an orphan; what is served has the recorded name and stored
\* capabilities.
Known ==
    \A a \in Addons, t \in Types :
        /\ rec[a].reg[t].known => OwnerOf(t) = a /\ typeDef[t] # NoDef
        /\ ~rec[a].reg[t].known => rec[a].reg[t].pkg = NoPackage
        /\ rec[a].reg[t].pkg # NoPackage => typeDef[t] # {}
NoStrays ==
    \A t \in Types : typeDef[t] # NoDef => rec[OwnerOf(t)].reg[t].known \/ t \in orphaned
Backed ==
    \A t \in Types : api.reg[t] # NoDef =>
        /\ rec[OwnerOf(t)].reg[t].known
        /\ rec[OwnerOf(t)].reg[t].pkg = api.reg[t].pkg
        /\ api.reg[t].caps \subseteq typeDef[t]

\* A disabled addon has no registration; a route is of an addon that is
\* connected, or of the Connect under way, which will undo it.
Emptied == \A a \in Addons : rec[a].state = "defined" => \A t \in Types : ~rec[a].reg[t].known
InConnect(a) == op.addon = a /\ op.agent /\ op.stage \in {"targets", "last"}
Routed == \A a \in route : rec[a].agent /\ (rec[a].state = "connected" \/ InConnect(a))

\* The compensation of the Connect under way is enough: what it registered is
\* its own, and each of those that is served is remembered as activated.
Undo ==
    op.stage # "idle" =>
        /\ rec[op.addon].state = "enabled"
        /\ \A s \in op.todo : OwnerOf(s.type) = op.addon /\ s.type \notin op.added
        /\ \A s, u \in op.todo : s.type = u.type => s = u
        /\ op.stage # "schemas" => op.todo = {}
        /\ \A v \in op.activated : OwnerOf(v[1]) = op.addon
        /\ op.created \subseteq op.added
        /\ \A t \in op.added : /\ OwnerOf(t) = op.addon /\ rec[op.addon].reg[t].known
                               /\ api.reg[t] # NoDef => <<t, api.reg[t].pkg>> \in op.activated

\* It is not too much: what was served before is not in it.
Kept ==
    op.stage # "idle" => \A s \in op.kept :
        /\ api.reg[s.type] = s /\ s.type \notin op.added /\ ServiceOf(s) \notin op.activated
        /\ \A u \in op.todo : u.type = s.type => u = s

\* A recorded activation is live when its addon is connected, or its Connect
\* has come past the type.
Settled(t) ==
    \/ rec[OwnerOf(t)].state = "connected"
    \/ op.stage # "idle" /\ op.addon = OwnerOf(t) /\ \A s \in op.todo : s.type # t
Live ==
    \A t \in Types :
        rec[OwnerOf(t)].reg[t].pkg # NoPackage /\ Settled(t) =>
            api.reg[t] # NoDef /\ api.reg[t].pkg = rec[OwnerOf(t)].reg[t].pkg

AddonInv ==
    /\ TypeOK /\ Sound(api) /\ Known /\ NoStrays /\ Backed
    /\ Emptied /\ Routed /\ Undo /\ Kept /\ Live

---------------------------------------------------------------------------

LEMMA TypeParts ==
    TypeOK <=> /\ typeDef \in Definitions /\ rows \subseteq Types
               /\ targets \subseteq Addons /\ route \subseteq Addons
               /\ \A t \in rows : typeDef[t] # NoDef
               /\ rec \in [Addons -> Records] /\ api \in Apis /\ op \in Ops
               /\ orphaned \subseteq Types
BY DEF TypeOK, Definitions, Records, Apis, Ops, Collections

LEMMA TypePartsNext ==
    TypeOK' <=> /\ typeDef' \in Definitions /\ rows' \subseteq Types
                /\ targets' \subseteq Addons /\ route' \subseteq Addons
                /\ \A t \in rows' : typeDef'[t] # NoDef
                /\ rec' \in [Addons -> Records] /\ api' \in Apis /\ op' \in Ops
                /\ orphaned' \subseteq Types
BY DEF TypeOK, Definitions, Records, Apis, Ops, Collections

LEMMA IdleIs ==
    /\ Idle \in Ops /\ Idle.stage = "idle" /\ Idle.created = {} /\ Idle.activated = {}
    /\ Idle.added = {}
<1>1. (CHOOSE a \in Addons : TRUE) \in Addons
  BY AddonAssumption
<1>. QED
  BY <1>1 DEF Idle, Ops

LEMMA ForgetIs ==
  ASSUME NEW r \in [Types -> Registrations], NEW ts
  PROVE  /\ Forget(r, ts) \in [Types -> Registrations]
         /\ \A t \in Types : Forget(r, ts)[t] = IF t \in ts THEN NotRegistered ELSE r[t]
BY DEF Forget, Registrations, NotRegistered

LEMMA NothingIs ==
    /\ NoRecord \in Records /\ NoRecord.state = "unknown"
    /\ \A t \in Types : ~NoRecord.reg[t].known /\ NoRecord.reg[t].pkg = NoPackage
    /\ NoApi \in Apis /\ Sound(NoApi) /\ \A t \in Types : NoApi.reg[t] = NoDef
<1>1. /\ NoRecord \in Records /\ NoRecord.state = "unknown"
      /\ \A t \in Types : ~NoRecord.reg[t].known /\ NoRecord.reg[t].pkg = NoPackage
  BY DEF NoRecord, Records, Registrations, NotRegistered
<1>2. /\ NoApi \in Apis /\ \A t \in Types : NoApi.reg[t] = NoDef
      /\ NoApi.mux = {} /\ NoApi.owners = {} /\ NoApi.platforms = {}
  BY DEF NoApi, Apis
<1>3. \A v \in Services : ~Served(NoApi, v)
  BY <1>2, SchemaTypes DEF Served
<1>4. Sound(NoApi)
  BY <1>2, <1>3 DEF Sound
<1>. QED
  BY <1>1, <1>2, <1>4

LEMMA InitInv == Init => AddonInv
<1>. SUFFICES ASSUME Init PROVE AddonInv
  OBVIOUS
<1>1. /\ typeDef = [t \in Types |-> NoDef] /\ rows = {} /\ targets = {} /\ route = {}
      /\ orphaned = {} /\ rec = [a \in Addons |-> NoRecord] /\ api = NoApi /\ op = Idle
  BY DEF Init
<1>2. TypeOK
  BY <1>1, NothingIs, IdleIs, TypeParts DEF Definitions
<1>3. Sound(api)
  BY <1>1, NothingIs
<1>4. Known /\ NoStrays /\ Backed
  BY <1>1, NothingIs DEF Known, NoStrays, Backed
<1>5. Emptied /\ Routed /\ Undo /\ Kept
  BY <1>1, NothingIs, IdleIs DEF Emptied, Routed, Undo, Kept
<1>6. Live
  BY <1>1, NothingIs, IdleIs, SchemaTypes DEF Live
<1>. QED
  BY <1>2, <1>3, <1>4, <1>5, <1>6 DEF AddonInv

---------------------------------------------------------------------------
(* Calls that begin and end in one step                                    *)

LEMMA EnableStep ==
  ASSUME AddonInv, NEW a \in Addons, Enable(a)
  PROVE  AddonInv'
<1>1. /\ typeDef' = typeDef /\ rows' = rows /\ targets' = targets /\ route' = route
      /\ api' = api /\ op' = op /\ orphaned' = orphaned /\ op = Idle
      /\ rec[a].state \in {"unknown", "defined"}
      /\ rec' = [rec EXCEPT ![a].state = "enabled"]
  BY DEF Enable
<1>2. rec \in [Addons -> Records] /\ op.stage = "idle"
  BY <1>1, TypeParts, IdleIs DEF AddonInv
<1>3. /\ rec' \in [Addons -> Records]
      /\ \A b \in Addons : /\ rec'[b].state = IF b = a THEN "enabled" ELSE rec[b].state
                           /\ rec'[b].agent = rec[b].agent /\ rec'[b].reg = rec[b].reg
  BY <1>1, <1>2 DEF Records
<1>4. TypeOK'
  BY <1>1, <1>3, TypeParts, TypePartsNext DEF AddonInv
<1>5. Sound(api)'
  BY <1>1 DEF AddonInv, Sound, Served
<1>6. Known' /\ NoStrays' /\ Backed'
  BY <1>1, <1>3, SchemaTypes DEF AddonInv, Known, NoStrays, Backed
<1>7. Emptied' /\ Undo' /\ Kept'
  BY <1>1, <1>2, <1>3 DEF AddonInv, Emptied, Undo, Kept
<1>8. Routed'
  BY <1>1, <1>2, <1>3, TypeParts DEF AddonInv, Routed, InConnect
<1>9. Live'
  BY <1>1, <1>2, <1>3, SchemaTypes DEF AddonInv, Live, Settled
<1>. QED
  BY <1>4, <1>5, <1>6, <1>7, <1>8, <1>9 DEF AddonInv

LEMMA DisconnectStep ==
  ASSUME AddonInv, NEW a \in Addons, Disconnect(a)
  PROVE  AddonInv'
<1>1. /\ typeDef' = typeDef /\ rows' = rows /\ targets' = targets
      /\ api' = api /\ op' = op /\ orphaned' = orphaned /\ op = Idle
      /\ route' = IF rec[a].agent THEN route \ {a} ELSE route
      /\ rec' = [rec EXCEPT ![a].agent = FALSE, ![a].state = "enabled"]
  BY DEF Disconnect
<1>2. rec \in [Addons -> Records] /\ op.stage = "idle" /\ route \subseteq Addons
  BY <1>1, TypeParts, IdleIs DEF AddonInv
<1>3. /\ rec' \in [Addons -> Records]
      /\ \A b \in Addons : /\ rec'[b].state = IF b = a THEN "enabled" ELSE rec[b].state
                           /\ b # a => rec'[b].agent = rec[b].agent
                           /\ rec'[b].reg = rec[b].reg
  BY <1>1, <1>2 DEF Records
<1>4. a \notin route' /\ route' \subseteq route
  BY <1>1, <1>2 DEF AddonInv, Routed
<1>5. TypeOK'
  BY <1>1, <1>2, <1>3, <1>4, TypeParts, TypePartsNext DEF AddonInv
<1>6. Sound(api)'
  BY <1>1 DEF AddonInv, Sound, Served
<1>7. Known' /\ NoStrays' /\ Backed'
  BY <1>1, <1>3, SchemaTypes DEF AddonInv, Known, NoStrays, Backed
<1>8. Emptied' /\ Undo' /\ Kept'
  BY <1>1, <1>2, <1>3 DEF AddonInv, Emptied, Undo, Kept
<1>9. Routed'
  BY <1>1, <1>2, <1>3, <1>4 DEF AddonInv, Routed, InConnect
<1>10. Live'
  BY <1>1, <1>2, <1>3, SchemaTypes DEF AddonInv, Live, Settled
<1>. QED
  BY <1>5, <1>6, <1>7, <1>8, <1>9, <1>10 DEF AddonInv

LEMMA RowStep ==
  ASSUME AddonInv, NEW t \in Types, CreateRow(t) \/ DeleteRow(t)
  PROVE  AddonInv'
<1>1. /\ typeDef' = typeDef /\ targets' = targets /\ route' = route /\ rec' = rec
      /\ api' = api /\ op' = op /\ orphaned' = orphaned
  BY DEF CreateRow, DeleteRow
<1>2. /\ rows' \subseteq rows \cup {t}
      /\ t \in rows' => typeDef[t] # NoDef
  BY DEF CreateRow, DeleteRow
<1>3. TypeOK'
  BY <1>1, <1>2, TypeParts, TypePartsNext DEF AddonInv
<1>4. Sound(api)'
  BY <1>1 DEF AddonInv, Sound, Served
<1>5. Known' /\ NoStrays' /\ Backed' /\ Emptied'
  BY <1>1 DEF AddonInv, Known, NoStrays, Backed, Emptied
<1>6. Routed' /\ Undo' /\ Kept'
  BY <1>1 DEF AddonInv, Routed, InConnect, Undo, Kept
<1>7. Live'
  BY <1>1 DEF AddonInv, Live, Settled
<1>. QED
  BY <1>3, <1>4, <1>5, <1>6, <1>7 DEF AddonInv

LEMMA RestartStep ==
  ASSUME AddonInv, Restart
  PROVE  AddonInv'
<1>1. /\ typeDef' = typeDef /\ rows' = rows /\ targets' = targets /\ route' = {}
      /\ orphaned' = {t \in Types : typeDef[t] # NoDef}
      /\ rec' = [a \in Addons |-> NoRecord] /\ api' = NoApi /\ op' = Idle
  BY DEF Restart
<1>2. TypeOK'
  BY <1>1, NothingIs, IdleIs, TypeParts, TypePartsNext DEF AddonInv
<1>3. Sound(api)'
  BY <1>1, NothingIs DEF Sound, Served
<1>4. Known' /\ NoStrays' /\ Backed'
  BY <1>1, NothingIs, SchemaTypes DEF Known, NoStrays, Backed
<1>5. Emptied' /\ Routed' /\ Undo' /\ Kept'
  BY <1>1, NothingIs, IdleIs DEF Emptied, Routed, Undo, Kept
<1>6. Live'
  BY <1>1, NothingIs, IdleIs, SchemaTypes DEF Live
<1>. QED
  BY <1>2, <1>3, <1>4, <1>5, <1>6 DEF AddonInv

---------------------------------------------------------------------------
(* The teardown of registrations                                           *)

\* When registrations ts of the addon a are torn down, exactly they leave the
\* registry: the recorded name is the served one.
LEMMA Teardown ==
  ASSUME AddonInv, NEW a \in Addons, NEW ts \in SUBSET Registered(a),
         api' = Deactivate(api, Activations(a, ts)),
         DeleteTypes(ts), orphaned' = orphaned \cup (ts \cap rows),
         rec' \in [Addons -> Records],
         \A b \in Addons, t \in Types :
            rec'[b].reg[t] = IF b = a /\ t \in ts THEN NotRegistered ELSE rec[b].reg[t]
  PROVE  /\ api' \in Apis /\ Sound(api)' /\ typeDef' \in Definitions /\ orphaned' \subseteq Types
         /\ \A t \in rows : typeDef'[t] # NoDef
         /\ \A t \in Types : api'.reg[t] = IF t \in ts THEN NoDef ELSE api.reg[t]
         /\ Known' /\ NoStrays' /\ Backed'
<1>. DEFINE vs == Activations(a, ts)
<1>1. /\ typeDef \in Definitions /\ rows \subseteq Types /\ api \in Apis /\ Sound(api)
      /\ \A t \in rows : typeDef[t] # NoDef
      /\ rec \in [Addons -> Records] /\ orphaned \subseteq Types
      /\ ts \subseteq Types
  BY TypeParts DEF AddonInv, Registered
<1>2. \A t \in ts : OwnerOf(t) = a /\ rec[a].reg[t].known
  BY <1>1 DEF AddonInv, Known, Registered
<1>3. vs \subseteq Services
  BY DEF Activations
<1>4. /\ api' \in Apis /\ Sound(api')
      /\ \A t \in Types : api'.reg[t] =
            IF api.reg[t] # NoDef /\ <<t, api.reg[t].pkg>> \in vs THEN NoDef ELSE api.reg[t]
  <2>. HIDE DEF vs
  <2>1. api' = Deactivate(api, vs)
    BY DEF vs
  <2>. QED
    BY <1>1, <1>3, <2>1, DeactivateSound
<1>5. ASSUME NEW t \in Types, api.reg[t] # NoDef
      PROVE  <<t, api.reg[t].pkg>> \in vs <=> t \in ts
  <2>1. <<t, api.reg[t].pkg>> \in api.mux /\ api.mux \subseteq Services
    BY <1>1, <1>5, SoundServices DEF Apis
  <2>2. rec[OwnerOf(t)].reg[t].pkg = api.reg[t].pkg
    BY <1>5 DEF AddonInv, Backed
  <2>3. CASE t \in ts
    BY <1>2, <2>1, <2>2, <2>3 DEF Activations
  <2>4. CASE t \notin ts
    BY <2>4 DEF Activations
  <2>. QED
    BY <2>3, <2>4
<1>6. \A t \in Types : api'.reg[t] = IF t \in ts THEN NoDef ELSE api.reg[t]
  BY <1>4, <1>5
<1>7. /\ typeDef' \in Definitions
      /\ \A t \in Types : typeDef'[t] = IF t \in ts \ rows THEN NoDef ELSE typeDef[t]
  BY <1>1 DEF DeleteTypes, Definitions
<1>8. \A t \in rows : typeDef'[t] # NoDef
  BY <1>1, <1>7
<1>9. orphaned' \subseteq Types
  BY <1>1
<1>10. \A t \in Types : \A b \in Addons : b # a => ~(t \in ts /\ rec[b].reg[t].known)
  BY <1>2 DEF AddonInv, Known
<1>11. ~NotRegistered.known /\ NotRegistered.pkg = NoPackage
  BY DEF NotRegistered
<1>12. Known'
  <2>1. ASSUME NEW b \in Addons, NEW t \in Types
        PROVE  /\ rec'[b].reg[t].known => OwnerOf(t) = b /\ typeDef'[t] # NoDef
               /\ ~rec'[b].reg[t].known => rec'[b].reg[t].pkg = NoPackage
               /\ rec'[b].reg[t].pkg # NoPackage => typeDef'[t] # {}
    <3>1. CASE t \in ts
      BY <1>2, <1>10, <1>11, <3>1 DEF AddonInv, Known
    <3>2. CASE t \notin ts
      BY <1>7, <3>2 DEF AddonInv, Known
    <3>. QED
      BY <3>1, <3>2
  <2>. QED
    BY <2>1 DEF Known
<1>13. NoStrays'
  BY <1>1, <1>7, SchemaTypes DEF AddonInv, NoStrays
<1>14. Backed'
  BY <1>6, <1>7, SchemaTypes DEF AddonInv, Backed
<1>15. Sound(api)'
  BY <1>4 DEF Sound, Served
<1>. QED
  BY <1>4, <1>6, <1>7, <1>8, <1>9, <1>12, <1>13, <1>14, <1>15

LEMMA DisableStep ==
  ASSUME AddonInv, NEW a \in Addons, Disable(a)
  PROVE  AddonInv'
<1>. DEFINE all == Registered(a)
            r == [state |-> "defined", agent |-> FALSE, reg |-> Forget(rec[a].reg, all)]
<1>1. /\ rows' = rows /\ targets' = targets /\ op' = op /\ op = Idle
      /\ route' = IF rec[a].agent THEN route \ {a} ELSE route
      /\ api' = Deactivate(api, Activations(a, all)) /\ DeleteTypes(all)
      /\ orphaned' = orphaned \cup (all \cap rows)
      /\ rec' = [rec EXCEPT ![a] = r]
  BY DEF Disable
<1>2. rec \in [Addons -> Records] /\ op.stage = "idle" /\ route \subseteq Addons
  BY <1>1, TypeParts, IdleIs DEF AddonInv
<1>3. /\ rec[a].reg \in [Types -> Registrations]
      /\ r \in Records /\ r.state = "defined"
      /\ \A t \in Types : r.reg[t] = IF t \in all THEN NotRegistered ELSE rec[a].reg[t]
  BY <1>2, ForgetIs DEF Records
<1>. HIDE DEF r
<1>4. /\ rec' \in [Addons -> Records]
      /\ \A b \in Addons : b # a => rec'[b] = rec[b]
      /\ rec'[a] = r
  BY <1>1, <1>2, <1>3
<1>5. \A b \in Addons, t \in Types :
         rec'[b].reg[t] = IF b = a /\ t \in all THEN NotRegistered ELSE rec[b].reg[t]
  BY <1>3, <1>4
<1>6. /\ api' \in Apis /\ Sound(api)' /\ typeDef' \in Definitions /\ orphaned' \subseteq Types
      /\ \A t \in rows : typeDef'[t] # NoDef
      /\ \A t \in Types : api'.reg[t] = IF t \in all THEN NoDef ELSE api.reg[t]
      /\ Known' /\ NoStrays' /\ Backed'
  <2>. HIDE DEF all
  <2>1. all \in SUBSET Registered(a)
    BY DEF all
  <2>. QED
    BY <1>1, <1>4, <1>5, <2>1, Teardown
<1>7. a \notin route' /\ route' \subseteq route
  BY <1>1, <1>2 DEF AddonInv, Routed
<1>8. TypeOK'
  BY <1>1, <1>2, <1>4, <1>6, <1>7, TypeParts, TypePartsNext DEF AddonInv
<1>9. Emptied'
  <2>1. \A t \in Types : ~rec'[a].reg[t].known
    BY <1>5 DEF Registered, NotRegistered
  <2>. QED
    BY <1>4, <2>1 DEF AddonInv, Emptied
<1>10. Undo' /\ Kept'
  BY <1>1, <1>2 DEF Undo, Kept
<1>11. Routed'
  BY <1>1, <1>2, <1>4, <1>7 DEF AddonInv, Routed, InConnect
<1>12. Live'
  <2>1. \A t \in all : OwnerOf(t) = a
    BY DEF AddonInv, Known, Registered
  <2>. QED
    BY <1>1, <1>2, <1>3, <1>4, <1>6, <2>1, SchemaTypes DEF AddonInv, Live, Settled
<1>. QED
  BY <1>6, <1>8, <1>9, <1>10, <1>11, <1>12 DEF AddonInv

LEMMA ConnectStep ==
  ASSUME AddonInv, NEW a \in Addons, NEW given \in Inputs(a), NEW agent \in BOOLEAN,
         Connect(a, given, agent)
  PROVE  AddonInv'
<1>. DEFINE stale == Registered(a) \ {s.type : s \in given}
            kept == {s \in given : api.reg[s.type] = s}
<1>1. /\ rows' = rows /\ targets' = targets /\ route' = route /\ op = Idle
      /\ rec[a].state = "enabled"
      /\ api' = Deactivate(api, Activations(a, stale)) /\ DeleteTypes(stale)
      /\ orphaned' = orphaned \cup (stale \cap rows)
      /\ rec' = [rec EXCEPT ![a].reg = Forget(rec[a].reg, stale)]
      /\ op' = [Idle EXCEPT !.stage = "schemas", !.addon = a, !.todo = given, !.agent = agent,
                            !.kept = kept]
  BY DEF Connect
<1>2. rec \in [Addons -> Records] /\ op.stage = "idle" /\ route \subseteq Addons
  BY <1>1, TypeParts, IdleIs DEF AddonInv
<1>3. /\ given \subseteq Schemas /\ kept \subseteq given
      /\ \A s \in given : OwnerOf(s.type) = a
      /\ \A s, u \in given : s.type = u.type => s = u
  BY DEF Inputs
<1>4. /\ op' \in Ops /\ op'.stage = "schemas" /\ op'.addon = a /\ op'.todo = given
      /\ op'.kept = kept /\ op'.created = {} /\ op'.added = {} /\ op'.activated = {}
  <2>. HIDE DEF kept
  <2>. QED
    BY <1>1, <1>3, IdleIs DEF Ops
<1>5. /\ Forget(rec[a].reg, stale) \in [Types -> Registrations]
      /\ \A t \in Types : Forget(rec[a].reg, stale)[t] =
            IF t \in stale THEN NotRegistered ELSE rec[a].reg[t]
  <2>1. rec[a].reg \in [Types -> Registrations]
    BY <1>2 DEF Records
  <2>. QED
    BY <2>1, ForgetIs
<1>6. /\ rec' \in [Addons -> Records]
      /\ \A b \in Addons : rec'[b].state = rec[b].state /\ rec'[b].agent = rec[b].agent
      /\ \A b \in Addons : b # a => rec'[b] = rec[b]
      /\ rec'[a].reg = Forget(rec[a].reg, stale)
  <2>. HIDE DEF stale
  <2>. QED
    BY <1>1, <1>2, <1>5 DEF Records
<1>7. \A b \in Addons, t \in Types :
         rec'[b].reg[t] = IF b = a /\ t \in stale THEN NotRegistered ELSE rec[b].reg[t]
  BY <1>5, <1>6
<1>8. /\ api' \in Apis /\ Sound(api)' /\ typeDef' \in Definitions /\ orphaned' \subseteq Types
      /\ \A t \in rows : typeDef'[t] # NoDef
      /\ \A t \in Types : api'.reg[t] = IF t \in stale THEN NoDef ELSE api.reg[t]
      /\ Known' /\ NoStrays' /\ Backed'
  <2>1. stale \in SUBSET Registered(a)
    OBVIOUS
  <2>. HIDE DEF stale
  <2>. QED
    BY <1>1, <1>6, <1>7, <2>1, Teardown
<1>9. TypeOK'
  BY <1>1, <1>2, <1>4, <1>6, <1>8, TypeParts, TypePartsNext DEF AddonInv
<1>10. Emptied'
  <2>. HIDE DEF stale
  <2>. QED
    BY <1>6, <1>7 DEF AddonInv, Emptied, NotRegistered
<1>11. Routed'
  BY <1>1, <1>2, <1>6 DEF AddonInv, Routed, InConnect
<1>12. Undo'
  BY <1>1, <1>3, <1>4, <1>6 DEF Undo
<1>13. Kept'
  <2>1. \A s \in kept : s.type \in Types /\ s.type \notin stale /\ api.reg[s.type] = s
    BY <1>3, SchemaTypes
  <2>. HIDE DEF stale
  <2>2. \A s \in kept : api'.reg[s.type] = s
    BY <1>8, <2>1
  <2>. HIDE DEF kept
  <2>. QED
    BY <1>3, <1>4, <2>2 DEF Kept
<1>14. Live'
  <2>. SUFFICES ASSUME NEW t \in Types, rec'[OwnerOf(t)].reg[t].pkg # NoPackage, Settled(t)'
                PROVE  api'.reg[t] # NoDef /\ api'.reg[t].pkg = rec'[OwnerOf(t)].reg[t].pkg
    BY DEF Live
  <2>0. OwnerOf(t) \in Addons
    BY SchemaTypes
  <2>1. OwnerOf(t) # a
    <3>. SUFFICES ASSUME OwnerOf(t) = a PROVE FALSE
      OBVIOUS
    <3>1. \A s \in given : s.type # t
      BY <1>1, <1>4, <1>6 DEF Settled
    <3>2. t \notin stale /\ rec[a].reg[t].pkg # NoPackage
      BY <1>7 DEF NotRegistered
    <3>3. rec[a].reg[t].known
      BY <3>2 DEF AddonInv, Known
    <3>. QED
      BY <3>1, <3>2, <3>3 DEF Registered
  <2>2. rec[OwnerOf(t)].state = "connected" /\ rec'[OwnerOf(t)] = rec[OwnerOf(t)]
    BY <1>4, <1>6, <2>0, <2>1 DEF Settled
  <2>3. t \notin stale
    BY <2>1 DEF AddonInv, Known, Registered
  <2>. HIDE DEF stale
  <2>. QED
    BY <1>8, <2>0, <2>2, <2>3 DEF AddonInv, Live, Settled
<1>. QED
  BY <1>8, <1>9, <1>10, <1>11, <1>12, <1>13, <1>14 DEF AddonInv

---------------------------------------------------------------------------
(* The steps of Connect                                                    *)

LEMMA ConnectAgentStep ==
  ASSUME AddonInv, ConnectAgent
  PROVE  AddonInv'
<1>. DEFINE a == op.addon
<1>1. /\ typeDef' = typeDef /\ rows' = rows /\ targets' = targets /\ api' = api
      /\ orphaned' = orphaned /\ op.stage = "schemas" /\ op.todo = {}
      /\ route' = IF op.agent THEN route \cup {a} ELSE route
      /\ rec' = [rec EXCEPT ![a].agent = @ \/ op.agent]
      /\ op' = [op EXCEPT !.stage = "targets"]
  BY DEF ConnectAgent
<1>2. rec \in [Addons -> Records] /\ op \in Ops /\ route \subseteq Addons
  BY TypeParts DEF AddonInv
<1>3. a \in Addons /\ op.agent \in BOOLEAN
  BY <1>2 DEF Ops
<1>4. /\ op' \in Ops /\ op'.stage = "targets" /\ op'.addon = a /\ op'.todo = op.todo
      /\ op'.kept = op.kept /\ op'.created = op.created /\ op'.added = op.added
      /\ op'.activated = op.activated /\ op'.agent = op.agent
  BY <1>1, <1>2 DEF Ops
<1>5. rec[a].state = "enabled"
  BY <1>1 DEF AddonInv, Undo
<1>. HIDE DEF a
<1>6. /\ rec' \in [Addons -> Records]
      /\ \A b \in Addons : rec'[b].state = rec[b].state /\ rec'[b].reg = rec[b].reg
      /\ \A b \in Addons : rec[b].agent => rec'[b].agent
      /\ op.agent => rec'[a].agent
  BY <1>1, <1>2, <1>3 DEF Records
<1>7. TypeOK'
  BY <1>1, <1>2, <1>3, <1>4, <1>6, TypeParts, TypePartsNext DEF AddonInv
<1>8. Sound(api)'
  BY <1>1 DEF AddonInv, Sound, Served
<1>9. Known' /\ NoStrays' /\ Backed' /\ Emptied'
  BY <1>1, <1>6, SchemaTypes DEF AddonInv, Known, NoStrays, Backed, Emptied
<1>10. Routed'
  BY <1>1, <1>2, <1>4, <1>6 DEF AddonInv, Routed, InConnect
<1>11. Undo'
  BY <1>1, <1>3, <1>4, <1>6 DEF AddonInv, Undo, a
<1>12. Kept'
  BY <1>1, <1>4 DEF AddonInv, Kept
<1>13. Live'
  BY <1>1, <1>4, <1>6, SchemaTypes DEF AddonInv, Live, Settled, a
<1>. QED
  BY <1>7, <1>8, <1>9, <1>10, <1>11, <1>12, <1>13 DEF AddonInv

LEMMA ConnectTargetStep ==
  ASSUME AddonInv, ConnectTarget
  PROVE  AddonInv'
<1>1. /\ typeDef' = typeDef /\ rows' = rows /\ rec' = rec /\ api' = api
      /\ orphaned' = orphaned /\ route' = route /\ op.stage = "targets"
      /\ targets' = targets \cup {op.addon}
      /\ op' = [op EXCEPT !.stage = "last", !.newTarget = op.addon \notin targets]
  BY DEF ConnectTarget
<1>2. op \in Ops /\ targets \subseteq Addons
  BY TypeParts DEF AddonInv
<1>3. /\ op' \in Ops /\ op'.stage = "last" /\ op'.addon = op.addon /\ op'.todo = op.todo
      /\ op'.kept = op.kept /\ op'.created = op.created /\ op'.added = op.added
      /\ op'.activated = op.activated /\ op'.agent = op.agent /\ op.addon \in Addons
  BY <1>1, <1>2 DEF Ops
<1>4. TypeOK'
  BY <1>1, <1>2, <1>3, TypeParts, TypePartsNext DEF AddonInv
<1>5. Sound(api)'
  BY <1>1 DEF AddonInv, Sound, Served
<1>6. Known' /\ NoStrays' /\ Backed' /\ Emptied'
  BY <1>1 DEF AddonInv, Known, NoStrays, Backed, Emptied
<1>7. Routed' /\ Undo' /\ Kept'
  BY <1>1, <1>3 DEF AddonInv, Routed, InConnect, Undo, Kept
<1>8. Live'
  BY <1>1, <1>3 DEF AddonInv, Live, Settled
<1>. QED
  BY <1>4, <1>5, <1>6, <1>7, <1>8 DEF AddonInv

LEMMA ConnectedStep ==
  ASSUME AddonInv, Connected
  PROVE  AddonInv'
<1>. DEFINE a == op.addon
<1>1. /\ typeDef' = typeDef /\ rows' = rows /\ targets' = targets /\ api' = api
      /\ orphaned' = orphaned /\ route' = route /\ op.stage = "last"
      /\ rec' = [rec EXCEPT ![a].state = "connected"] /\ op' = Idle
  BY DEF Connected
<1>2. rec \in [Addons -> Records] /\ op \in Ops /\ route \subseteq Addons
  BY TypeParts DEF AddonInv
<1>3. a \in Addons
  BY <1>2 DEF Ops
<1>4. op.todo = {}
  BY <1>1 DEF AddonInv, Undo
<1>. HIDE DEF a
<1>5. /\ rec' \in [Addons -> Records]
      /\ \A b \in Addons : /\ rec'[b].state = IF b = a THEN "connected" ELSE rec[b].state
                           /\ rec'[b].reg = rec[b].reg /\ rec'[b].agent = rec[b].agent
  BY <1>1, <1>2, <1>3 DEF Records
<1>6. TypeOK'
  BY <1>1, <1>5, IdleIs, TypeParts, TypePartsNext DEF AddonInv
<1>7. Sound(api)'
  BY <1>1 DEF AddonInv, Sound, Served
<1>8. Known' /\ NoStrays' /\ Backed' /\ Emptied'
  BY <1>1, <1>5, SchemaTypes DEF AddonInv, Known, NoStrays, Backed, Emptied
<1>9. Routed'
  BY <1>1, <1>2, <1>5 DEF AddonInv, Routed, InConnect, a
<1>10. Undo' /\ Kept'
  BY <1>1, IdleIs DEF Undo, Kept
<1>11. Live'
  BY <1>1, <1>4, <1>5, IdleIs, SchemaTypes DEF AddonInv, Live, Settled, a
<1>. QED
  BY <1>6, <1>7, <1>8, <1>9, <1>10, <1>11 DEF AddonInv

\* A type without capabilities was never activated: nothing is served under
\* it, and no name is recorded.
LEMMA NeverActivated ==
  ASSUME AddonInv, NEW s \in Schemas, Compatible(s), s.caps = {}
  PROVE  rec[OwnerOf(s.type)].reg[s.type].pkg = NoPackage /\ api.reg[s.type] = NoDef
<1>1. s.type \in Types /\ OwnerOf(s.type) \in Addons
  BY SchemaTypes
<1>2. rec[OwnerOf(s.type)].reg[s.type].pkg = NoPackage
  BY <1>1 DEF AddonInv, Known, Compatible
<1>3. api \in Apis
  BY TypeParts DEF AddonInv
<1>4. api.reg[s.type] # NoDef => api.reg[s.type] \in Schemas
  BY <1>1, <1>3 DEF Apis
<1>. QED
  BY <1>1, <1>2, <1>4, SchemaTypes DEF AddonInv, Backed

LEMMA ConnectSchemaStep ==
  ASSUME AddonInv, NEW s \in Schemas, ConnectSchema(s)
  PROVE  AddonInv'
<1>. DEFINE a == op.addon
            ty == s.type
            prev == rec[a].reg[ty]
            active == s.caps # {}
            reg == [known |-> TRUE, pkg |-> IF active THEN s.pkg ELSE prev.pkg]
            old == {<<ty, prev.pkg>>} \cap (Services \ {ServiceOf(s)})
            created == IF typeDef[ty] = NoDef THEN op.created \cup {ty} ELSE op.created
            added == IF prev.known THEN op.added ELSE op.added \cup {ty}
            activated == IF active /\ prev.pkg # s.pkg
                         THEN op.activated \cup {ServiceOf(s)} ELSE op.activated
<1>1. /\ op.stage = "schemas" /\ s \in op.todo /\ Compatible(s)
      /\ rows' = rows /\ targets' = targets /\ route' = route
      /\ typeDef' = [typeDef EXCEPT ![ty] = s.caps]
      /\ api' = IF active THEN Deactivate(Activate(api, s), old) ELSE api
      /\ rec' = [rec EXCEPT ![a].reg[ty] = reg]
      /\ op' = [op EXCEPT !.todo = op.todo \ {s}, !.created = created,
                          !.added = added, !.activated = activated]
      /\ orphaned' = orphaned \ {ty}
  BY DEF ConnectSchema, Activates, Undoes
<1>2. /\ typeDef \in Definitions /\ rows \subseteq Types /\ targets \subseteq Addons
      /\ route \subseteq Addons /\ \A t \in rows : typeDef[t] # NoDef
      /\ rec \in [Addons -> Records] /\ api \in Apis /\ op \in Ops /\ orphaned \subseteq Types
      /\ Sound(api)
  BY TypeParts DEF AddonInv
<1>3. /\ ty \in Types /\ s.caps \in CapSets /\ s.caps # NoDef /\ s # NoDef
      /\ s.pkg # NoPackage /\ ServiceOf(s) \in Services /\ ServiceOf(s)[1] = ty
      /\ ServiceOf(s) = <<ty, s.pkg>>
  BY SchemaTypes DEF ServiceOf
<1>4. /\ OwnerOf(ty) = a /\ a \in Addons /\ ty \notin op.added /\ rec[a].state = "enabled"
      /\ \A u \in op.todo : u.type = ty => u = s
  BY <1>1, <1>2, SchemaTypes DEF AddonInv, Undo
<1>5. /\ prev \in Registrations
      /\ prev.known => typeDef[ty] # NoDef
      /\ prev.pkg # NoPackage => prev.known
      /\ api.reg[ty] # NoDef => prev.known /\ prev.pkg = api.reg[ty].pkg
  <2>1. prev \in Registrations
    BY <1>2, <1>3, <1>4 DEF Records
  <2>. QED
    BY <1>3, <1>4, <2>1 DEF AddonInv, Known, Backed
<1>6. ~active => prev.pkg = NoPackage /\ api.reg[ty] = NoDef
  BY <1>1, <1>4, NeverActivated
<1>7. reg \in Registrations /\ reg.known /\ reg.pkg = IF active THEN s.pkg ELSE NoPackage
  BY <1>5, <1>6 DEF Registrations
<1>. HIDE DEF a, prev, reg
\* The activator.
<1>8. /\ api' \in Apis /\ Sound(api')
      /\ \A t \in Types : t # ty => api'.reg[t] = api.reg[t]
      /\ api'.reg[ty] = IF active THEN s ELSE NoDef
  <2>1. CASE ~active
    BY <1>1, <1>2, <1>6, <2>1
  <2>2. CASE active
    <3>. DEFINE y == Activate(api, s)
    <3>1. y \in Apis /\ Sound(y) /\ y.reg = [api.reg EXCEPT ![ty] = s]
      BY <1>2, ActivateSound
    <3>. HIDE DEF y
    <3>2. /\ \A t \in Types : t # ty => y.reg[t] = api.reg[t]
          /\ y.reg[ty] = s
      BY <1>2, <1>3, <3>1 DEF Apis
    <3>0. old \in SUBSET Services
      OBVIOUS
    <3>3. \A v \in old : v[1] = ty /\ v # ServiceOf(s)
      OBVIOUS
    <3>4. api' = Deactivate(y, old)
      BY <1>1, <2>2 DEF y
    <3>. HIDE DEF old
    <3>5. /\ api' \in Apis /\ Sound(api')
          /\ \A t \in Types : api'.reg[t] =
                IF y.reg[t] # NoDef /\ <<t, y.reg[t].pkg>> \in old THEN NoDef ELSE y.reg[t]
      <4>1. /\ Deactivate(y, old) \in Apis /\ Sound(Deactivate(y, old))
            /\ \A t \in Types : Deactivate(y, old).reg[t] =
                IF y.reg[t] # NoDef /\ <<t, y.reg[t].pkg>> \in old THEN NoDef ELSE y.reg[t]
        BY ONLY <3>0, <3>1, DeactivateSound
      <4>. QED
        BY <3>4, <4>1
    <3>6. \A t \in Types : api'.reg[t] = y.reg[t]
      BY <1>3, <3>2, <3>3, <3>5
    <3>. QED
      BY <1>3, <2>2, <3>2, <3>5, <3>6
  <2>. QED
    BY <2>1, <2>2
\* Records, definitions and the compensation.
<1>9. /\ rec' \in [Addons -> Records]
      /\ \A b \in Addons : rec'[b].state = rec[b].state /\ rec'[b].agent = rec[b].agent
      /\ \A b \in Addons : b # a => rec'[b] = rec[b]
      /\ \A t \in Types : rec'[a].reg[t] = IF t = ty THEN reg ELSE rec[a].reg[t]
  BY <1>1, <1>2, <1>3, <1>4, <1>7 DEF Records
<1>10. /\ typeDef' \in Definitions
       /\ \A t \in Types : typeDef'[t] = IF t = ty THEN s.caps ELSE typeDef[t]
  BY <1>1, <1>2, <1>3 DEF Definitions
<1>11. created \in SUBSET Types /\ added \in SUBSET Types /\ activated \in SUBSET Services
  BY <1>2, <1>3 DEF Ops
<1>12. created \subseteq added
  <2>1. op.created \subseteq op.added
    BY <1>1 DEF AddonInv, Undo
  <2>. QED
    BY <1>5, <2>1
<1>13. /\ op' \in Ops /\ op'.stage = "schemas" /\ op'.addon = a /\ op'.todo = op.todo \ {s}
       /\ op'.kept = op.kept /\ op'.created = created /\ op'.added = added
       /\ op'.activated = activated /\ op'.agent = op.agent
  <2>. HIDE DEF created, added, activated
  <2>. QED
    BY <1>1, <1>2, <1>11 DEF Ops, a
<1>14. TypeOK'
  BY <1>1, <1>2, <1>3, <1>8, <1>9, <1>10, <1>13, TypePartsNext
<1>15. Sound(api)'
  BY <1>8 DEF Sound, Served
<1>16. Known'
  <2>1. ASSUME NEW b \in Addons, NEW t \in Types
        PROVE  /\ rec'[b].reg[t].known => OwnerOf(t) = b /\ typeDef'[t] # NoDef
               /\ ~rec'[b].reg[t].known => rec'[b].reg[t].pkg = NoPackage
               /\ rec'[b].reg[t].pkg # NoPackage => typeDef'[t] # {}
    <3>1. CASE t = ty /\ b = a
      BY <1>3, <1>4, <1>7, <1>9, <1>10, <3>1
    <3>2. CASE t = ty /\ b # a
      BY <1>3, <1>4, <1>9, <3>2 DEF AddonInv, Known
    <3>3. CASE t # ty
      BY <1>9, <1>10, <3>3 DEF AddonInv, Known
    <3>. QED
      BY <3>1, <3>2, <3>3
  <2>. QED
    BY <2>1 DEF Known
<1>17. NoStrays'
  BY <1>1, <1>4, <1>7, <1>9, <1>10, SchemaTypes DEF AddonInv, NoStrays
<1>18. Backed'
  <2>1. ASSUME NEW t \in Types, api'.reg[t] # NoDef
        PROVE  /\ rec'[OwnerOf(t)].reg[t].known
               /\ rec'[OwnerOf(t)].reg[t].pkg = api'.reg[t].pkg
               /\ api'.reg[t].caps \subseteq typeDef'[t]
    <3>1. CASE t = ty
      BY <1>4, <1>7, <1>8, <1>9, <1>10, <2>1, <3>1
    <3>2. CASE t # ty
      BY <1>8, <1>9, <1>10, <2>1, <3>2, SchemaTypes DEF AddonInv, Backed
    <3>. QED
      BY <3>1, <3>2
  <2>. QED
    BY <2>1 DEF Backed
<1>19. Emptied'
  BY <1>4, <1>9 DEF AddonInv, Emptied
<1>20. Routed'
  BY <1>1, <1>2, <1>9, <1>13 DEF AddonInv, Routed, InConnect
<1>21. Undo'
  <2>1. \A u \in op'.todo : OwnerOf(u.type) = a /\ u.type \notin added
    BY <1>1, <1>4, <1>13 DEF AddonInv, Undo, a
  <2>2. \A u, w \in op'.todo : u.type = w.type => u = w
    BY <1>1, <1>13 DEF AddonInv, Undo
  <2>3. \A v \in activated : OwnerOf(v[1]) = a
    BY <1>1, <1>3, <1>4 DEF AddonInv, Undo, a
  <2>4. ASSUME NEW t \in added
        PROVE  /\ OwnerOf(t) = a /\ rec'[a].reg[t].known
               /\ api'.reg[t] # NoDef => <<t, api'.reg[t].pkg>> \in activated
    <3>0. t \in Types
      BY <1>11
    <3>1. CASE t = ty
      <4>1. ~prev.known
        BY <1>4, <2>4, <3>1
      <4>2. active => prev.pkg # s.pkg
        BY <1>3, <1>5, <4>1
      <4>. QED
        BY <1>3, <1>4, <1>7, <1>8, <1>9, <3>1, <4>2
    <3>2. CASE t # ty
      <4>1. t \in op.added
        BY <2>4, <3>2
      <4>2. /\ OwnerOf(t) = a /\ rec[a].reg[t].known
            /\ api.reg[t] # NoDef => <<t, api.reg[t].pkg>> \in op.activated
        BY <1>1, <4>1 DEF AddonInv, Undo, a
      <4>. QED
        BY <1>8, <1>9, <3>0, <3>2, <4>2
    <3>. QED
      BY <3>1, <3>2
  <2>. HIDE DEF created, added, activated
  <2>. QED
    BY <1>4, <1>9, <1>12, <1>13, <2>1, <2>2, <2>3, <2>4 DEF Undo
<1>22. Kept'
  <2>. SUFFICES ASSUME NEW k \in op.kept
                PROVE  /\ api'.reg[k.type] = k /\ k.type \notin added
                       /\ ServiceOf(k) \notin activated
                       /\ \A u \in op'.todo : u.type = k.type => u = k
    <3>. HIDE DEF created, added, activated
    <3>. QED
      BY <1>13 DEF Kept
  <2>1. /\ api.reg[k.type] = k /\ k.type \notin op.added /\ ServiceOf(k) \notin op.activated
        /\ \A u \in op.todo : u.type = k.type => u = k
    BY <1>1 DEF AddonInv, Kept
  <2>2. k \in Schemas /\ k # NoDef /\ k.type \in Types /\ ServiceOf(k)[1] = k.type
    BY <1>2, SchemaTypes DEF Ops
  <2>3. CASE k.type # ty
    BY <1>3, <1>8, <1>13, <2>1, <2>2, <2>3
  <2>4. CASE k.type = ty
    <3>1. k = s
      BY <1>1, <2>1, <2>4
    <3>2. prev.known /\ prev.pkg = s.pkg /\ active
      BY <1>5, <1>6, <2>1, <2>2, <2>4, <3>1
    <3>. QED
      BY <1>8, <1>13, <2>1, <2>4, <3>1, <3>2
  <2>. QED
    BY <2>3, <2>4
<1>23. Live'
  <2>. SUFFICES ASSUME NEW t \in Types, rec'[OwnerOf(t)].reg[t].pkg # NoPackage, Settled(t)'
                PROVE  api'.reg[t] # NoDef /\ api'.reg[t].pkg = rec'[OwnerOf(t)].reg[t].pkg
    BY DEF Live
  <2>1. CASE t = ty
    BY <1>3, <1>4, <1>7, <1>8, <1>9, <2>1
  <2>2. CASE t # ty
    <3>1. OwnerOf(t) \in Addons /\ rec'[OwnerOf(t)].reg[t] = rec[OwnerOf(t)].reg[t]
      BY <1>9, <2>2, SchemaTypes
    <3>2. Settled(t)
      BY <1>1, <1>9, <1>13, <2>2, <3>1 DEF Settled, a
    <3>. QED
      BY <1>8, <2>2, <3>1, <3>2 DEF AddonInv, Live
  <2>. QED
    BY <2>1, <2>2
<1>. QED
  BY <1>14, <1>15, <1>16, <1>17, <1>18, <1>19, <1>20, <1>21, <1>22, <1>23 DEF AddonInv

---------------------------------------------------------------------------
(* The rollback                                                            *)

\* What a failed step hands to the rollback: the compensation c so far, the
\* registrations r of the addon and the definitions defs, which the failed
\* step may have extended by the type it was at.
Undoable(c, r, defs) ==
    /\ c.addon = op.addon /\ c.activated = op.activated
    /\ c.stage = op.stage /\ c.agent = op.agent
    /\ c.created \subseteq c.added
    /\ \A t \in c.added : /\ OwnerOf(t) = op.addon
                          /\ api.reg[t] # NoDef => <<t, api.reg[t].pkg>> \in op.activated
    /\ \A s \in op.kept : s.type \notin c.added
    /\ \A t \in Types :
          /\ r[t].pkg = rec[op.addon].reg[t].pkg
          /\ rec[op.addon].reg[t].known => r[t].known
          /\ r[t].known => OwnerOf(t) = op.addon /\ defs[t] # NoDef
          /\ typeDef[t] # NoDef => defs[t] # NoDef /\ typeDef[t] \subseteq defs[t]
          /\ defs[t] # NoDef => typeDef[t] # NoDef \/ r[t].known

\* The rollback keeps the invariant, and what was served before the Connect
\* and is in its input stays served with its definition.
LEMMA RollbackStep ==
  ASSUME AddonInv, op.stage # "idle",
         NEW c \in Ops, NEW r \in [Types -> Registrations], NEW defs \in Definitions,
         Undoable(c, r, defs), Rollback(c, r, api, defs)
  PROVE  /\ AddonInv'
         /\ \A s \in op.kept : api'.reg[s.type] = s /\ typeDef'[s.type] # NoDef
<1>. DEFINE a == op.addon
            gone == AgentRegistered(c)
<1>1. /\ targets' = IF c.newTarget THEN targets \ {a} ELSE targets
      /\ api' = Deactivate(api, op.activated)
      /\ rec' = [rec EXCEPT ![a].reg = Forget(r, c.added), ![a].agent = @ /\ ~gone]
      /\ route' = IF gone THEN route \ {a} ELSE route
      /\ typeDef' = [t \in Types |-> IF t \in c.created \ rows THEN NoDef ELSE defs[t]]
      /\ orphaned' = orphaned \cup {t \in c.added : typeDef'[t] # NoDef}
      /\ op' = Idle /\ rows' = rows
  BY DEF Rollback, Undoable
<1>2. /\ typeDef \in Definitions /\ rows \subseteq Types /\ targets \subseteq Addons
      /\ route \subseteq Addons /\ \A t \in rows : typeDef[t] # NoDef
      /\ rec \in [Addons -> Records] /\ api \in Apis /\ op \in Ops /\ orphaned \subseteq Types
      /\ Sound(api)
  BY TypeParts DEF AddonInv
<1>3. /\ a \in Addons /\ rec[a].state = "enabled" /\ c.added \subseteq Types
      /\ c.created \subseteq c.added /\ op.activated \in SUBSET Services
      /\ \A t \in c.added : OwnerOf(t) = a
      /\ \A v \in op.activated : OwnerOf(v[1]) = a
  BY <1>2 DEF AddonInv, Undo, Undoable, Ops
<1>4. gone <=> op.agent /\ op.stage \in {"targets", "last"}
  BY DEF AgentRegistered, Undoable
<1>5. /\ api' \in Apis /\ Sound(api')
      /\ \A t \in Types : api'.reg[t] =
            IF api.reg[t] # NoDef /\ <<t, api.reg[t].pkg>> \in op.activated
            THEN NoDef ELSE api.reg[t]
  <2>1. /\ Deactivate(api, op.activated) \in Apis /\ Sound(Deactivate(api, op.activated))
        /\ \A t \in Types : Deactivate(api, op.activated).reg[t] =
              IF api.reg[t] # NoDef /\ <<t, api.reg[t].pkg>> \in op.activated
              THEN NoDef ELSE api.reg[t]
    BY <1>2, <1>3, DeactivateSound
  <2>. QED
    BY <1>1, <2>1
<1>6. \A t \in Types : OwnerOf(t) # a => api'.reg[t] = api.reg[t]
  BY <1>3, <1>5
<1>7. /\ Forget(r, c.added) \in [Types -> Registrations]
      /\ \A t \in Types : Forget(r, c.added)[t] = IF t \in c.added THEN NotRegistered ELSE r[t]
  BY ForgetIs
<1>. HIDE DEF a, gone
<1>8. /\ rec' \in [Addons -> Records]
      /\ \A b \in Addons : rec'[b].state = rec[b].state
      /\ \A b \in Addons : b # a => rec'[b] = rec[b]
      /\ \A t \in Types : rec'[a].reg[t] = IF t \in c.added THEN NotRegistered ELSE r[t]
  <2>1. gone \in BOOLEAN
    BY <1>4
  <2>2. /\ rec' \in [Addons -> Records]
        /\ \A b \in Addons : rec'[b].state = rec[b].state
        /\ \A b \in Addons : b # a => rec'[b] = rec[b]
        /\ rec'[a].reg = Forget(r, c.added)
    BY <1>1, <1>2, <1>3, <1>7, <2>1 DEF Records
  <2>. QED
    BY <1>7, <2>2
<1>9. ~NotRegistered.known /\ NotRegistered.pkg = NoPackage
  BY DEF NotRegistered
<1>10. /\ typeDef' \in Definitions
       /\ \A t \in Types : typeDef'[t] = IF t \in c.created \ rows THEN NoDef ELSE defs[t]
  BY <1>1 DEF Definitions
<1>11. \A t \in Types :
          /\ r[t].pkg = rec[a].reg[t].pkg
          /\ rec[a].reg[t].known => r[t].known
          /\ r[t].known => OwnerOf(t) = a /\ defs[t] # NoDef
          /\ typeDef[t] # NoDef => defs[t] # NoDef /\ typeDef[t] \subseteq defs[t]
          /\ defs[t] # NoDef => typeDef[t] # NoDef \/ r[t].known
  BY DEF Undoable, a
<1>12. orphaned' \subseteq Types /\ \A t \in rows : typeDef'[t] # NoDef
  BY <1>1, <1>2, <1>3, <1>10, <1>11
<1>13. TypeOK'
  BY <1>1, <1>2, <1>3, <1>5, <1>8, <1>10, <1>12, IdleIs, TypePartsNext
<1>14. Sound(api)'
  BY <1>5 DEF Sound, Served
<1>15. Known'
  <2>1. ASSUME NEW b \in Addons, NEW t \in Types
        PROVE  /\ rec'[b].reg[t].known => OwnerOf(t) = b /\ typeDef'[t] # NoDef
               /\ ~rec'[b].reg[t].known => rec'[b].reg[t].pkg = NoPackage
               /\ rec'[b].reg[t].pkg # NoPackage => typeDef'[t] # {}
    <3>0. /\ rec[b].reg[t].known => OwnerOf(t) = b /\ typeDef[t] # NoDef
          /\ ~rec[b].reg[t].known => rec[b].reg[t].pkg = NoPackage
          /\ rec[b].reg[t].pkg # NoPackage => typeDef[t] # {}
      BY DEF AddonInv, Known
    <3>1. CASE b = a /\ t \in c.added
      BY <1>8, <1>9, <3>1
    <3>2. CASE b = a /\ t \notin c.added
      <4>1. typeDef'[t] = defs[t] /\ rec'[b].reg[t] = r[t]
        BY <1>3, <1>8, <1>10, <3>2
      <4>. QED
        BY <1>11, <3>0, <3>2, <4>1
    <3>3. CASE b # a
      <4>1. rec'[b].reg[t].known = rec[b].reg[t].known
            /\ rec'[b].reg[t].pkg = rec[b].reg[t].pkg
        BY <1>8, <3>3
      <4>2. rec[b].reg[t].known => typeDef'[t] = defs[t]
        BY <1>3, <1>10, <3>0, <3>3
      <4>. QED
        BY <1>11, <3>0, <4>1, <4>2
    <3>. QED
      BY <3>1, <3>2, <3>3
  <2>. QED
    BY <2>1 DEF Known
<1>16. NoStrays'
  <2>1. ASSUME NEW t \in Types, typeDef'[t] # NoDef
        PROVE  rec'[OwnerOf(t)].reg[t].known \/ t \in orphaned'
    <3>0. OwnerOf(t) \in Addons /\ (typeDef[t] # NoDef => rec[OwnerOf(t)].reg[t].known \/ t \in orphaned)
      BY SchemaTypes DEF AddonInv, NoStrays
    <3>1. CASE t \in c.added
      BY <1>1, <2>1, <3>1
    <3>2. CASE t \notin c.added /\ OwnerOf(t) = a
      BY <1>1, <1>8, <1>10, <1>11, <2>1, <3>0, <3>2
    <3>3. CASE t \notin c.added /\ OwnerOf(t) # a
      BY <1>1, <1>8, <1>10, <1>11, <2>1, <3>0, <3>3
    <3>. QED
      BY <3>1, <3>2, <3>3
  <2>. QED
    BY <2>1 DEF NoStrays
<1>17. Backed'
  <2>1. ASSUME NEW t \in Types, api'.reg[t] # NoDef
        PROVE  /\ rec'[OwnerOf(t)].reg[t].known
               /\ rec'[OwnerOf(t)].reg[t].pkg = api'.reg[t].pkg
               /\ api'.reg[t].caps \subseteq typeDef'[t]
    <3>0. /\ OwnerOf(t) \in Addons /\ api'.reg[t] = api.reg[t] /\ api.reg[t] # NoDef
          /\ ~(<<t, api.reg[t].pkg>> \in op.activated)
      BY <1>5, <2>1, SchemaTypes
    <3>1. t \notin c.added
      BY <3>0 DEF Undoable
    <3>2. /\ rec[OwnerOf(t)].reg[t].known /\ rec[OwnerOf(t)].reg[t].pkg = api.reg[t].pkg
          /\ api.reg[t].caps \subseteq typeDef[t] /\ typeDef[t] # NoDef
      BY <3>0 DEF AddonInv, Backed, Known
    <3>3. rec'[OwnerOf(t)].reg[t].known /\ rec'[OwnerOf(t)].reg[t].pkg = rec[OwnerOf(t)].reg[t].pkg
      BY <1>8, <1>11, <3>0, <3>1, <3>2
    <3>4. typeDef'[t] = defs[t] /\ typeDef[t] \subseteq defs[t]
      BY <1>3, <1>10, <1>11, <3>1, <3>2
    <3>. QED
      BY <3>0, <3>2, <3>3, <3>4
  <2>. QED
    BY <2>1 DEF Backed
<1>18. Emptied'
  BY <1>3, <1>8 DEF AddonInv, Emptied
<1>19. Routed'
  <2>1. ASSUME NEW b \in route'
        PROVE  rec'[b].agent /\ rec'[b].state = "connected"
    <3>1. b \in route /\ b \in Addons
      BY <1>1, <1>2, <2>1
    <3>2. b # a
      BY <1>1, <1>3, <1>4, <2>1, <3>1 DEF AddonInv, Routed, InConnect
    <3>. QED
      BY <1>8, <3>1, <3>2 DEF AddonInv, Routed, InConnect, a
  <2>. QED
    BY <2>1 DEF Routed
<1>20. Undo' /\ Kept'
  BY <1>1, IdleIs DEF Undo, Kept
<1>21. Live'
  <2>. SUFFICES ASSUME NEW t \in Types, rec'[OwnerOf(t)].reg[t].pkg # NoPackage, Settled(t)'
                PROVE  api'.reg[t] # NoDef /\ api'.reg[t].pkg = rec'[OwnerOf(t)].reg[t].pkg
    BY DEF Live
  <2>1. OwnerOf(t) \in Addons /\ rec[OwnerOf(t)].state = "connected"
    BY <1>1, <1>8, IdleIs, SchemaTypes DEF Settled
  <2>2. OwnerOf(t) # a
    BY <1>3, <2>1
  <2>. QED
    BY <1>6, <1>8, <2>1, <2>2 DEF AddonInv, Live, Settled
<1>22. ASSUME NEW s \in op.kept
       PROVE  api'.reg[s.type] = s /\ typeDef'[s.type] # NoDef
  <2>1. s \in Schemas /\ s # NoDef /\ s.type \in Types /\ ServiceOf(s) = <<s.type, s.pkg>>
    BY <1>2, SchemaTypes DEF Ops, ServiceOf
  <2>2. api.reg[s.type] = s /\ ServiceOf(s) \notin op.activated
    BY DEF AddonInv, Kept
  <2>3. s.type \notin c.added
    BY DEF Undoable
  <2>4. typeDef[s.type] # NoDef
    BY <2>1, <2>2, SchemaTypes DEF AddonInv, Backed, Known
  <2>. QED
    BY <1>3, <1>5, <1>10, <1>11, <2>1, <2>2, <2>3, <2>4
<1>. QED
  BY <1>13, <1>14, <1>15, <1>16, <1>17, <1>18, <1>19, <1>20, <1>21, <1>22 DEF AddonInv

\* The step fails before it changed anything: a definition that cannot be
\* written, or a target.
LEMMA PlainRollback ==
  ASSUME AddonInv, RegisterFails \/ TargetFails
  PROVE  /\ AddonInv'
         /\ \A s \in op.kept : api'.reg[s.type] = s /\ typeDef'[s.type] # NoDef
<1>. DEFINE r == rec[op.addon].reg
<1>1. op.stage # "idle" /\ Rollback(op, r, api, typeDef)
  BY DEF RegisterFails, TargetFails
<1>2. /\ typeDef \in Definitions /\ rec \in [Addons -> Records] /\ op \in Ops
      /\ op.addon \in Addons
  BY TypeParts DEF AddonInv, Ops
<1>3. r \in [Types -> Registrations]
  BY <1>2 DEF Records
<1>4. Undoable(op, r, typeDef)
  BY <1>1, <1>2 DEF AddonInv, Undo, Kept, Known, Undoable
<1>. QED
  BY <1>1, <1>2, <1>3, <1>4, RollbackStep

\* The schema is registered and its activation fails: the activator has undone
\* what it did, the rest is the rollback's.
LEMMA ActivationRollback ==
  ASSUME AddonInv, NEW s \in Schemas, NEW point, ActivationFails(s, point)
  PROVE  /\ AddonInv'
         /\ \A k \in op.kept : api'.reg[k.type] = k /\ typeDef'[k.type] # NoDef
<1>. DEFINE a == op.addon
            ty == s.type
            prev == rec[a].reg[ty]
            created == IF typeDef[ty] = NoDef THEN op.created \cup {ty} ELSE op.created
            added == IF prev.known THEN op.added ELSE op.added \cup {ty}
            c == [op EXCEPT !.created = created, !.added = added]
            r == [rec[a].reg EXCEPT ![ty].known = TRUE]
            defs == [typeDef EXCEPT ![ty] = s.caps]
<1>1. /\ op.stage = "schemas" /\ s \in op.todo /\ Compatible(s)
      /\ point \in FailurePoints(api, s)
      /\ Rollback(c, r, ActivateFails(api, s, point), defs)
  BY DEF ActivationFails, Register
<1>2. /\ typeDef \in Definitions /\ rec \in [Addons -> Records] /\ api \in Apis /\ op \in Ops
      /\ Sound(api)
  BY TypeParts DEF AddonInv
<1>3. ActivateFails(api, s, point) = api
  BY <1>1, <1>2, ActivateFailsUndone
<1>4. Rollback(c, r, api, defs)
  BY <1>1, <1>3
<1>5. /\ ty \in Types /\ s.caps \in CapSets /\ s.caps # NoDef
  BY SchemaTypes
<1>6. /\ OwnerOf(ty) = a /\ a \in Addons /\ ty \notin op.added
  BY <1>1, <1>2, SchemaTypes DEF AddonInv, Undo
<1>7. /\ rec[a].reg \in [Types -> Registrations] /\ prev \in Registrations
      /\ prev.known => typeDef[ty] # NoDef
      /\ api.reg[ty] # NoDef => prev.known
  <2>1. rec[a].reg \in [Types -> Registrations] /\ prev \in Registrations
    BY <1>2, <1>5, <1>6 DEF Records
  <2>. QED
    BY <1>5, <1>6, <2>1 DEF AddonInv, Known, Backed
<1>8. /\ r \in [Types -> Registrations]
      /\ \A t \in Types : /\ r[t].pkg = rec[a].reg[t].pkg
                          /\ rec[a].reg[t].known => r[t].known
                          /\ t # ty => r[t].known = rec[a].reg[t].known
      /\ r[ty].known
  BY <1>5, <1>7 DEF Registrations
<1>9. /\ defs \in Definitions
      /\ \A t \in Types : defs[t] = IF t = ty THEN s.caps ELSE typeDef[t]
  BY <1>2, <1>5 DEF Definitions
<1>10. created \in SUBSET Types /\ added \in SUBSET Types
  BY <1>2, <1>5 DEF Ops
<1>11. created \subseteq added
  <2>1. op.created \subseteq op.added
    BY <1>1 DEF AddonInv, Undo
  <2>. QED
    BY <1>7, <2>1
<1>12. \A t \in added : /\ OwnerOf(t) = a
                        /\ api.reg[t] # NoDef => <<t, api.reg[t].pkg>> \in op.activated
  <2>1. \A t \in op.added : /\ OwnerOf(t) = a
                            /\ api.reg[t] # NoDef => <<t, api.reg[t].pkg>> \in op.activated
    BY <1>1 DEF AddonInv, Undo
  <2>. QED
    BY <1>6, <1>7, <2>1
<1>13. \A k \in op.kept : k.type \notin added
  <2>1. ASSUME NEW k \in op.kept
        PROVE  k.type \notin added
    <3>1. api.reg[k.type] = k /\ k.type \notin op.added
      BY <1>1 DEF AddonInv, Kept
    <3>2. k # NoDef
      BY <1>2, SchemaTypes DEF Ops
    <3>. QED
      BY <1>7, <3>1, <3>2
  <2>. QED
    BY <2>1
<1>. HIDE DEF created, added
<1>14. /\ c \in Ops /\ c.addon = a /\ c.activated = op.activated /\ c.stage = op.stage
       /\ c.agent = op.agent /\ c.created = created /\ c.added = added
  BY <1>2, <1>10 DEF Ops
<1>15. \A t \in Types :
          /\ r[t].known => OwnerOf(t) = a /\ defs[t] # NoDef
          /\ typeDef[t] # NoDef => defs[t] # NoDef /\ typeDef[t] \subseteq defs[t]
          /\ defs[t] # NoDef => typeDef[t] # NoDef \/ r[t].known
  <2>. HIDE DEF r, defs, prev, a
  <2>1. \A t \in Types : rec[a].reg[t].known => OwnerOf(t) = a /\ typeDef[t] # NoDef
    BY <1>6 DEF AddonInv, Known
  <2>. QED
    BY <1>1, <1>5, <1>6, <1>8, <1>9, <2>1 DEF Compatible
<1>. HIDE DEF c, r, defs
<1>16. Undoable(c, r, defs)
  BY <1>8, <1>11, <1>12, <1>13, <1>14, <1>15 DEF Undoable
<1>17. op.stage # "idle"
  BY <1>1
<1>. QED
  BY <1>4, <1>8, <1>9, <1>14, <1>16, <1>17, RollbackStep

---------------------------------------------------------------------------
(* The theorems                                                            *)

LEMMA InvStep == AddonInv /\ [Next]_vars => AddonInv'
<1>. SUFFICES ASSUME AddonInv, [Next]_vars PROVE AddonInv'
  OBVIOUS
<1>1. CASE \E a \in Addons : Enable(a) \/ Disconnect(a) \/ Disable(a)
  BY <1>1, EnableStep, DisconnectStep, DisableStep
<1>2. CASE \E a \in Addons : \E given \in Inputs(a), agent \in BOOLEAN :
              Connect(a, given, agent)
  BY <1>2, ConnectStep
<1>3. CASE \E s \in Schemas :
              \/ \E point \in {"compile", "platform", "registry"} : ActivationFails(s, point)
              \/ ConnectSchema(s)
  BY <1>3, ActivationRollback, ConnectSchemaStep
<1>4. CASE RegisterFails \/ TargetFails
  BY <1>4, PlainRollback
<1>5. CASE ConnectAgent
  BY <1>5, ConnectAgentStep
<1>6. CASE ConnectTarget
  BY <1>6, ConnectTargetStep
<1>7. CASE Connected
  BY <1>7, ConnectedStep
<1>8. CASE \E t \in Types : CreateRow(t) \/ DeleteRow(t)
  BY <1>8, RowStep
<1>9. CASE Restart
  BY <1>9, RestartStep
<1>10. CASE UNCHANGED vars
  <2>1. /\ typeDef' = typeDef /\ rows' = rows /\ targets' = targets /\ rec' = rec
        /\ route' = route /\ api' = api /\ op' = op /\ orphaned' = orphaned
    BY <1>10 DEF vars
  <2>2. TypeOK'
    BY <2>1, TypeParts, TypePartsNext DEF AddonInv
  <2>3. Sound(api)'
    BY <2>1 DEF AddonInv, Sound, Served
  <2>4. Known' /\ NoStrays' /\ Backed' /\ Emptied'
    BY <2>1 DEF AddonInv, Known, NoStrays, Backed, Emptied
  <2>5. Routed' /\ Undo' /\ Kept'
    BY <2>1 DEF AddonInv, Routed, InConnect, Undo, Kept
  <2>6. Live'
    BY <2>1 DEF AddonInv, Live, Settled
  <2>. QED
    BY <2>2, <2>3, <2>4, <2>5, <2>6 DEF AddonInv
<1>. QED
  BY <1>1, <1>2, <1>3, <1>4, <1>5, <1>6, <1>7, <1>8, <1>9, <1>10 DEF Next

LEMMA Inductive == Spec => []AddonInv
BY InitInv, InvStep, PTL DEF Spec

\* The stored definitions, the manager's records and the activator keep their
\* types, and a resource always has its type definition: also when an addon is
\* disabled or a Connect rolled back while resources are there.
THEOREM AddonTypeCorrect == Spec => []TypeOK
<1>1. AddonInv => TypeOK
  BY DEF AddonInv
<1>. QED
  BY <1>1, Inductive, PTL

\* Every service of the activator is accounted for by a record and a stored
\* definition, and every platform service by a service, at every step of any
\* Connect and after every failure.
THEOREM ServicesAreAccounted == Spec => []ServedIsAccounted
<1>1. AddonInv => ServedIsAccounted
  <2>. SUFFICES ASSUME AddonInv PROVE ServedIsAccounted
    OBVIOUS
  <2>1. api \in Apis /\ Sound(api) /\ rec \in [Addons -> Records]
    BY TypeParts DEF AddonInv
  <2>2. \A v \in Services : v \in api.mux <=> Served(api, v)
    BY <2>1 DEF Sound
  <2>3. ASSUME NEW v \in api.mux
        PROVE  /\ rec[OwnerOf(v[1])].reg[v[1]] = [known |-> TRUE, pkg |-> v[2]]
               /\ typeDef[v[1]] # NoDef /\ api.reg[v[1]].caps \subseteq typeDef[v[1]]
    <3>1. v[1] \in Types /\ api.reg[v[1]] # NoDef /\ v[2] = api.reg[v[1]].pkg
          /\ OwnerOf(v[1]) \in Addons
      BY <2>1, <2>3, SoundServices, SchemaTypes
    <3>2. /\ rec[OwnerOf(v[1])].reg[v[1]].known /\ rec[OwnerOf(v[1])].reg[v[1]].pkg = v[2]
          /\ api.reg[v[1]].caps \subseteq typeDef[v[1]] /\ typeDef[v[1]] # NoDef
      BY <3>1 DEF AddonInv, Backed, Known
    <3>3. rec[OwnerOf(v[1])].reg[v[1]] \in Registrations
      BY <2>1, <3>1 DEF Records
    <3>. QED
      BY <3>2, <3>3 DEF Registrations
  <2>4. api.owners = api.mux /\ api.platforms = {CollectionOf(v[1]) : v \in api.mux}
    BY <2>1 DEF Sound
  <2>. QED
    BY <2>2, <2>3, <2>4 DEF ServedIsAccounted
<1>. QED
  BY <1>1, Inductive, PTL

\* Disable leaves no service and no route behind, and no definition that is
\* not an orphan, whatever Connects failed before it.
THEOREM DisableIsComplete == Spec => []DisabledIsGone
<1>1. AddonInv => DisabledIsGone
  <2>. SUFFICES ASSUME AddonInv, NEW a \in Addons, rec[a].state = "defined"
                PROVE  /\ a \notin route
                       /\ \A t \in TypesOf(a) :
                             /\ \A v \in api.mux : v[1] # t
                             /\ typeDef[t] # NoDef => t \in orphaned
    BY DEF DisabledIsGone
  <2>1. a \notin route
    BY DEF AddonInv, Routed, InConnect, Undo
  <2>2. api \in Apis /\ Sound(api)
    BY TypeParts DEF AddonInv
  <2>3. ASSUME NEW t \in TypesOf(a)
        PROVE  (\A v \in api.mux : v[1] # t) /\ (typeDef[t] # NoDef => t \in orphaned)
    <3>1. t \in Types /\ OwnerOf(t) = a /\ ~rec[a].reg[t].known
      BY DEF TypesOf, AddonInv, Emptied
    <3>2. api.reg[t] = NoDef
      BY <3>1 DEF AddonInv, Backed
    <3>. QED
      BY <2>2, <3>1, <3>2, SoundServices DEF AddonInv, NoStrays
  <2>. QED
    BY <2>1, <2>3
<1>. QED
  BY <1>1, Inductive, PTL

\* The router has an agent only while its addon is connected or its Connect,
\* which takes the agent away when it fails, is past that step.
THEOREM RoutesAreConnected == Spec => []RouteMeansConnected
<1>1. AddonInv => RouteMeansConnected
  BY DEF AddonInv, Routed, InConnect, RouteMeansConnected
<1>. QED
  BY <1>1, Inductive, PTL

\* Every activation the record of a connected addon names is live.
THEOREM ConnectedAddonsAreServed == Spec => []ConnectedIsServed
<1>1. AddonInv => ConnectedIsServed
  <2>. SUFFICES ASSUME AddonInv, NEW t \in Types, rec[OwnerOf(t)].state = "connected",
                       rec[OwnerOf(t)].reg[t].pkg # NoPackage
                PROVE  <<t, rec[OwnerOf(t)].reg[t].pkg>> \in api.mux
    BY DEF ConnectedIsServed
  <2>1. api \in Apis /\ Sound(api)
    BY TypeParts DEF AddonInv
  <2>2. api.reg[t] # NoDef /\ api.reg[t].pkg = rec[OwnerOf(t)].reg[t].pkg
    BY DEF AddonInv, Live, Settled
  <2>. QED
    BY <2>1, <2>2, SoundServices
<1>. QED
  BY <1>1, Inductive, PTL

\* A Connect that fails, at whatever step, leaves the schemas of its input that
\* were served before it served, with their definitions.
THEOREM FailedConnectKeepsServed == Spec => FailedConnectPreserves
<1>1. AddonInv /\ [Next]_vars =>
        [op.stage # "idle" /\ op'.stage = "idle" /\ rec'[op.addon].state = "enabled"
          => \A s \in op.kept : api'.reg[s.type] = s /\ typeDef'[s.type] # NoDef]_vars
  <2>. SUFFICES ASSUME AddonInv, Next, op.stage # "idle", op'.stage = "idle",
                       rec'[op.addon].state = "enabled"
                PROVE  \A s \in op.kept : api'.reg[s.type] = s /\ typeDef'[s.type] # NoDef
    OBVIOUS
  <2>1. op.addon \in Addons /\ op \in Ops /\ rec \in [Addons -> Records]
    BY TypeParts DEF AddonInv, Ops
  <2>2. op # Idle
    BY IdleIs
  <2>3. ~Restart
    BY <2>1, NothingIs DEF Restart
  <2>4. ~Connected
    BY <2>1 DEF Connected, Records
  <2>5. ~\E t \in Types : CreateRow(t) \/ DeleteRow(t)
    BY DEF CreateRow, DeleteRow
  <2>6. ~ConnectAgent /\ ~ConnectTarget
    BY <2>1 DEF ConnectAgent, ConnectTarget, Ops
  <2>7. ~\E s \in Schemas : ConnectSchema(s)
    BY <2>1 DEF ConnectSchema, Ops
  <2>8. ~\E a \in Addons : \/ Enable(a) \/ Disconnect(a) \/ Disable(a)
                           \/ \E given \in Inputs(a), agent \in BOOLEAN : Connect(a, given, agent)
    BY <2>2 DEF Enable, Disconnect, Disable, Connect
  <2>9. \/ RegisterFails \/ TargetFails
        \/ \E s \in Schemas : \E point \in {"compile", "platform", "registry"} :
              ActivationFails(s, point)
    BY <2>3, <2>4, <2>5, <2>6, <2>7, <2>8 DEF Next
  <2>. QED
    BY <2>9, PlainRollback, ActivationRollback
<1>. QED
  BY <1>1, Inductive, PTL DEF Spec, FailedConnectPreserves
=============================================================================
