--------------------------- MODULE TopologyProofs ---------------------------
(* What holds of the topology controller, and of the experiments that share *)
(* a topology, for every set of zones, links, specs and experiments, any    *)
(* number of edits and failures and any lag of the cache.                   *)
EXTENDS SharedTopology, TLAPS

-----------------------------------------------------------------------------
(* The inductive invariant.  A reconcile starts from a version that may be  *)
(* behind the stored one, so it relates every version it may start from to  *)
(* the stored one.                                                          *)

(* The cache has the stored version once all events are delivered.          *)
Sync == IF watch = <<>> THEN cached = stored ELSE watch[Len(watch)] = stored

(* A version v of the past: its generation tells whether its spec is the    *)
(* stored one, and nothing newer than it has been observed.                 *)
Behind(v) ==
  /\ v.generation <= stored.generation
  /\ v.generation = stored.generation => v.spec = stored.spec /\ v.active = stored.active
  /\ v.deleting => stored.deleting
  /\ stored.observed <= v.generation

Behinds ==
  /\ Behind(stored)
  /\ Behind(cached)
  /\ \A i \in 1..Len(watch) : Behind(watch[i])

ObjectTypes ==
  stored \in TopologyObject /\ cached \in TopologyObject /\ watch \in Seq(TopologyObject)

ClusterTypes ==
  namespaces \in [Zones -> ZoneStates] /\ chaos \in [Objects -> Settings \cup {Off}]

Versions == ObjectTypes /\ Sync /\ Behinds

IInv == TypeOK /\ Versions /\ ProvisionedWhenSettled

-----------------------------------------------------------------------------
(* The versions.                                                            *)

(* The initial version is on its way to an empty cache.                     *)
LEMMA VersionsInit == Init => Versions
<1> SUFFICES ASSUME Init PROVE Versions
  OBVIOUS
<1>1. PICK spec \in Specs, active \in BOOLEAN : stored = Created(spec, active)
  BY DEF Init
<1>2. stored \in TopologyObject
  BY <1>1 DEF Created, TopologyObject, Phases
<1>3. cached = [stored EXCEPT !.exists = FALSE] /\ watch = <<stored>>
  BY DEF Init
<1>4. cached \in TopologyObject
  BY <1>2, <1>3 DEF TopologyObject
<1>5. watch \in Seq(TopologyObject)
  BY <1>2, <1>3
<1>6. Sync
  BY DEF Init, Sync
<1>7. stored.generation = 1 /\ stored.observed = 0
  BY <1>1 DEF Created
<1>8. Behind(stored)
  BY <1>7 DEF Behind
<1>9. Behind(cached)
  BY <1>3, <1>8, <1>2 DEF Behind, TopologyObject
<1>10. \A i \in 1..Len(watch) : Behind(watch[i])
  BY <1>8 DEF Init
<1> QED
  BY <1>2, <1>6, <1>8, <1>9, <1>10, <1>4, <1>5 DEF Versions, ObjectTypes, Behinds

(* A write that is not behind the stored version: a user's, or one of the   *)
(* controller with nothing left in the watch.                               *)
Follows(v) ==
  /\ v \in TopologyObject
  /\ v.generation >= stored.generation
  /\ v.generation = stored.generation => v.spec = stored.spec /\ v.active = stored.active
  /\ stored.deleting => v.deleting
  /\ v.observed = stored.observed \/ (watch = <<>> /\ v.observed <= stored.generation)

(* Such a write leaves all versions in order.                               *)
LEMMA StoreVersions ==
  ASSUME Versions, NEW v, Follows(v), Store(v), cached' = cached
  PROVE  Versions'
<1>1. stored \in TopologyObject /\ cached \in TopologyObject /\ watch \in Seq(TopologyObject)
  BY DEF Versions, ObjectTypes
<1>2. stored' = v /\ watch' = Append(watch, v) /\ v \in TopologyObject
  BY DEF Store, Follows
<1>3. watch' \in Seq(TopologyObject) /\ watch' # <<>> /\ Len(watch') = Len(watch) + 1
      /\ watch'[Len(watch')] = v
      /\ \A i \in 1..Len(watch) : watch'[i] = watch[i]
  BY <1>1, <1>2
<1>4. ASSUME NEW w \in TopologyObject, Behind(w), watch = <<>> => w = stored
      PROVE  /\ w.generation <= v.generation
             /\ w.generation = v.generation => w.spec = v.spec /\ w.active = v.active
             /\ w.deleting => v.deleting
             /\ v.observed <= w.generation
  BY <1>1, <1>2, <1>4 DEF Behind, Follows, TopologyObject
<1>5. Behind(v)'
  <2>1. stored.observed <= stored.generation
    BY DEF Versions, Behinds, Behind
  <2> QED
    BY <1>1, <1>2, <2>1 DEF Behind, Follows, TopologyObject
<1>6. Behind(cached)'
  <2>1. watch = <<>> => cached = stored
    BY DEF Versions, Sync
  <2>2. Behind(cached)
    BY DEF Versions, Behinds
  <2> QED
    BY <1>1, <1>2, <1>4, <2>1, <2>2 DEF Behind
<1>7. ASSUME NEW i \in 1..Len(watch')
      PROVE  Behind(watch[i])'
  <2>1. CASE i \in 1..Len(watch)
    <3>1. watch[i] \in TopologyObject /\ Behind(watch[i]) /\ watch # <<>>
      BY <1>1, <2>1 DEF Versions, Behinds
    <3> QED
      BY <1>2, <1>3, <1>4, <2>1, <3>1 DEF Behind
  <2>2. CASE i = Len(watch')
    BY <1>2, <1>3, <1>5, <2>2 DEF Behind
  <2> QED
    BY <1>1, <1>3, <2>1, <2>2
<1> QED
  BY <1>1, <1>2, <1>3, <1>5, <1>6, <1>7 DEF Versions, ObjectTypes, Sync, Behinds, Behind

(* Nothing is written and nothing delivered.                                *)
LEMMA SameVersions ==
  ASSUME Versions, UNCHANGED <<stored, cached, watch>>
  PROVE  Versions'
BY DEF Versions, ObjectTypes, Sync, Behinds, Behind

(* A new operator lists the objects.                                        *)
LEMMA DieVersions ==
  ASSUME Versions, cached' = stored, watch' = <<>>, stored' = stored
  PROVE  Versions'
BY DEF Versions, ObjectTypes, Sync, Behinds, Behind

(* The watch delivers the oldest version.                                   *)
LEMMA DeliverVersions ==
  ASSUME Versions, Deliver
  PROVE  Versions'
<1>1. stored \in TopologyObject /\ watch \in Seq(TopologyObject) /\ watch # <<>>
  BY DEF Versions, ObjectTypes, Deliver
<1>2. stored' = stored /\ cached' = watch[1] /\ watch' = Tail(watch)
  BY <1>1 DEF Deliver
<1>3. /\ watch' \in Seq(TopologyObject)
      /\ Len(watch) \in Nat \ {0}
      /\ Len(watch') = Len(watch) - 1
      /\ \A i \in 1..Len(watch') : watch'[i] = watch[i + 1] /\ i + 1 \in 1..Len(watch)
  BY <1>1, <1>2
<1>4. watch[Len(watch)] = stored
  BY <1>1 DEF Versions, Sync
<1>5. \A i \in 1..Len(watch) : Behind(watch[i]) /\ watch[i] \in TopologyObject
  BY <1>1 DEF Versions, Behinds
<1>6. Sync'
  <2>1. CASE Len(watch) = 1
    BY <1>2, <1>3, <1>4, <2>1 DEF Sync
  <2>2. CASE Len(watch) # 1
    BY <1>2, <1>3, <1>4, <2>2 DEF Sync
  <2> QED
    BY <2>1, <2>2
<1>7. Behinds'
  <2>1. Behind(cached)' /\ Behind(stored)'
    BY <1>2, <1>3, <1>5 DEF Versions, Behinds, Behind
  <2>2. ASSUME NEW i \in 1..Len(watch') PROVE Behind(watch[i])'
    <3>1. Behind(watch[i + 1])
      BY <1>3, <1>5
    <3> QED
      BY <1>2, <1>3, <3>1 DEF Behind
  <2> QED
    BY <2>1, <2>2 DEF Behinds
<1>8. ObjectTypes'
  BY <1>1, <1>2, <1>3, <1>5 DEF ObjectTypes
<1> QED
  BY <1>6, <1>7, <1>8 DEF Versions

-----------------------------------------------------------------------------
(* The cluster.                                                             *)

(* Namespaces ns and chaos objects ch are what version v asks for.          *)
ProvisionedIn(v, ns, ch) ==
  /\ \A z \in ZonesOf(v) : ns[z] \in {v.spec.zones[z], "limited"}
  /\ v.active => \A o \in LinksOf(v) : ch[o] = v.spec.links[o]

(* A step of the controller that works from the cached version: it takes    *)
(* no namespace away and does not undo what that version asks for.          *)
Careful ==
  /\ ClusterTypes'
  /\ \A z \in Zones : namespaces[z] # Absent => namespaces'[z] # Absent
  /\ ProvisionedIn(cached, namespaces, chaos) => ProvisionedIn(cached, namespaces', chaos')

(* The spec of a version has a state for each zone and link.                *)
LEMMA SpecTypes ==
  ASSUME NEW v \in TopologyObject
  PROVE  /\ v.spec.zones \in [Zones -> ZoneStates]
         /\ v.spec.links \in [Objects -> Settings \cup {Off}]
BY TopologyAssumption DEF TopologyObject, TopologySpecs

(* ensureNamespace and ensureResourceQuota, run on some of the zones.       *)
LEMMA EnsuredZonesFacts ==
  ASSUME ClusterTypes, cached \in TopologyObject, NEW done, NEW half,
         done \subseteq ZonesOf(cached), namespaces' = EnsuredZones(done, half)
  PROVE  /\ namespaces' \in [Zones -> ZoneStates]
         /\ \A z \in Zones : namespaces[z] # Absent => namespaces'[z] # Absent
         /\ \A z \in ZonesOf(cached) :
              namespaces[z] \in {cached.spec.zones[z], "limited"} =>
                namespaces'[z] \in {cached.spec.zones[z], "limited"}
         /\ \A z \in done : namespaces'[z] \in {cached.spec.zones[z], "limited"}
<1>1. cached.spec.zones \in [Zones -> ZoneStates]
  BY SpecTypes
<1>2. namespaces \in [Zones -> ZoneStates]
  BY DEF ClusterTypes
<1>3. \A a, b \in ZoneStates :
        /\ EnsuredZone(a, b) \in {"plain", "limited"}
        /\ b # Absent => EnsuredZone(a, b) \in {b, "limited"}
        /\ a # Absent => EnsuredZone(a, "plain") = a
  BY DEF EnsuredZone, ZoneStates, Absent
<1>4. "plain" \in ZoneStates /\ "plain" # Absent /\ "limited" # Absent
      /\ "limited" \in ZoneStates
  BY DEF ZoneStates, Absent
<1>5. \A z \in Zones :
        namespaces'[z] = IF z \in done THEN EnsuredZone(namespaces[z], cached.spec.zones[z])
                         ELSE IF z \in half THEN EnsuredZone(namespaces[z], "plain")
                         ELSE namespaces[z]
  BY DEF EnsuredZones
<1>6. \A z \in done : z \in Zones /\ cached.spec.zones[z] # Absent
  BY DEF ZonesOf
<1>7. ASSUME NEW z \in Zones
      PROVE  /\ namespaces'[z] \in ZoneStates
             /\ namespaces[z] # Absent => namespaces'[z] # Absent
  <2>1. namespaces[z] \in ZoneStates /\ cached.spec.zones[z] \in ZoneStates
    BY <1>1, <1>2
  <2> QED
    BY <1>3, <1>4, <1>5, <1>6, <2>1
<1>8. ASSUME NEW z \in ZonesOf(cached),
             namespaces[z] \in {cached.spec.zones[z], "limited"}
      PROVE  namespaces'[z] \in {cached.spec.zones[z], "limited"}
  <2>1. z \in Zones /\ cached.spec.zones[z] # Absent
    BY DEF ZonesOf
  <2>2. namespaces[z] \in ZoneStates /\ cached.spec.zones[z] \in ZoneStates
    BY <1>1, <1>2, <2>1
  <2>3. namespaces[z] # Absent
    BY <1>4, <1>8, <2>1
  <2> QED
    BY <1>3, <1>4, <1>5, <1>8, <2>1, <2>2, <2>3
<1>9. ASSUME NEW z \in done
      PROVE  namespaces'[z] \in {cached.spec.zones[z], "limited"}
  BY <1>1, <1>2, <1>3, <1>5, <1>6
<1>10. namespaces' \in [Zones -> ZoneStates]
  BY <1>7 DEF EnsuredZones
<1> QED
  BY <1>7, <1>8, <1>9, <1>10

(* reconcileZones, to the end or not.                                       *)
LEMMA ZonesFacts ==
  ASSUME ClusterTypes, cached \in TopologyObject, ZonesEnsured \/ ZonesPartly
  PROVE  /\ namespaces' \in [Zones -> ZoneStates]
         /\ \A z \in Zones : namespaces[z] # Absent => namespaces'[z] # Absent
         /\ \A z \in ZonesOf(cached) :
              namespaces[z] \in {cached.spec.zones[z], "limited"} =>
                namespaces'[z] \in {cached.spec.zones[z], "limited"}
<1>1. PICK done \in SUBSET ZonesOf(cached), half \in SUBSET Zones :
        namespaces' = EnsuredZones(done, half)
  BY DEF ZonesEnsured, ZonesPartly, ZonesOf
<1> QED
  BY <1>1, EnsuredZonesFacts

(* All zones ensured, the namespaces are what the version asks for.         *)
LEMMA ZonesDone ==
  ASSUME ClusterTypes, cached \in TopologyObject, ZonesEnsured
  PROVE  \A z \in ZonesOf(cached) : namespaces'[z] \in {cached.spec.zones[z], "limited"}
BY EnsuredZonesFacts DEF ZonesEnsured

(* ensureLinkChaos, run on some of the links.                               *)
LEMMA LinksFacts ==
  ASSUME ClusterTypes, cached \in TopologyObject, NEW done, done \subseteq LinksOf(cached),
         chaos' = EnsuredLinks(done)
  PROVE  /\ chaos' \in [Objects -> Settings \cup {Off}]
         /\ \A o \in LinksOf(cached) :
              o \in done \/ chaos[o] = cached.spec.links[o] => chaos'[o] = cached.spec.links[o]
<1>1. cached.spec.links \in [Objects -> Settings \cup {Off}]
  BY SpecTypes
<1> QED
  BY <1>1 DEF EnsuredLinks, ClusterTypes, LinksOf

(* Removed chaos objects.                                                   *)
LEMMA RemovedFacts ==
  ASSUME ClusterTypes, NEW gone, chaos' = RemovedLinks(gone)
  PROVE  chaos' \in [Objects -> Settings \cup {Off}]
BY DEF RemovedLinks, ClusterTypes

(* reconcileApply at any point of its way.                                  *)
LEMMA ApplyCareful ==
  ASSUME ClusterTypes, cached \in TopologyObject,
         \/ ZonesPartly /\ UNCHANGED chaos
         \/ ZonesEnsured /\ \E done \in SUBSET LinksOf(cached) : chaos' = EnsuredLinks(done)
  PROVE  Careful
<1>1. CASE ZonesPartly /\ UNCHANGED chaos
  BY <1>1, ZonesFacts DEF Careful, ClusterTypes, ProvisionedIn
<1>2. CASE ZonesEnsured /\ \E done \in SUBSET LinksOf(cached) : chaos' = EnsuredLinks(done)
  <2>1. PICK done \in SUBSET LinksOf(cached) : chaos' = EnsuredLinks(done)
    BY <1>2
  <2> QED
    BY <1>2, <2>1, ZonesFacts, LinksFacts DEF Careful, ClusterTypes, ProvisionedIn
<1> QED
  BY <1>1, <1>2

(* reconcileDeactivate at any point of its way.                             *)
LEMMA DeactivateCareful ==
  ASSUME ClusterTypes, cached \in TopologyObject, ~cached.active,
         \/ ZonesPartly /\ UNCHANGED chaos
         \/ ZonesEnsured /\ \E gone \in SUBSET Objects : chaos' = RemovedLinks(gone)
  PROVE  Careful
<1>1. chaos' \in [Objects -> Settings \cup {Off}]
  BY RemovedFacts DEF ClusterTypes
<1> QED
  BY <1>1, ZonesFacts DEF Careful, ClusterTypes, ProvisionedIn

-----------------------------------------------------------------------------
(* The writes of the controller.                                            *)

(* The status a successful reconcile writes, or Failed in its place.        *)
Updated(v, p, o, refs) == [v EXCEPT !.phase = p, !.observed = o, !.refs = refs]

(* A status the controller writes when the cache is up to date.             *)
LEMMA UpdatedFollows ==
  ASSUME Versions, ~Conflict, NEW p \in Phases, NEW o \in Nat, o <= stored.generation,
         NEW refs \in SUBSET Objects
  PROVE  Follows(Updated(cached, p, o, refs))
<1>1. cached = stored /\ stored \in TopologyObject /\ watch = <<>>
  BY DEF Versions, Sync, ObjectTypes, Conflict
<1>2. Updated(stored, p, o, refs) \in TopologyObject
  BY <1>1 DEF Updated, TopologyObject
<1>3. /\ Updated(stored, p, o, refs).generation = stored.generation
      /\ Updated(stored, p, o, refs).spec = stored.spec
      /\ Updated(stored, p, o, refs).active = stored.active
      /\ Updated(stored, p, o, refs).deleting = stored.deleting
      /\ Updated(stored, p, o, refs).observed = o
  BY <1>1 DEF Updated, TopologyObject
<1>4. stored.generation \in Nat
  BY <1>1 DEF TopologyObject
<1> QED
  BY <1>1, <1>2, <1>3, <1>4 DEF Follows

(* Status().Update at the end of a reconcile: nothing, the status, or that  *)
(* status as Failed is stored, and never over a newer version.              *)
LEMMA UpdateStatusOutcome ==
  ASSUME Versions, budget \in Nat, NEW p \in Phases, NEW refs \in SUBSET Objects,
         UpdateStatus(Updated(cached, p, cached.generation, refs))
  PROVE  /\ Versions' /\ queued' \in BOOLEAN /\ budget' \in Nat
         /\ \/ stored' = stored
            \/ /\ cached = stored
               /\ \/ stored' = Updated(stored, p, stored.generation, refs)
                  \/ stored' = Updated(stored, "Failed", stored.generation, refs)
<1> DEFINE v == Updated(cached, p, cached.generation, refs)
           w == [v EXCEPT !.phase = "Failed"]
<1>1. cached' = cached /\ queued' \in BOOLEAN
  BY DEF UpdateStatus
<1>2. budget' \in Nat
  BY DEF UpdateStatus, Suffer, Spend
<1>3. w = Updated(cached, "Failed", cached.generation, refs)
  BY DEF Updated, Versions, ObjectTypes, TopologyObject
<1>4. \/ Unwritten
      \/ ~Conflict /\ (Store(v) \/ Store(w))
  BY DEF UpdateStatus
<1>5. ASSUME ~Conflict
      PROVE  /\ cached = stored
             /\ cached.generation \in Nat /\ cached.generation <= stored.generation
  BY <1>5 DEF Versions, Sync, ObjectTypes, TopologyObject, Conflict
<1>6. "Failed" \in Phases
  BY DEF Phases
<1>7. ~Conflict => Follows(v) /\ Follows(w)
  BY <1>3, <1>5, <1>6, UpdatedFollows
<1> HIDE DEF v, w
<1>8. CASE Unwritten
  BY <1>1, <1>2, <1>8, SameVersions DEF Unwritten
<1>9. CASE ~Conflict /\ Store(v)
  <2>1. Versions'
    BY <1>1, <1>7, <1>9, StoreVersions
  <2>2. stored' = v
    BY <1>9 DEF Store
  <2> QED
    BY <1>1, <1>2, <1>5, <1>9, <2>1, <2>2 DEF v
<1>10. CASE ~Conflict /\ Store(w)
  <2>1. Versions'
    BY <1>1, <1>7, <1>10, StoreVersions
  <2>2. stored' = w
    BY <1>10 DEF Store
  <2> QED
    BY <1>1, <1>2, <1>3, <1>5, <1>10, <2>1, <2>2
<1> QED
  BY <1>4, <1>8, <1>9, <1>10

(* setPhase(Failed).                                                        *)
LEMMA SetPhaseFailedOutcome ==
  ASSUME Versions, SetPhaseFailed
  PROVE  /\ Versions' /\ queued' \in BOOLEAN
         /\ \/ stored' = stored
            \/ stored' = Updated(stored, "Failed", stored.observed, stored.refs)
<1> DEFINE w == [cached EXCEPT !.phase = "Failed"]
<1>1. cached' = cached /\ queued' \in BOOLEAN
  BY DEF SetPhaseFailed
<1>2. w = Updated(cached, "Failed", cached.observed, cached.refs)
  BY DEF Updated, Versions, ObjectTypes, TopologyObject
<1>3. Unwritten \/ (~Conflict /\ Store(w))
  BY DEF SetPhaseFailed
<1>4. ASSUME ~Conflict
      PROVE  /\ cached = stored
             /\ cached.observed \in Nat /\ cached.observed <= stored.generation
             /\ cached.refs \in SUBSET Objects
  BY <1>4 DEF Versions, Sync, ObjectTypes, TopologyObject, Conflict, Behinds, Behind
<1>5. "Failed" \in Phases
  BY DEF Phases
<1>6. ~Conflict => Follows(w)
  BY <1>2, <1>4, <1>5, UpdatedFollows
<1> HIDE DEF w
<1>7. CASE Unwritten
  BY <1>1, <1>7, SameVersions DEF Unwritten
<1>8. CASE ~Conflict /\ Store(w)
  <2>1. Versions'
    BY <1>1, <1>6, <1>8, StoreVersions
  <2>2. stored' = w
    BY <1>8 DEF Store
  <2> QED
    BY <1>1, <1>2, <1>4, <1>8, <2>1, <2>2
<1> QED
  BY <1>3, <1>7, <1>8

-----------------------------------------------------------------------------
(* The steps.                                                               *)

(* A step of the contract, in terms of the stored object.                   *)
PhaseStep ==
  \/ stored'.active = ~stored.active /\ stored'.phase = stored.phase
  \/ stored'.active = stored.active /\ stored'.phase \in
       {stored.phase, "Failed", IF stored.active THEN "Active" ELSE "Inactive"}

KeepsNamespaces ==
  stored.deleting \/ \A z \in Zones : namespaces[z] # Absent => namespaces'[z] # Absent

(* What every step does.                                                    *)
Sound == IInv' /\ PhaseStep /\ KeepsNamespaces

(* A status observed for the current generation means that the cache has    *)
(* the spec of that generation.                                             *)
LEMMA SettledCache ==
  ASSUME Versions, Settled
  PROVE  cached.spec = stored.spec /\ cached.active = stored.active
BY DEF Versions, Settled, Behinds, Behind, ObjectTypes, TopologyObject

(* What a version asks for depends on its spec and spec.active alone.       *)
LEMMA ProvisionedSame ==
  ASSUME NEW v, NEW w, v.spec = w.spec, v.active = w.active, NEW ns, NEW ch,
         ProvisionedIn(v, ns, ch)
  PROVE  ProvisionedIn(w, ns, ch)
BY DEF ProvisionedIn, ZonesOf, LinksOf

(* The invariant in terms of what the stored version asks for.              *)
LEMMA ProvisionedForm ==
  /\ ProvisionedWhenSettled <=>
       (Settled => /\ stored.phase = IF stored.active THEN "Active" ELSE "Inactive"
                   /\ ProvisionedIn(stored, namespaces, chaos))
  /\ ProvisionedWhenSettled' <=>
       (Settled' => /\ stored'.phase = IF stored'.active THEN "Active" ELSE "Inactive"
                    /\ ProvisionedIn(stored', namespaces', chaos'))
BY DEF ProvisionedWhenSettled, ProvisionedIn, Settled, ZonesOf, LinksOf

(* A careful step that writes nothing, Failed, or the phase of spec.active  *)
(* once the cluster is as the version asks.                                 *)
LEMMA WorkSound ==
  ASSUME IInv, Careful, Versions', queued' \in BOOLEAN, budget' \in Nat,
         \/ stored' = stored
         \/ stored'.active = stored.active /\ stored'.phase = "Failed"
         \/ /\ stored'.active = stored.active /\ stored'.spec = stored.spec
            /\ stored'.phase = IF stored.active THEN "Active" ELSE "Inactive"
            /\ ProvisionedIn(stored, namespaces', chaos')
  PROVE  Sound
<1>1. TypeOK'
  BY DEF TypeOK, Careful, ClusterTypes, Versions, ObjectTypes
<1>2. KeepsNamespaces
  BY DEF Careful, KeepsNamespaces
<1>3. PhaseStep
  BY DEF PhaseStep
<1>4. ProvisionedWhenSettled'
  <2>1. CASE stored' = stored
    <3> SUFFICES ASSUME Settled'
                 PROVE  /\ stored'.phase = IF stored'.active THEN "Active" ELSE "Inactive"
                        /\ ProvisionedIn(stored', namespaces', chaos')
      BY ProvisionedForm
    <3>1. Settled
      BY <2>1 DEF Settled
    <3>2. /\ stored.phase = IF stored.active THEN "Active" ELSE "Inactive"
          /\ ProvisionedIn(stored, namespaces, chaos)
      BY <3>1, ProvisionedForm DEF IInv
    <3>3. cached.spec = stored.spec /\ cached.active = stored.active
      BY <3>1, SettledCache DEF IInv
    <3>4. ProvisionedIn(cached, namespaces, chaos)
      BY <3>2, <3>3, ProvisionedSame
    <3>5. ProvisionedIn(cached, namespaces', chaos')
      BY <3>4 DEF Careful
    <3>6. ProvisionedIn(stored, namespaces', chaos')
      BY <3>3, <3>5, ProvisionedSame
    <3> QED
      BY <2>1, <3>2, <3>6
  <2>2. CASE stored'.phase = "Failed"
    BY <2>2 DEF ProvisionedWhenSettled, Settled
  <2>3. CASE /\ stored'.active = stored.active /\ stored'.spec = stored.spec
             /\ stored'.phase = IF stored.active THEN "Active" ELSE "Inactive"
             /\ ProvisionedIn(stored, namespaces', chaos')
    <3>1. ProvisionedIn(stored', namespaces', chaos')
      BY <2>3, ProvisionedSame
    <3> QED
      BY <2>3, <3>1, ProvisionedForm
  <2> QED
    BY <2>1, <2>2, <2>3
<1> QED
  BY <1>1, <1>2, <1>3, <1>4 DEF Sound, IInv

(* A careful step that ends in a crash.                                     *)
LEMMA DieSound ==
  ASSUME IInv, Careful, Die
  PROVE  Sound
<1>1. Versions'
  BY DieVersions DEF IInv, Die
<1>2. stored' = stored /\ queued' \in BOOLEAN /\ budget' \in Nat
  BY DEF IInv, TypeOK, Die, Suffer, Spend
<1> QED
  BY <1>1, <1>2, WorkSound

(* A step that leaves the cluster alone is careful.                         *)
LEMMA IdleCareful ==
  ASSUME IInv, UNCHANGED cluster
  PROVE  Careful
BY DEF IInv, TypeOK, cluster, Careful, ClusterTypes

(* A careful step whose write failed for good.                              *)
LEMMA FailedSound ==
  ASSUME IInv, Careful, SetPhaseFailed, budget' \in Nat
  PROVE  Sound
<1>1. /\ Versions' /\ queued' \in BOOLEAN
      /\ \/ stored' = stored
         \/ stored' = Updated(stored, "Failed", stored.observed, stored.refs)
  BY SetPhaseFailedOutcome DEF IInv
<1>2. \/ stored' = stored
      \/ stored'.active = stored.active /\ stored'.phase = "Failed"
  BY <1>1 DEF Updated, IInv, TypeOK, TopologyObject
<1> QED
  BY <1>1, <1>2, WorkSound

(* A reconcile that got to its end.                                         *)
LEMMA UpdatedSound ==
  ASSUME IInv, Careful, NEW refs \in SUBSET Objects,
         ProvisionedIn(cached, namespaces', chaos'),
         NEW p, p = (IF cached.active THEN "Active" ELSE "Inactive"),
         UpdateStatus(Updated(cached, p, cached.generation, refs))
  PROVE  Sound
<1>1. p \in Phases /\ budget \in Nat
  BY DEF Phases, IInv, TypeOK
<1>2. /\ Versions' /\ queued' \in BOOLEAN /\ budget' \in Nat
      /\ \/ stored' = stored
         \/ /\ cached = stored
            /\ \/ stored' = Updated(stored, p, stored.generation, refs)
               \/ stored' = Updated(stored, "Failed", stored.generation, refs)
  BY <1>1, UpdateStatusOutcome DEF IInv
<1>3. \/ stored' = stored
      \/ stored'.active = stored.active /\ stored'.phase = "Failed"
      \/ /\ stored'.active = stored.active /\ stored'.spec = stored.spec
         /\ stored'.phase = IF stored.active THEN "Active" ELSE "Inactive"
         /\ ProvisionedIn(stored, namespaces', chaos')
  BY <1>2 DEF Updated, IInv, TypeOK, TopologyObject
<1> QED
  BY <1>2, <1>3, WorkSound

(* reconcileApply.                                                          *)
LEMMA ApplySound ==
  ASSUME IInv, ReconcileApply
  PROVE  Sound
<1>1. ClusterTypes /\ cached \in TopologyObject /\ cached.active /\ budget \in Nat
  BY DEF IInv, TypeOK, ClusterTypes, ReconcileApply, Working
<1>2. Placeable \subseteq LinksOf(cached)
  BY DEF Placeable
<1>3. LinksOf(cached) \in SUBSET Objects
  BY DEF LinksOf
<1>4. CASE Applied
  <2>1. ZonesEnsured /\ chaos' = EnsuredLinks(LinksOf(cached))
        /\ UpdateStatus(Updated(cached, "Active", cached.generation, LinksOf(cached)))
    BY <1>4 DEF Applied, Updated
  <2>2. Careful
    BY <1>1, <2>1, ApplyCareful
  <2>3. ProvisionedIn(cached, namespaces', chaos')
    BY <1>1, <2>1, ZonesDone, LinksFacts DEF ProvisionedIn
  <2> QED
    BY <1>1, <1>3, <2>1, <2>2, <2>3, UpdatedSound
<1>5. CASE ZonesFailed
  <2>1. Careful
    BY <1>1, <1>5, ApplyCareful DEF ZonesFailed
  <2>2. SetPhaseFailed /\ budget' \in Nat
    BY <1>1, <1>5 DEF ZonesFailed, Suffer, Spend
  <2> QED
    BY <2>1, <2>2, FailedSound
<1>6. CASE LinksFailed
  <2>1. Careful
    BY <1>1, <1>2, <1>6, ApplyCareful DEF LinksFailed
  <2>2. SetPhaseFailed /\ budget' \in Nat
    BY <1>1, <1>6 DEF LinksFailed, Suffer, Spend
  <2> QED
    BY <2>1, <2>2, FailedSound
<1>7. CASE ApplyInterrupted
  <2>1. Careful
    BY <1>1, <1>2, <1>7, ApplyCareful DEF ApplyInterrupted
  <2> QED
    BY <1>7, <2>1, DieSound DEF ApplyInterrupted
<1> QED
  BY <1>4, <1>5, <1>6, <1>7 DEF ReconcileApply

(* reconcileDeactivate.                                                     *)
LEMMA DeactivateSound ==
  ASSUME IInv, ReconcileDeactivate
  PROVE  Sound
<1>1. ClusterTypes /\ cached \in TopologyObject /\ ~cached.active /\ budget \in Nat
  BY DEF IInv, TypeOK, ClusterTypes, ReconcileDeactivate, Working
<1>2. cached.refs \subseteq Objects
  BY <1>1 DEF TopologyObject
<1>3. CASE Deactivated
  <2> DEFINE inactive == Updated(cached, "Inactive", cached.generation, {})
  <2>1. /\ ZonesEnsured
        /\ \/ chaos' = RemovedLinks(cached.refs) /\ UpdateStatus(inactive)
           \/ /\ Suffer("deleteError")
              /\ \E stuck \in cached.refs : chaos' = RemovedLinks(cached.refs \ {stuck})
              /\ IF Conflict THEN Unwritten /\ queued' = TRUE
                 ELSE Store(inactive) /\ queued' = FALSE
              /\ UNCHANGED cached
    BY <1>3 DEF Deactivated, Updated
  <2>2. \E gone \in SUBSET Objects : chaos' = RemovedLinks(gone)
    BY <1>2, <2>1
  <2>3. Careful
    BY <1>1, <2>1, <2>2, DeactivateCareful
  <2>4. ProvisionedIn(cached, namespaces', chaos')
    BY <1>1, <2>1, ZonesDone DEF ProvisionedIn
  <2>5. CASE UpdateStatus(inactive)
    BY <1>1, <2>3, <2>4, <2>5, UpdatedSound
  <2>6. CASE /\ Suffer("deleteError")
             /\ IF Conflict THEN Unwritten /\ queued' = TRUE
                ELSE Store(inactive) /\ queued' = FALSE
             /\ UNCHANGED cached
    <3>1. budget' \in Nat /\ queued' \in BOOLEAN /\ cached' = cached
      <4>1. budget' \in Nat
        BY <1>1, <2>6 DEF Suffer, Spend
      <4>2. queued' \in BOOLEAN
        BY <2>6
      <4> QED
        BY <2>6, <4>1, <4>2
    <3>2. CASE Conflict
      <4>1. Versions' /\ stored' = stored
        BY <2>6, <3>1, <3>2, SameVersions DEF IInv, Unwritten
      <4> QED
        BY <2>3, <3>1, <4>1, WorkSound
    <3>3. CASE ~Conflict
      <4>1. cached = stored /\ cached.generation \in Nat
            /\ cached.generation <= stored.generation /\ "Inactive" \in Phases
        <5>1. cached = stored
          BY <3>3 DEF IInv, Versions, Sync, Conflict
        <5>2. cached.generation \in Nat
          BY <1>1 DEF TopologyObject
        <5> QED
          BY <5>1, <5>2 DEF Phases
      <4>2. Follows(inactive)
        BY <3>3, <4>1, UpdatedFollows DEF IInv
      <4>3. Store(inactive)
        BY <2>6, <3>3
      <4> HIDE DEF inactive
      <4>4. Versions' /\ stored' = inactive
        BY <3>1, <4>2, <4>3, StoreVersions DEF IInv, Store
      <4>5. /\ stored'.active = stored.active /\ stored'.spec = stored.spec
            /\ stored'.phase = IF stored.active THEN "Active" ELSE "Inactive"
        BY <1>1, <4>1, <4>4 DEF inactive, Updated, TopologyObject
      <4> QED
        BY <2>3, <2>4, <3>1, <4>1, <4>4, <4>5, WorkSound
    <3> QED
      BY <3>2, <3>3
  <2> QED
    BY <2>1, <2>5, <2>6
<1>4. CASE ZonesFailed
  <2>1. Careful
    BY <1>1, <1>4, DeactivateCareful DEF ZonesFailed
  <2>2. SetPhaseFailed /\ budget' \in Nat
    BY <1>1, <1>4 DEF ZonesFailed, Suffer, Spend
  <2> QED
    BY <2>1, <2>2, FailedSound
<1>5. CASE DeactivateInterrupted
  <2>1. Careful
    BY <1>1, <1>2, <1>5, DeactivateCareful DEF DeactivateInterrupted
  <2> QED
    BY <1>5, <2>1, DieSound DEF DeactivateInterrupted
<1> QED
  BY <1>3, <1>4, <1>5 DEF ReconcileDeactivate

(* A step after which the status speaks of no current spec.                 *)
LEMMA UnsettledSound ==
  ASSUME IInv, Versions', ClusterTypes', ~Settled', queued' \in BOOLEAN, budget' \in Nat,
         PhaseStep, KeepsNamespaces
  PROVE  Sound
<1>1. TypeOK'
  BY DEF TypeOK, Versions, ObjectTypes, ClusterTypes
<1> QED
  BY <1>1 DEF Sound, IInv, ProvisionedWhenSettled

(* Removing namespaces and chaos objects.                                   *)
LEMMA DemolishedTypes ==
  ASSUME ClusterTypes, NEW zones, NEW gone, Demolished(zones, gone)
  PROVE  ClusterTypes'
BY DEF Demolished, ClusterTypes, RemovedLinks, ZoneStates

(* reconcileDelete.                                                         *)
LEMMA DeleteSound ==
  ASSUME IInv, ReconcileDelete
  PROVE  Sound
<1>1. /\ Versions /\ ClusterTypes /\ cached \in TopologyObject /\ stored \in TopologyObject
      /\ budget \in Nat /\ queued \in BOOLEAN
  BY DEF IInv, TypeOK, ClusterTypes
<1>2. cached.deleting /\ stored.deleting /\ Deleted
  BY DEF IInv, Versions, Behinds, Behind, ReconcileDelete
<1>3. ClusterTypes'
  BY <1>1, <1>2, DemolishedTypes DEF Deleted
<1>4. KeepsNamespaces
  BY <1>2 DEF KeepsNamespaces
<1>5. budget' \in Nat
  BY <1>1, <1>2 DEF Deleted, Suffer, Spend, Die
<1>6. CASE RemoveFinalizer
  <2> DEFINE v == [cached EXCEPT !.exists = FALSE]
  <2>1. cached' = cached /\ queued' \in BOOLEAN /\ (Unwritten \/ (~Conflict /\ Store(v)))
    BY <1>6 DEF RemoveFinalizer
  <2>2. CASE Unwritten
    <3>1. Versions' /\ stored' = stored
      BY <1>1, <2>1, <2>2, SameVersions DEF Unwritten
    <3> QED
      BY <1>2, <1>3, <1>4, <1>5, <2>1, <3>1, UnsettledSound DEF Settled, PhaseStep
  <2>3. CASE ~Conflict /\ Store(v)
    <3>1. cached = stored
      BY <1>1, <2>3 DEF Versions, Sync, Conflict
    <3>2. v \in TopologyObject /\ v.exists = FALSE
          /\ v.generation = stored.generation /\ v.generation \in Nat
          /\ v.spec = stored.spec /\ v.active = stored.active
          /\ v.deleting = stored.deleting /\ v.observed = stored.observed
          /\ v.phase = stored.phase
      BY <1>1, <3>1 DEF TopologyObject
    <3> HIDE DEF v
    <3>3. Follows(v)
      BY <3>2 DEF Follows
    <3>4. Versions' /\ stored' = v
      BY <1>1, <2>1, <2>3, <3>3, StoreVersions DEF Store
    <3>5. ~Settled' /\ PhaseStep
      BY <3>2, <3>4 DEF Settled, PhaseStep
    <3> QED
      BY <1>3, <1>4, <1>5, <2>1, <3>4, <3>5, UnsettledSound
  <2> QED
    BY <2>1, <2>2, <2>3
<1>7. CASE Unwritten /\ UNCHANGED <<cached, queued>>
  <2>1. Versions' /\ stored' = stored
    BY <1>1, <1>7, SameVersions DEF Unwritten
  <2> QED
    BY <1>1, <1>2, <1>3, <1>4, <1>5, <1>7, <2>1, UnsettledSound DEF Settled, PhaseStep
<1>8. CASE Die
  <2>1. Versions' /\ stored' = stored /\ queued' \in BOOLEAN
    BY <1>1, <1>8, DieVersions DEF Die
  <2> QED
    BY <1>2, <1>3, <1>4, <1>5, <2>1, UnsettledSound DEF Settled, PhaseStep
<1> QED
  BY <1>2, <1>6, <1>7, <1>8 DEF Deleted

(* Reconciles that write nothing, and steps in which nothing happens.       *)
LEMMA QuietSound ==
  ASSUME IInv, UNCHANGED <<stored, cached, watch, cluster>>, queued' \in BOOLEAN, budget' \in Nat
  PROVE  Sound
<1>1. Versions' /\ stored' = stored
  BY SameVersions DEF IInv
<1>2. Careful
  BY IdleCareful
<1> QED
  BY <1>1, <1>2, WorkSound

(* The finalizer is added.                                                  *)
LEMMA AddFinalizerSound ==
  ASSUME IInv, AddFinalizer
  PROVE  Sound
<1> DEFINE v == [cached EXCEPT !.finalizer = TRUE]
<1>1. /\ cached' = cached /\ queued' = queued /\ UNCHANGED cluster
      /\ Unwritten \/ (~Conflict /\ Store(v))
  BY DEF AddFinalizer
<1>2. budget' \in Nat /\ queued' \in BOOLEAN
  BY <1>1 DEF AddFinalizer, Suffer, Spend, IInv, TypeOK
<1>3. Careful
  BY <1>1, IdleCareful
<1>4. CASE Unwritten
  <2>1. Versions' /\ stored' = stored
    BY <1>1, <1>4, SameVersions DEF Unwritten, IInv
  <2> QED
    BY <1>2, <1>3, <2>1, WorkSound
<1>5. CASE ~Conflict /\ Store(v)
  <2>1. cached = stored /\ stored \in TopologyObject
    BY <1>5 DEF IInv, Versions, Sync, Conflict, ObjectTypes
  <2>2. v \in TopologyObject /\ v.exists = stored.exists
        /\ v.generation = stored.generation /\ v.generation \in Nat
        /\ v.spec = stored.spec /\ v.active = stored.active
        /\ v.deleting = stored.deleting /\ v.observed = stored.observed
        /\ v.phase = stored.phase
    BY <2>1 DEF TopologyObject
  <2> HIDE DEF v
  <2>3. Follows(v)
    BY <2>2 DEF Follows
  <2>4. Versions' /\ stored' = v
    BY <1>1, <1>5, <2>3, StoreVersions DEF Store, IInv
  <2>5. CASE Settled
    <3>1. /\ stored.phase = IF stored.active THEN "Active" ELSE "Inactive"
          /\ ProvisionedIn(stored, namespaces, chaos)
      BY <2>5, ProvisionedForm DEF IInv
    <3>2. ProvisionedIn(stored, namespaces', chaos')
      BY <1>1, <3>1 DEF cluster
    <3> QED
      BY <1>2, <1>3, <2>2, <2>4, <3>1, <3>2, WorkSound
  <2>6. CASE ~Settled
    <3>1. ~Settled' /\ PhaseStep
      BY <2>2, <2>4, <2>6 DEF Settled, PhaseStep
    <3>2. ClusterTypes' /\ KeepsNamespaces
      BY <1>3 DEF Careful, KeepsNamespaces
    <3> QED
      BY <1>2, <2>4, <3>1, <3>2, UnsettledSound
  <2> QED
    BY <2>5, <2>6
<1> QED
  BY <1>1, <1>4, <1>5

(* An edit or a deletion by a user: the status no longer speaks of the      *)
(* current spec.                                                            *)
LEMMA UserSound ==
  ASSUME IInv, NEW v, Follows(v), Store(v), UNCHANGED <<cached, queued, cluster>>,
         budget' \in Nat, v.phase = stored.phase, v.active \in {stored.active, ~stored.active},
         v.generation > stored.generation \/ ~v.exists, v.observed = stored.observed
  PROVE  Sound
<1>1. Versions' /\ stored' = v /\ queued' \in BOOLEAN
  BY StoreVersions DEF Store, IInv, TypeOK
<1>2. stored.observed \in Nat /\ stored.generation \in Nat /\ v.generation \in Nat
      /\ stored.observed <= stored.generation
  BY DEF Follows, IInv, Versions, ObjectTypes, Behinds, Behind, TopologyObject
<1>3. ~Settled'
  BY <1>1, <1>2 DEF Settled
<1>4. PhaseStep
  BY <1>1 DEF PhaseStep
<1>5. ClusterTypes' /\ KeepsNamespaces
  BY IdleCareful DEF Careful, KeepsNamespaces
<1> QED
  BY <1>1, <1>3, <1>4, <1>5, UnsettledSound

(* SwitchActive, EditSpec and DeleteTopology.                               *)
LEMMA UsersSound ==
  ASSUME IInv, SwitchActive \/ EditSpec \/ DeleteTopology
  PROVE  Sound
<1>1. stored \in TopologyObject /\ stored.generation \in Nat /\ budget \in Nat
  BY DEF IInv, TypeOK, Versions, ObjectTypes, TopologyObject
<1>2. stored.generation + 1 \in Nat /\ (~stored.active) \in BOOLEAN
  BY <1>1
<1>3. ASSUME NEW g \in Nat
      PROVE  /\ \A a \in BOOLEAN : [stored EXCEPT !.active = a, !.generation = g] \in TopologyObject
             /\ \A t \in Specs : [stored EXCEPT !.spec = t, !.generation = g] \in TopologyObject
             /\ [stored EXCEPT !.deleting = TRUE, !.generation = g] \in TopologyObject
  BY <1>1 DEF TopologyObject
<1>4. CASE SwitchActive
  <2> DEFINE v == [stored EXCEPT !.active = ~@, !.generation = @ + 1]
  <2>1. /\ v \in TopologyObject /\ v.phase = stored.phase /\ v.active = ~stored.active
        /\ v.generation = stored.generation + 1 /\ v.observed = stored.observed
        /\ v.deleting = stored.deleting
    <3>1. v \in TopologyObject
      BY <1>2, <1>3
    <3>2. /\ v.phase = stored.phase /\ v.active = ~stored.active
          /\ v.generation = stored.generation + 1 /\ v.observed = stored.observed
          /\ v.deleting = stored.deleting
      BY <1>1 DEF TopologyObject
    <3> QED
      BY <3>1, <3>2
  <2>2. Store(v) /\ UNCHANGED <<cached, queued, cluster, budget>>
    BY <1>4 DEF SwitchActive
  <2> HIDE DEF v
  <2>3. Follows(v)
    BY <1>1, <2>1 DEF Follows
  <2> QED
    BY <1>1, <2>1, <2>2, <2>3, UserSound
<1>5. CASE EditSpec
  <2>1. PICK spec \in Specs : Store([stored EXCEPT !.spec = spec, !.generation = @ + 1])
    BY <1>5 DEF EditSpec
  <2> DEFINE v == [stored EXCEPT !.spec = spec, !.generation = @ + 1]
  <2>2. /\ v \in TopologyObject /\ v.phase = stored.phase /\ v.active = stored.active
        /\ v.generation = stored.generation + 1 /\ v.observed = stored.observed
        /\ v.deleting = stored.deleting
    <3>1. v \in TopologyObject
      BY <1>2, <1>3
    <3>2. /\ v.phase = stored.phase /\ v.active = stored.active
          /\ v.generation = stored.generation + 1 /\ v.observed = stored.observed
          /\ v.deleting = stored.deleting
      BY <1>1 DEF TopologyObject
    <3> QED
      BY <3>1, <3>2
  <2>3. Store(v) /\ UNCHANGED <<cached, queued, cluster, budget>>
    BY <1>5, <2>1 DEF EditSpec
  <2> HIDE DEF v
  <2>4. Follows(v)
    BY <1>1, <2>2 DEF Follows
  <2> QED
    BY <1>1, <2>2, <2>3, <2>4, UserSound
<1>6. CASE DeleteTopology /\ stored.finalizer
  <2> DEFINE v == [stored EXCEPT !.deleting = TRUE, !.generation = @ + 1]
  <2>1. /\ v \in TopologyObject /\ v.phase = stored.phase /\ v.active = stored.active
        /\ v.generation = stored.generation + 1 /\ v.observed = stored.observed
        /\ v.deleting
    <3>1. v \in TopologyObject
      BY <1>2, <1>3
    <3>2. /\ v.phase = stored.phase /\ v.active = stored.active
          /\ v.generation = stored.generation + 1 /\ v.observed = stored.observed
          /\ v.deleting
      BY <1>1 DEF TopologyObject
    <3> QED
      BY <3>1, <3>2
  <2>2. Store(v) /\ UNCHANGED <<cached, queued, cluster, budget>>
    BY <1>6 DEF DeleteTopology
  <2> HIDE DEF v
  <2>3. Follows(v)
    BY <1>1, <2>1 DEF Follows
  <2> QED
    BY <1>1, <2>1, <2>2, <2>3, UserSound
<1>7. CASE DeleteTopology /\ ~stored.finalizer
  <2> DEFINE v == [stored EXCEPT !.exists = FALSE]
  <2>1. /\ v \in TopologyObject /\ v.phase = stored.phase /\ v.active = stored.active
        /\ v.generation = stored.generation /\ v.observed = stored.observed
        /\ v.deleting = stored.deleting /\ v.spec = stored.spec /\ ~v.exists
    BY <1>1 DEF TopologyObject
  <2>2. Store(v) /\ UNCHANGED <<cached, queued, cluster, budget>>
    BY <1>7 DEF DeleteTopology
  <2> HIDE DEF v
  <2>3. Follows(v)
    BY <1>1, <2>1 DEF Follows
  <2> QED
    BY <1>1, <2>1, <2>2, <2>3, UserSound
<1> QED
  BY <1>4, <1>5, <1>6, <1>7

(* The watch delivers a version.                                            *)
LEMMA DeliverSound ==
  ASSUME IInv, Deliver
  PROVE  Sound
<1>1. Versions'
  BY DeliverVersions DEF IInv
<1>2. stored' = stored /\ queued' \in BOOLEAN /\ budget' \in Nat /\ UNCHANGED cluster
  BY DEF Deliver, IInv, TypeOK
<1>3. Careful
  BY <1>2, IdleCareful
<1> QED
  BY <1>1, <1>2, <1>3, WorkSound

(* Every step preserves the invariant, is a step of the contract or none,   *)
(* and keeps the namespaces.                                                *)
LEMMA StepSound == IInv /\ [Next]_vars => Sound
<1> SUFFICES ASSUME IInv, [Next]_vars PROVE Sound
  OBVIOUS
<1>1. CASE NotFound \/ Skip \/ Idle \/ UNCHANGED vars
  <2>1. queued' \in BOOLEAN /\ budget' \in Nat
    BY <1>1 DEF NotFound, Skip, Idle, vars, IInv, TypeOK
  <2>2. UNCHANGED <<stored, cached, watch, cluster>>
    BY <1>1 DEF NotFound, Skip, Idle, vars, cluster
  <2> QED
    BY <2>1, <2>2, QuietSound
<1>2. CASE AddFinalizer
  BY <1>2, AddFinalizerSound
<1>3. CASE ReconcileApply
  BY <1>3, ApplySound
<1>4. CASE ReconcileDeactivate
  BY <1>4, DeactivateSound
<1>5. CASE ReconcileDelete
  BY <1>5, DeleteSound
<1>6. CASE Deliver
  BY <1>6, DeliverSound
<1>7. CASE SwitchActive \/ EditSpec \/ DeleteTopology
  BY <1>7, UsersSound
<1>8. CASE Restart
  <2>1. Careful
    BY <1>8, IdleCareful DEF Restart
  <2> QED
    BY <1>8, <2>1, DieSound DEF Restart
<1> QED
  BY <1>1, <1>2, <1>3, <1>4, <1>5, <1>6, <1>7, <1>8 DEF Next, Reconcile

(* The initial states satisfy the invariant.                                *)
LEMMA InvInit == Init => IInv
<1> SUFFICES ASSUME Init PROVE IInv
  OBVIOUS
<1>1. Versions
  BY VersionsInit
<1>2. ClusterTypes /\ queued \in BOOLEAN
  BY DEF Init, ClusterTypes, ZoneStates
<1>3. budget \in Nat
  BY TopologyAssumption DEF Init
<1>4. TypeOK
  BY <1>1, <1>2, <1>3 DEF TypeOK, Versions, ObjectTypes, ClusterTypes
<1>5. ~Settled
  <2>1. PICK spec \in Specs, active \in BOOLEAN : stored = Created(spec, active)
    BY DEF Init
  <2>2. stored.generation = 1 /\ stored.observed = 0
    BY <2>1 DEF Created
  <2> QED
    BY <2>2 DEF Settled
<1> QED
  BY <1>1, <1>4, <1>5 DEF IInv, ProvisionedWhenSettled

-----------------------------------------------------------------------------
(* The theorems.                                                            *)

(* The invariant holds in every state.                                      *)
LEMMA Invariant == Spec => []IInv
<1>1. IInv /\ [Next]_vars => IInv'
  BY StepSound DEF Sound
<1> QED
  BY InvInit, <1>1, PTL DEF Spec

(* The topology controller's state keeps its types.                         *)
THEOREM TopologyTypeCorrect == Spec => []TypeOK
<1>1. IInv => TypeOK
  BY DEF IInv
<1> QED
  BY Invariant, <1>1, PTL

(* A phase the status shows for the current generation is true of the       *)
(* cluster: whatever stale version a reconcile started from, wherever it    *)
(* failed or was interrupted, and however the users edit.                   *)
THEOREM SettledIsProvisioned == Spec => []ProvisionedWhenSettled
<1>1. IInv => ProvisionedWhenSettled
  BY DEF IInv
<1> QED
  BY Invariant, <1>1, PTL

(* No reconcile takes a namespace away from the workload in it unless the   *)
(* Topology is being deleted.                                               *)
THEOREM NamespacesAreKept == Spec => NamespacesKept
<1>1. IInv /\ [Next]_vars =>
        [stored.deleting \/ \A z \in Zones : namespaces[z] # Absent => namespaces'[z] # Absent]_vars
  BY StepSound DEF Sound, KeepsNamespaces
<1> QED
  BY Invariant, <1>1, PTL DEF Spec, NamespacesKept

(* The controller implements the contract experiments rely on: the phase    *)
(* becomes Active only while spec.active is set, Inactive only while not.   *)
THEOREM PhaseContractKept == Spec => PhaseContract
<1>1. ASSUME Init PROVE Contract!Init
  <2>1. PICK spec \in Specs, active \in BOOLEAN : stored = Created(spec, active)
    BY <1>1 DEF Init
  <2>2. stored.active \in BOOLEAN /\ stored.phase = ""
    BY <2>1 DEF Created
  <2> QED
    BY <2>2 DEF Contract!Init
<1>2. IInv /\ [Next]_vars =>
        [Contract!Switch \/ Contract!Follow \/ Contract!Fail]_<<stored.active, stored.phase>>
  BY StepSound DEF Sound, PhaseStep, Contract!Switch, Contract!Follow, Contract!Fail
<1> QED
  BY Invariant, <1>1, <1>2, PTL DEF Spec, PhaseContract, Contract!Spec

-----------------------------------------------------------------------------
(* What is left behind: two more invariants, each under what the property   *)
(* asks of the users' edits.                                                *)

(* What a step does to the stored object: nothing, a write or an edit that  *)
(* leaves it there, or its end.  Only a full reconcile makes it Active, and *)
(* records the links then.                                                  *)
StaysStored ==
  /\ stored.exists
  /\ stored'.exists
  /\ stored.deleting => stored'.deleting
  /\ stored.finalizer => stored'.finalizer
  /\ stored'.spec \in Specs
  /\ stored'.phase = "Active" =>
       \/ stored'.spec = stored.spec /\ stored'.refs = LinksOf(stored)
       \/ stored.phase = "Active" /\ stored'.refs = stored.refs

LeavesStore ==
  /\ stored.exists
  /\ stored'.spec = stored.spec
  /\ stored'.finalizer = stored.finalizer
  /\ stored'.phase = stored.phase /\ stored'.refs = stored.refs
  /\ cached' = cached
  /\ \/ ~stored.finalizer /\ UNCHANGED cluster
     \/ /\ cached = stored /\ stored.deleting /\ watch = <<>>
        /\ "deleteError" \in Faults \/ \E gone : Demolished(ZonesOf(stored), gone)

StoreStep == stored' = stored \/ StaysStored \/ LeavesStore

(* What a step does to the cluster: nothing, what the version it works from *)
(* asks for, or the removal of zones and chaos objects.                     *)
Provisions ==
  /\ cached.exists /\ ~cached.deleting /\ cached.finalizer
  /\ \A z \in Zones : namespaces[z] # Absent => namespaces'[z] # Absent
  /\ \A z \in Zones :
       namespaces'[z] # Absent => namespaces[z] # Absent \/ z \in ZonesOf(cached)
  /\ \A o \in Objects :
       chaos'[o] # Off =>
         chaos[o] # Off \/ (o \in LinksOf(cached) /\ namespaces'[Home[o]] # Absent)

ClusterStep ==
  UNCHANGED cluster \/ Provisions \/ \E zones, gone : Demolished(zones, gone)

(* The versions a reconcile may start from now or later.                    *)
OnItsWay(v) == \E i \in 1..Len(watch) : v = watch[i]
Known(v) == v = stored \/ v = cached \/ OnItsWay(v)

(* The cache and the watch hold nothing but what was stored.                *)
KnownStep ==
  /\ cached' \in {cached, stored} \/ OnItsWay(cached')
  /\ \A v : OnItsWay(v)' => OnItsWay(v) \/ v = stored'

(* Status().Update stores nothing, the status, or that status as Failed.    *)
LEMMA UpdateStatusWrites ==
  ASSUME IInv, NEW v, UpdateStatus(v)
  PROVE  /\ cached' = cached
         /\ \/ stored' = stored
            \/ cached = stored /\ (stored' = v \/ stored' = [v EXCEPT !.phase = "Failed"])
<1>1. ~Conflict => cached = stored
  BY DEF IInv, Versions, Sync, Conflict
<1> QED
  BY <1>1 DEF UpdateStatus, Unwritten, Store

(* A status written at the end of a reconcile of a living object.           *)
LEMMA StatusStays ==
  ASSUME IInv, Living, NEW p \in Phases, NEW refs \in SUBSET Objects,
         p = "Active" => refs = LinksOf(cached),
         UpdateStatus(Updated(cached, p, cached.generation, refs))
  PROVE  StoreStep /\ cached' = cached
<1> DEFINE v == Updated(cached, p, cached.generation, refs)
           w == [v EXCEPT !.phase = "Failed"]
<1>1. cached \in TopologyObject /\ cached.exists
  BY DEF IInv, TypeOK, Living
<1>2. \A u \in {v, w} :
        /\ u.exists = cached.exists /\ u.deleting = cached.deleting
        /\ u.finalizer = cached.finalizer /\ u.spec = cached.spec
        /\ u.refs = refs
  BY <1>1 DEF Updated, TopologyObject
<1>3. v.phase = p /\ w.phase = "Failed"
  BY <1>1 DEF Updated, TopologyObject
<1>4. cached.spec \in Specs
  BY <1>1 DEF TopologyObject
<1> HIDE DEF v, w
<1>5. cached' = cached /\ (stored' = stored \/ (cached = stored /\ stored' \in {v, w}))
  BY UpdateStatusWrites DEF v, w
<1>6. ASSUME cached = stored, stored' \in {v, w}
      PROVE  StaysStored
  <2>1. /\ stored'.exists = stored.exists /\ stored'.deleting = stored.deleting
        /\ stored'.finalizer = stored.finalizer /\ stored'.spec = stored.spec
        /\ stored'.refs = refs
    BY <1>2, <1>6
  <2>2. stored'.phase = "Active" => p = "Active"
    BY <1>3, <1>6
  <2> QED
    BY <1>1, <1>4, <1>6, <2>1, <2>2 DEF StaysStored
<1> QED
  BY <1>5, <1>6 DEF StoreStep

(* setPhase(Failed).                                                        *)
LEMMA FailedStays ==
  ASSUME IInv, Living, SetPhaseFailed
  PROVE  StoreStep /\ cached' = cached
<1> DEFINE w == [cached EXCEPT !.phase = "Failed"]
<1>1. cached \in TopologyObject /\ cached.exists /\ (~Conflict => cached = stored)
  BY DEF IInv, TypeOK, Living, Versions, Sync, Conflict
<1>2. /\ w.exists = cached.exists /\ w.deleting = cached.deleting
      /\ w.finalizer = cached.finalizer /\ w.spec = cached.spec
      /\ w.phase = "Failed" /\ cached.spec \in Specs
  BY <1>1 DEF TopologyObject
<1> HIDE DEF w
<1>3. cached' = cached /\ (stored' = stored \/ (cached = stored /\ stored' = w))
  BY <1>1 DEF SetPhaseFailed, Unwritten, Store, w
<1>4. ASSUME cached = stored, stored' = w
      PROVE  StaysStored
  <2>1. /\ stored'.exists = stored.exists /\ stored'.deleting = stored.deleting
        /\ stored'.finalizer = stored.finalizer /\ stored'.spec = stored.spec
        /\ stored'.phase = "Failed"
    BY <1>2, <1>4
  <2> QED
    BY <1>1, <1>2, <1>4, <2>1 DEF StaysStored
<1> QED
  BY <1>3, <1>4 DEF StoreStep

(* reconcileZones creates only namespaces of its version.                   *)
LEMMA ZonesProvision ==
  ASSUME IInv, ZonesEnsured \/ ZonesPartly
  PROVE  /\ \A z \in Zones : namespaces[z] # Absent => namespaces'[z] # Absent
         /\ \A z \in Zones :
              namespaces'[z] # Absent => namespaces[z] # Absent \/ z \in ZonesOf(cached)
<1>1. ClusterTypes /\ cached \in TopologyObject
  BY DEF IInv, TypeOK, ClusterTypes
<1>2. PICK done \in SUBSET ZonesOf(cached), half \in SUBSET ZonesOf(cached) :
        namespaces' = EnsuredZones(done, half)
  BY DEF ZonesEnsured, ZonesPartly
<1>3. \A z \in Zones : z \notin ZonesOf(cached) => namespaces'[z] = namespaces[z]
  BY <1>2 DEF EnsuredZones
<1> QED
  BY <1>1, <1>3, ZonesFacts

(* reconcileApply and reconcileDeactivate at any point of their way.        *)
LEMMA WorkProvisions ==
  ASSUME IInv, Living, cached.finalizer,
         \/ /\ ZonesPartly
            /\ UNCHANGED chaos
         \/ /\ ZonesEnsured
            /\ \/ \E done \in SUBSET Placeable : chaos' = EnsuredLinks(done)
               \/ \E gone : chaos' = RemovedLinks(gone)
  PROVE  Provisions
<1>1. /\ \A z \in Zones : namespaces[z] # Absent => namespaces'[z] # Absent
      /\ \A z \in Zones :
           namespaces'[z] # Absent => namespaces[z] # Absent \/ z \in ZonesOf(cached)
  BY ZonesProvision
<1>2. ASSUME NEW o \in Objects, chaos'[o] # Off
      PROVE  chaos[o] # Off \/ (o \in LinksOf(cached) /\ namespaces'[Home[o]] # Absent)
  <2>1. CASE UNCHANGED chaos
    BY <1>2, <2>1
  <2>2. CASE \E done \in SUBSET Placeable : chaos' = EnsuredLinks(done)
    BY <1>2, <2>2 DEF EnsuredLinks, Placeable
  <2>3. CASE \E gone : chaos' = RemovedLinks(gone)
    BY <1>2, <2>3 DEF RemovedLinks
  <2> QED
    BY <2>1, <2>2, <2>3
<1> QED
  BY <1>1, <1>2 DEF Provisions, Living

(* The operator dies.                                                       *)
LEMMA DieKnown ==
  ASSUME Die
  PROVE  stored' = stored /\ KnownStep
BY DEF Die, KnownStep, OnItsWay

(* The cache stays, and the watch grows by what is stored or not at all.    *)
LEMMA WriteKnown ==
  ASSUME IInv, cached' = cached, Unwritten \/ Store(stored')
  PROVE  KnownStep
<1>1. watch \in Seq(TopologyObject)
  BY DEF IInv, TypeOK
<1>2. CASE Unwritten
  BY <1>2 DEF Unwritten, KnownStep, OnItsWay
<1>3. CASE Store(stored')
  <2>1. /\ Len(watch') = Len(watch) + 1 /\ Len(watch) \in Nat
        /\ watch'[Len(watch) + 1] = stored'
        /\ \A i \in 1..Len(watch) : watch'[i] = watch[i]
    BY <1>1, <1>3 DEF Store
  <2>2. \A i \in 1..Len(watch') : i \in 1..Len(watch) \/ i = Len(watch) + 1
    BY <2>1
  <2> QED
    BY <2>1, <2>2 DEF KnownStep, OnItsWay
<1> QED
  BY <1>2, <1>3

(* The store, the cluster and the versions on their way.                    *)
Effect == StoreStep /\ ClusterStep /\ KnownStep

(* A reconcile that provisions and ends in a write, or in the end of the    *)
(* operator.                                                                *)
LEMMA WorkEffect ==
  ASSUME IInv, Provisions, StoreStep, cached' = cached, Unwritten \/ Store(stored')
  PROVE  Effect
BY WriteKnown DEF Effect, ClusterStep

LEMMA DieEffect ==
  ASSUME Provisions \/ UNCHANGED cluster, Die
  PROVE  Effect
BY DieKnown DEF Effect, StoreStep, ClusterStep

(* Every write of the status goes through the store.                        *)
LEMMA UpdateStatusStores ==
  ASSUME NEW v, UpdateStatus(v)
  PROVE  Unwritten \/ Store(stored')
BY DEF UpdateStatus, Unwritten, Store

LEMMA SetPhaseFailedStores ==
  ASSUME SetPhaseFailed
  PROVE  Unwritten \/ Store(stored')
BY DEF SetPhaseFailed, Unwritten, Store

(* reconcileApply.                                                          *)
LEMMA ApplyEffect ==
  ASSUME IInv, ReconcileApply
  PROVE  Effect
<1>1. Living /\ cached.finalizer /\ cached \in TopologyObject
  BY DEF ReconcileApply, Working, IInv, TypeOK
<1>2. CASE Applied
  <2>1. UpdateStatus(Updated(cached, "Active", cached.generation, LinksOf(cached)))
    BY <1>2 DEF Applied, Updated
  <2>2. "Active" \in Phases /\ LinksOf(cached) \in SUBSET Objects
    BY DEF Phases, LinksOf
  <2>3. StoreStep /\ cached' = cached
    BY <1>1, <2>1, <2>2, StatusStays
  <2>4. Provisions
    BY <1>1, <1>2, WorkProvisions DEF Applied
  <2> QED
    BY <2>1, <2>3, <2>4, UpdateStatusStores, WorkEffect
<1>3. CASE ZonesFailed \/ LinksFailed
  <2>1. Provisions
    BY <1>1, <1>3, WorkProvisions DEF ZonesFailed, LinksFailed
  <2>2. SetPhaseFailed
    BY <1>3 DEF ZonesFailed, LinksFailed
  <2> QED
    BY <1>1, <2>1, <2>2, FailedStays, SetPhaseFailedStores, WorkEffect
<1>4. CASE ApplyInterrupted
  <2>1. Provisions
    BY <1>1, <1>4, WorkProvisions DEF ApplyInterrupted
  <2> QED
    BY <1>4, <2>1, DieEffect DEF ApplyInterrupted
<1> QED
  BY <1>2, <1>3, <1>4 DEF ReconcileApply

(* reconcileDeactivate.                                                     *)
LEMMA DeactivateEffect ==
  ASSUME IInv, ReconcileDeactivate
  PROVE  Effect
<1> DEFINE v == Updated(cached, "Inactive", cached.generation, {})
<1>1. Living /\ cached.finalizer /\ cached \in TopologyObject
  BY DEF ReconcileDeactivate, Working, IInv, TypeOK
<1>2. v = [cached EXCEPT !.phase = "Inactive", !.observed = cached.generation, !.refs = {}]
  BY DEF Updated
<1>3. /\ v.exists = cached.exists /\ v.deleting = cached.deleting
      /\ v.finalizer = cached.finalizer /\ v.spec = cached.spec /\ v.phase = "Inactive"
  BY <1>1 DEF Updated, TopologyObject
<1>4. CASE Deactivated
  <2>1. Provisions
    BY <1>1, <1>4, WorkProvisions DEF Deactivated
  <2>2. CASE UpdateStatus(v)
    <3>1. "Inactive" \in Phases /\ {} \in SUBSET Objects /\ "Inactive" # "Active"
      BY DEF Phases
    <3>2. StoreStep /\ cached' = cached
      BY <1>1, <2>2, <3>1, StatusStays
    <3> QED
      BY <2>1, <2>2, <3>2, UpdateStatusStores, WorkEffect
  <2>3. CASE cached' = cached /\ Unwritten
    BY <2>1, <2>3, WorkEffect DEF Unwritten, StoreStep
  <2>4. CASE cached' = cached /\ ~Conflict /\ Store(v)
    <3>1. cached = stored /\ stored' = v
      BY <2>4 DEF IInv, Versions, Sync, Conflict, Store
    <3>2. cached.exists /\ cached.spec \in Specs
      BY <1>1 DEF Living, TopologyObject
    <3>3. /\ stored'.exists = stored.exists /\ stored'.deleting = stored.deleting
          /\ stored'.finalizer = stored.finalizer /\ stored'.spec = stored.spec
          /\ stored'.phase = "Inactive"
      BY <1>3, <3>1
    <3>4. StaysStored
      BY <3>1, <3>2, <3>3 DEF StaysStored
    <3> QED
      BY <2>1, <2>4, <3>1, <3>4, WorkEffect DEF StoreStep
  <2>5. UpdateStatus(v) \/ (cached' = cached /\ (Unwritten \/ (~Conflict /\ Store(v))))
    BY <1>2, <1>4 DEF Deactivated
  <2> QED
    BY <2>2, <2>3, <2>4, <2>5
<1>5. CASE ZonesFailed
  <2>1. Provisions /\ SetPhaseFailed
    BY <1>1, <1>5, WorkProvisions DEF ZonesFailed
  <2> QED
    BY <1>1, <2>1, FailedStays, SetPhaseFailedStores, WorkEffect
<1>6. CASE DeactivateInterrupted
  <2>1. Provisions
    BY <1>1, <1>6, WorkProvisions DEF DeactivateInterrupted
  <2> QED
    BY <1>6, <2>1, DieEffect DEF DeactivateInterrupted
<1> QED
  BY <1>4, <1>5, <1>6 DEF ReconcileDeactivate

(* reconcileDelete.                                                         *)
LEMMA DeleteEffect ==
  ASSUME IInv, ReconcileDelete
  PROVE  Effect
<1>1. /\ cached.exists /\ cached.deleting /\ cached \in TopologyObject
      /\ Deleted
  BY DEF ReconcileDelete, IInv, TypeOK
<1>2. ClusterStep
  BY <1>1 DEF Deleted, ClusterStep
<1>3. CASE RemoveFinalizer
  <2> DEFINE v == [cached EXCEPT !.exists = FALSE]
  <2>1. cached' = cached /\ (Unwritten \/ (~Conflict /\ Store(v)))
    BY <1>3 DEF RemoveFinalizer
  <2>2. CASE Unwritten
    BY <1>2, <2>1, <2>2, WriteKnown DEF Effect, StoreStep, Unwritten
  <2>3. CASE ~Conflict /\ Store(v)
    <3>1. cached = stored /\ watch = <<>> /\ stored' = v
      BY <2>3 DEF IInv, Versions, Sync, Conflict, Store
    <3>2. /\ v.exists = FALSE /\ v.spec = cached.spec /\ v.finalizer = cached.finalizer
          /\ v.phase = cached.phase /\ v.refs = cached.refs
      BY <1>1 DEF TopologyObject
    <3> HIDE DEF v
    <3>3. "deleteError" \in Faults \/ \E gone : Demolished(ZonesOf(stored), gone)
      <4>1. stored' # stored
        BY <1>1, <3>1, <3>2
      <4>2. ~Die /\ ~Unwritten
        BY <4>1 DEF Die, Unwritten
      <4> QED
        BY <1>1, <3>1, <4>2 DEF Deleted, Suffer
    <3>4. LeavesStore
      BY <1>1, <2>1, <3>1, <3>2, <3>3 DEF LeavesStore
    <3> QED
      BY <1>2, <2>1, <2>3, <3>1, <3>4, WriteKnown DEF Effect, StoreStep
  <2> QED
    BY <2>1, <2>2, <2>3
<1>4. CASE Unwritten /\ UNCHANGED <<cached, queued>>
  BY <1>2, <1>4, WriteKnown DEF Effect, StoreStep, Unwritten
<1>5. CASE Die
  BY <1>2, <1>5, DieKnown DEF Effect, StoreStep
<1> QED
  BY <1>1, <1>3, <1>4, <1>5 DEF Deleted

(* The finalizer is added.                                                  *)
LEMMA AddFinalizerEffect ==
  ASSUME IInv, AddFinalizer
  PROVE  Effect
<1> DEFINE v == [cached EXCEPT !.finalizer = TRUE]
<1>1. /\ cached' = cached /\ UNCHANGED cluster /\ cached.exists
      /\ Unwritten \/ (~Conflict /\ Store(v))
  BY DEF AddFinalizer, Living
<1>2. CASE Unwritten
  BY <1>1, <1>2, WriteKnown DEF Effect, StoreStep, ClusterStep, Unwritten
<1>3. CASE ~Conflict /\ Store(v)
  <2>1. cached = stored /\ stored \in TopologyObject /\ stored' = v
    BY <1>3 DEF IInv, Versions, Sync, Conflict, ObjectTypes, Store
  <2>2. /\ v.exists = stored.exists /\ v.deleting = stored.deleting /\ v.finalizer
        /\ v.spec = stored.spec /\ v.phase = stored.phase /\ v.refs = stored.refs
        /\ stored.spec \in Specs
    BY <2>1 DEF TopologyObject
  <2> HIDE DEF v
  <2>3. StaysStored
    BY <1>1, <2>1, <2>2 DEF StaysStored
  <2> QED
    BY <1>1, <1>3, <2>1, <2>3, WriteKnown DEF Effect, StoreStep, ClusterStep
<1> QED
  BY <1>1, <1>2, <1>3

(* SwitchActive, EditSpec and DeleteTopology.                               *)
LEMMA UserEffect ==
  ASSUME IInv, SwitchActive \/ EditSpec \/ DeleteTopology
  PROVE  Effect
<1>1. stored \in TopologyObject /\ stored.exists /\ stored.spec \in Specs
  BY DEF IInv, TypeOK, TopologyObject, SwitchActive, EditSpec, DeleteTopology, Editable
<1>2. cached' = cached /\ UNCHANGED cluster /\ Store(stored')
  BY DEF SwitchActive, EditSpec, DeleteTopology, Store
<1>3. KnownStep /\ ClusterStep
  BY <1>2, WriteKnown DEF ClusterStep
<1>4. CASE SwitchActive
  <2>1. stored' = [stored EXCEPT !.active = ~@, !.generation = @ + 1]
    BY <1>4 DEF SwitchActive, Store
  <2>2. /\ stored'.exists = stored.exists /\ stored'.deleting = stored.deleting
        /\ stored'.finalizer = stored.finalizer /\ stored'.spec = stored.spec
        /\ stored'.phase = stored.phase /\ stored'.refs = stored.refs
    BY <1>1, <2>1 DEF TopologyObject
  <2> QED
    BY <1>1, <1>3, <2>2 DEF Effect, StoreStep, StaysStored
<1>5. CASE EditSpec
  <2>1. PICK spec \in Specs :
          stored' = [stored EXCEPT !.spec = spec, !.generation = @ + 1]
    BY <1>5 DEF EditSpec, Store
  <2>2. /\ stored'.exists = stored.exists /\ stored'.deleting = stored.deleting
        /\ stored'.finalizer = stored.finalizer /\ stored'.spec = spec
        /\ stored'.phase = stored.phase /\ stored'.refs = stored.refs
    BY <1>1, <2>1 DEF TopologyObject
  <2> QED
    BY <1>1, <1>3, <2>2 DEF Effect, StoreStep, StaysStored
<1>6. CASE DeleteTopology /\ stored.finalizer
  <2>1. stored' = [stored EXCEPT !.deleting = TRUE, !.generation = @ + 1]
    BY <1>6 DEF DeleteTopology, Store
  <2>2. /\ stored'.exists = stored.exists /\ stored'.deleting
        /\ stored'.finalizer = stored.finalizer /\ stored'.spec = stored.spec
        /\ stored'.phase = stored.phase /\ stored'.refs = stored.refs
    BY <1>1, <2>1 DEF TopologyObject
  <2> QED
    BY <1>1, <1>3, <2>2 DEF Effect, StoreStep, StaysStored
<1>7. CASE DeleteTopology /\ ~stored.finalizer
  <2>1. stored' = [stored EXCEPT !.exists = FALSE]
    BY <1>7 DEF DeleteTopology, Store
  <2>2. /\ stored'.finalizer = stored.finalizer /\ stored'.spec = stored.spec
        /\ stored'.phase = stored.phase /\ stored'.refs = stored.refs
    BY <1>1, <2>1 DEF TopologyObject
  <2> QED
    BY <1>1, <1>2, <1>3, <1>7, <2>2 DEF Effect, StoreStep, LeavesStore
<1> QED
  BY <1>4, <1>5, <1>6, <1>7

(* The watch delivers a version.                                            *)
LEMMA DeliverEffect ==
  ASSUME IInv, Deliver
  PROVE  Effect
<1>1. watch \in Seq(TopologyObject) /\ watch # <<>> /\ stored' = stored /\ UNCHANGED cluster
      /\ cached' = Head(watch) /\ watch' = Tail(watch)
  BY DEF IInv, TypeOK, Deliver, cluster
<1>2. /\ cached' = watch[1] /\ 1 \in 1..Len(watch)
      /\ \A i \in 1..Len(watch') : i + 1 \in 1..Len(watch) /\ watch'[i] = watch[i + 1]
  BY <1>1
<1> QED
  BY <1>1, <1>2 DEF Effect, StoreStep, ClusterStep, KnownStep, OnItsWay

(* Every step.                                                              *)
LEMMA StepEffect == IInv /\ [Next]_vars => Effect
<1> SUFFICES ASSUME IInv, [Next]_vars PROVE Effect
  OBVIOUS
<1>1. CASE NotFound \/ Skip \/ Idle \/ UNCHANGED vars
  <2>1. UNCHANGED <<stored, cached, watch, cluster>>
    BY <1>1 DEF NotFound, Skip, Idle, vars, cluster
  <2> QED
    BY <2>1 DEF Effect, StoreStep, ClusterStep, KnownStep, OnItsWay
<1>2. CASE Restart
  BY <1>2, DieEffect DEF Restart
<1> QED
  BY <1>1, <1>2, AddFinalizerEffect, ApplyEffect, DeactivateEffect, DeleteEffect, UserEffect,
     DeliverEffect DEF Next, Reconcile

-----------------------------------------------------------------------------
(* Every edit asks for the same links, whatever their settings.             *)
LinksAreKept ==
  \A s, t \in Specs, o \in Objects : s.links[o] # Off => t.links[o] # Off

(* Only links of the spec have chaos objects, and Active means that the     *)
(* status names them all.                                                   *)
LinksInv ==
  /\ \A o \in Objects : chaos[o] # Off => o \in LinksOf(stored)
  /\ stored.phase = "Active" => LinksOf(stored) \subseteq stored.refs

(* A new Topology has no phase.                                             *)
LEMMA NewPhase ==
  ASSUME Init
  PROVE  stored.phase # "Active"
<1>1. PICK spec \in Specs, active \in BOOLEAN : stored = Created(spec, active)
  BY DEF Init
<1>2. stored.phase = ""
  BY <1>1 DEF Created
<1>3. "" # "Active"
  BY Zenon
<1> QED
  BY <1>2, <1>3, Zenon

LEMMA LinksInit == Init => LinksInv
<1> SUFFICES ASSUME Init PROVE LinksInv
  OBVIOUS
<1> QED
  BY NewPhase DEF Init, LinksInv

(* What a step does to the chaos objects, it does to the references too.    *)
LEMMA LinksStep ==
  ASSUME LinksAreKept, IInv, IInv', LinksInv, Effect
  PROVE  LinksInv'
<1>1. /\ stored.spec \in Specs /\ cached.spec \in Specs /\ stored'.spec \in Specs
      /\ chaos \in [Objects -> Settings \cup {Off}]
  BY DEF IInv, TypeOK, TopologyObject
<1>2. LinksOf(cached) = LinksOf(stored) /\ LinksOf(stored)' = LinksOf(stored)
  BY <1>1 DEF LinksAreKept, LinksOf
<1>3. ASSUME NEW o \in Objects, chaos'[o] # Off
      PROVE  o \in LinksOf(stored)
  <2>1. CASE UNCHANGED cluster
    BY <1>3, <2>1 DEF cluster, LinksInv
  <2>2. CASE Provisions
    BY <1>2, <1>3, <2>2 DEF Provisions, LinksInv
  <2>3. CASE \E zones, gone : Demolished(zones, gone)
    BY <1>3, <2>3 DEF Demolished, RemovedLinks, LinksInv
  <2> QED
    BY <2>1, <2>2, <2>3 DEF Effect, ClusterStep
<1>4. ASSUME stored'.phase = "Active"
      PROVE  LinksOf(stored) \subseteq stored'.refs
  BY <1>4 DEF Effect, StoreStep, StaysStored, LeavesStore, LinksInv
<1> QED
  BY <1>2, <1>3, <1>4 DEF LinksInv

(* While the status says Active for the current spec, it names every chaos  *)
(* object there is, so that the next deactivation removes them all,         *)
(* wherever the reconciles before failed or were interrupted: as long as    *)
(* the edits add and drop no link.                                          *)
THEOREM ActiveIsTracked ==
  ASSUME LinksAreKept
  PROVE  Spec => []TrackedWhenActive
<1>1. IInv /\ LinksInv /\ [Next]_vars => LinksInv'
  BY StepEffect, StepSound, LinksStep DEF Sound
<1>2. IInv /\ LinksInv => TrackedWhenActive
  <2> SUFFICES ASSUME IInv, LinksInv, Settled, stored.active
               PROVE  {o \in Objects : chaos[o] # Off} \subseteq stored.refs
    BY DEF TrackedWhenActive
  <2>1. stored.phase = "Active"
    BY DEF IInv, ProvisionedWhenSettled
  <2> QED
    BY <2>1 DEF LinksInv
<1> QED
  BY Invariant, LinksInit, <1>1, <1>2, PTL DEF Spec

-----------------------------------------------------------------------------
(* Every edit asks for the same zones, whatever their quotas.               *)
ZonesAreKept ==
  \A s, t \in Specs, z \in Zones : s.zones[z] # Absent => t.zones[z] # Absent

Clean ==
  /\ \A z \in Zones : namespaces[z] = Absent
  /\ \A o \in Objects : chaos[o] = Off

(* Only zones of the spec have namespaces, and chaos objects live in them.  *)
(* Nothing is deployed before the stored object has its finalizer, and once *)
(* it is gone, no version is left that a reconcile would provision from.    *)
EndInv ==
  /\ \A z \in Zones : namespaces[z] # Absent => z \in ZonesOf(stored)
  /\ \A o \in Objects : chaos[o] # Off => namespaces[Home[o]] # Absent
  /\ \A v : Known(v) /\ v.finalizer => stored.finalizer
  /\ ~stored.finalizer => Clean
  /\ ~stored.exists => Clean /\ \A v : Known(v) /\ v.exists /\ v.finalizer => v.deleting

LEMMA EndInit == Init => EndInv
<1> SUFFICES ASSUME Init PROVE EndInv
  OBVIOUS
<1>1. stored.exists /\ ~stored.finalizer
  <2>1. PICK spec \in Specs, active \in BOOLEAN : stored = Created(spec, active)
    BY DEF Init
  <2> QED
    BY <2>1 DEF Created
<1>2. cached.finalizer = stored.finalizer
  <2>1. stored \in TopologyObject
    BY VersionsInit DEF Versions, ObjectTypes
  <2> QED
    BY <2>1 DEF Init, TopologyObject
<1>3. \A v : Known(v) => v \in {stored, cached}
  BY DEF Init, Known, OnItsWay
<1> QED
  BY <1>1, <1>2, <1>3 DEF Init, EndInv, Clean

(* No step provisions what a deletion has removed.                          *)
LEMMA EndStep ==
  ASSUME ZonesAreKept, "deleteError" \notin Faults, IInv, IInv', EndInv, Effect
  PROVE  EndInv'
<1>1. /\ stored.spec \in Specs /\ cached.spec \in Specs /\ stored'.spec \in Specs
      /\ stored.finalizer \in BOOLEAN /\ stored'.finalizer \in BOOLEAN
      /\ namespaces \in [Zones -> ZoneStates] /\ chaos \in [Objects -> Settings \cup {Off}]
      /\ \A o \in Objects : Home[o] \in Zones
  BY TopologyAssumption DEF IInv, TypeOK, TopologyObject
<1>2. ZonesOf(cached) = ZonesOf(stored) /\ ZonesOf(stored)' = ZonesOf(stored)
  BY <1>1 DEF ZonesAreKept, ZonesOf
<1>3. stored.finalizer => stored'.finalizer
  BY DEF Effect, StoreStep, StaysStored, LeavesStore
<1>4. ASSUME NEW v, Known(v)'
      PROVE  Known(v) \/ v = stored'
  BY <1>4 DEF Effect, KnownStep, Known
<1>5. ASSUME NEW zones, NEW gone, Demolished(zones, gone)
      PROVE  /\ \A z \in Zones :
                  namespaces'[z] = IF z \in zones THEN Absent ELSE namespaces[z]
             /\ \A o \in Objects :
                  chaos'[o] = IF o \in gone \/ Home[o] \in zones THEN Off ELSE chaos[o]
  BY <1>5 DEF Demolished, RemovedLinks
<1>6. /\ \A z \in Zones : namespaces'[z] # Absent => z \in ZonesOf(stored)
      /\ \A o \in Objects : chaos'[o] # Off => namespaces'[Home[o]] # Absent
  <2>1. CASE UNCHANGED cluster
    BY <2>1 DEF cluster, EndInv
  <2>2. CASE Provisions
    BY <1>1, <1>2, <2>2 DEF Provisions, EndInv
  <2>3. CASE \E zones, gone : Demolished(zones, gone)
    <3>1. PICK zones, gone : Demolished(zones, gone)
      BY <2>3
    <3> QED
      BY <1>1, <1>5, <3>1 DEF EndInv
  <2> QED
    BY <2>1, <2>2, <2>3 DEF Effect, ClusterStep
<1>7. ASSUME Clean, ~stored.finalizer \/ ~stored.exists
      PROVE  Clean'
  <2>1. ~Provisions
    <3>1. Known(cached)
      BY DEF Known
    <3> QED
      BY <1>7, <3>1 DEF Provisions, EndInv
  <2>2. CASE UNCHANGED cluster
    BY <1>7, <2>2 DEF cluster, Clean
  <2>3. CASE \E zones, gone : Demolished(zones, gone)
    BY <1>5, <1>7, <2>3 DEF Clean
  <2> QED
    BY <2>1, <2>2, <2>3 DEF Effect, ClusterStep
<1>8. ASSUME NEW v, Known(v)', v.finalizer
      PROVE  stored'.finalizer
  BY <1>3, <1>4, <1>8 DEF EndInv
<1>9. ~stored'.finalizer => Clean'
  BY <1>3, <1>7 DEF EndInv
<1>10. ASSUME ~stored'.exists
       PROVE  /\ Clean'
              /\ \A v : Known(v)' /\ v.exists /\ v.finalizer => v.deleting
  <2>1. CASE stored' = stored
    BY <1>4, <1>7, <1>10, <2>1 DEF EndInv
  <2>2. CASE LeavesStore /\ ~stored.finalizer
    <3>1. Clean'
      BY <1>7, <2>2 DEF EndInv
    <3>2. \A v : Known(v)' /\ v.exists => ~v.finalizer
      BY <1>4, <1>10, <2>2 DEF EndInv
    <3> QED
      BY <3>1, <3>2
  <2>3. CASE LeavesStore /\ stored.finalizer
    <3>1. /\ cached = stored /\ stored.deleting /\ watch = <<>>
          /\ \E gone : Demolished(ZonesOf(stored), gone)
      BY <2>3 DEF LeavesStore
    <3>2. \A v : Known(v) => v = stored
      BY <3>1 DEF Known, OnItsWay
    <3>3. \A v : Known(v)' /\ v.exists => v.deleting
      BY <1>4, <1>10, <3>1, <3>2
    <3>4. PICK gone : Demolished(ZonesOf(stored), gone)
      BY <3>1
    <3>5. \A z \in Zones : namespaces'[z] = Absent
      BY <1>5, <3>4 DEF EndInv
    <3>6. \A o \in Objects : chaos'[o] = Off
      BY <1>1, <1>6, <3>5
    <3> QED
      BY <3>3, <3>5, <3>6 DEF Clean
  <2> QED
    BY <1>10, <2>1, <2>2, <2>3 DEF Effect, StoreStep, StaysStored
<1> QED
  BY <1>2, <1>6, <1>8, <1>9, <1>10 DEF EndInv

(* When the Topology is gone, so are its namespaces and its chaos objects,  *)
(* wherever the operator died or a write was lost before, and no stale      *)
(* version brings them back: as long as no edit drops a zone and no single  *)
(* delete fails, since the controller forgets such an error.                *)
THEOREM DeletionIsClean ==
  ASSUME ZonesAreKept, "deleteError" \notin Faults
  PROVE  Spec => []DeletedClean
<1>1. IInv /\ EndInv /\ [Next]_vars => EndInv'
  BY StepEffect, StepSound, EndStep DEF Sound
<1>2. EndInv => DeletedClean
  BY DEF EndInv, Clean, DeletedClean
<1> QED
  BY Invariant, EndInit, <1>1, <1>2, PTL DEF Spec

-----------------------------------------------------------------------------
(* Experiments that share the Topology.  Their steps and the users' keep    *)
(* the invariant of the controller, although they are not its steps: they   *)
(* are limited by their repetitions and failures and not by a generation.   *)

(* An edit of spec.active or of the rest of the spec.                       *)
Edited(spec, active) ==
  [stored EXCEPT !.spec = spec, !.active = active, !.generation = @ + 1]

(* An edit of the stored spec is sound, whoever makes it.                   *)
LEMMA EditEffect ==
  ASSUME IInv, stored.exists, NEW spec \in Specs, NEW active \in BOOLEAN,
         Store(Edited(spec, active)), UNCHANGED <<cached, queued, cluster>>, budget' \in Nat
  PROVE  Sound /\ Effect
<1> DEFINE v == Edited(spec, active)
<1>1. stored \in TopologyObject /\ stored.generation \in Nat /\ stored.active \in BOOLEAN
  BY DEF IInv, TypeOK, TopologyObject
<1>2. /\ v.phase = stored.phase /\ v.active = active /\ v.spec = spec
      /\ v.generation = stored.generation + 1 /\ v.observed = stored.observed
      /\ v.deleting = stored.deleting /\ v.exists = stored.exists
      /\ v.finalizer = stored.finalizer /\ v.refs = stored.refs
  BY <1>1 DEF Edited, TopologyObject
<1>3. v \in TopologyObject
  <2>1. stored.generation + 1 \in Nat
    BY <1>1
  <2> QED
    BY <1>1, <2>1 DEF Edited, TopologyObject
<1>4. Store(v) /\ stored' = v
  BY DEF Store
<1> HIDE DEF v
<1>5. Follows(v)
  BY <1>1, <1>2, <1>3 DEF Follows
<1>6. Sound
  <2>1. v.active \in {stored.active, ~stored.active} /\ v.generation > stored.generation
    BY <1>1, <1>2
  <2> QED
    BY <1>2, <1>4, <1>5, <2>1, UserSound
<1>7. KnownStep /\ ClusterStep
  BY <1>4, WriteKnown DEF ClusterStep
<1>8. StoreStep
  BY <1>1, <1>2, <1>4 DEF StoreStep, StaysStored
<1> QED
  BY <1>6, <1>7, <1>8 DEF Effect

(* Nothing happens to the Topology, or a failure elsewhere is counted.      *)
LEMMA QuietEffect ==
  ASSUME IInv, UNCHANGED <<stored, cached, watch, queued, cluster>>, budget' \in Nat
  PROVE  Sound /\ Effect
<1>1. queued' \in BOOLEAN
  BY DEF IInv, TypeOK
<1>2. Sound
  BY <1>1, QuietSound
<1> QED
  BY <1>2 DEF Effect, StoreStep, ClusterStep, KnownStep, OnItsWay

(* The patch of spec.active, if it changes anything.                        *)
Switched(ask) ==
  /\ cached.exists /\ stored.exists
  /\ ask # "same"
  /\ stored.active # (ask = "on")
  /\ Store(Edited(stored.spec, ask = "on"))

LEMMA PatchedCases ==
  ASSUME IInv, NEW ask, Patched(ask)
  PROVE  Unwritten \/ Switched(ask)
<1>1. stored \in TopologyObject
  BY DEF IInv, TypeOK
<1>2. [stored EXCEPT !.active = (ask = "on"), !.generation = @ + 1] = Edited(stored.spec, ask = "on")
  BY <1>1 DEF Edited, TopologyObject
<1> QED
  BY <1>2 DEF Patched, Switched

(* An experiment's step, with what the rules of its use of the topology say *)
(* of what it asks.                                                         *)
MoveStep(e, ask, to) ==
  /\ Moves(e, ask, to)
  /\ ask \in {"on", "off", "same"} /\ to \in Stages
  /\ ask = "on" => to # "using"
  /\ to = "using" => ask = "off" \/ (ask = "same" /\ Read = "Active")
  /\ budget' \in Nat

LEMMA ExperimentMoves ==
  ASSUME IInv, NEW e \in Experiments, Advance(e) \/ Refused(e) \/ Stumble(e)
  PROVE  \E ask, to : MoveStep(e, ask, to)
<1>1. budget' \in Nat
  BY DEF IInv, TypeOK, Advance, Refused, Stumble, Spend
<1>2. CASE Advance(e)
  <2>1. PICK ask \in Use(e)!Asks, to \in Stages :
          Use(e)!Smooth(stage[e], Read, ask, to) /\ Moves(e, ask, to)
    BY <1>2 DEF Advance
  <2>2. /\ ask \in {"on", "off", "same"}
        /\ ask = "on" => to # "using"
        /\ to = "using" => ask = "off" \/ (ask = "same" /\ Read = "Active")
    BY <2>1 DEF Use!Smooth, Use!Asks
  <2> QED
    BY <1>1, <2>1, <2>2 DEF MoveStep
<1>3. CASE Refused(e)
  BY <1>1, <1>3 DEF Refused, MoveStep, Stages
<1>4. CASE Stumble(e)
  <2>1. PICK ask \in Use(e)!Asks, to \in Stages :
          Use(e)!Rough(stage[e], Read, ask, to) /\ Moves(e, ask, to)
    BY <1>4 DEF Stumble
  <2>2. /\ ask \in {"on", "off", "same"}
        /\ ask = "on" => to # "using"
        /\ to = "using" => ask = "off" \/ (ask = "same" /\ Read = "Active")
    BY <2>1 DEF Use!Rough, Use!Asks
  <2> QED
    BY <1>1, <2>1, <2>2 DEF MoveStep
<1> QED
  BY <1>2, <1>3, <1>4

LEMMA MoveEffect ==
  ASSUME IInv, NEW e, NEW ask, NEW to, MoveStep(e, ask, to)
  PROVE  Sound /\ Effect
<1>1. /\ UNCHANGED <<cached, queued, cluster>> /\ budget' \in Nat
      /\ Unwritten \/ Switched(ask)
  BY PatchedCases DEF MoveStep, Moves
<1>2. CASE Unwritten
  BY <1>1, <1>2, QuietEffect DEF Unwritten
<1>3. CASE Switched(ask)
  <2>1. stored.spec \in Specs /\ stored.exists /\ (ask = "on") \in BOOLEAN
    BY <1>3 DEF IInv, TypeOK, TopologyObject, Switched
  <2> QED
    BY <1>1, <1>3, <2>1, EditEffect DEF Switched
<1> QED
  BY <1>1, <1>2, <1>3

LEMMA UserEditEffect ==
  ASSUME IInv, UserEdit
  PROVE  Sound /\ Effect
<1>1. PICK spec \in Specs :
        Store([stored EXCEPT !.spec = spec, !.generation = @ + 1])
  BY DEF UserEdit
<1>2. stored \in TopologyObject /\ stored.active \in BOOLEAN /\ stored.exists
  BY DEF IInv, TypeOK, TopologyObject, UserEdit
<1>3. [stored EXCEPT !.spec = spec, !.generation = @ + 1] = Edited(spec, stored.active)
  BY <1>2 DEF Edited, TopologyObject
<1>4. budget' \in Nat /\ UNCHANGED <<cached, queued, cluster>>
  BY DEF IInv, TypeOK, UserEdit, Spend
<1> QED
  BY <1>1, <1>2, <1>3, <1>4, EditEffect

(* Every step.                                                              *)
LEMMA SharedEffect == IInv /\ [SharedNext]_sharedVars => Sound /\ Effect
<1> SUFFICES ASSUME IInv, [SharedNext]_sharedVars PROVE Sound /\ Effect
  OBVIOUS
<1>1. CASE [Next]_vars
  BY <1>1, StepSound, StepEffect
<1>2. CASE \E e \in Experiments : Advance(e) \/ Refused(e) \/ Stumble(e)
  BY <1>2, ExperimentMoves, MoveEffect
<1>3. CASE UserEdit
  BY <1>3, UserEditEffect
<1> QED
  BY <1>1, <1>2, <1>3 DEF SharedNext, sharedVars, Controller, UserDelete, Rest, Next

(* The controller's invariant in company of experiments.                    *)
LEMMA SharedInvariant == SharedSpec => []IInv
<1>1. SharedInit => IInv
  BY InvInit DEF SharedInit
<1>2. IInv /\ [SharedNext]_sharedVars => IInv'
  BY SharedEffect DEF Sound
<1> QED
  BY <1>1, <1>2, PTL DEF SharedSpec

(* What the controller stores over the version it read: the end of the      *)
(* object, its finalizer, or a status.  It is Active only for the spec of   *)
(* the current generation, and an inactive one drops its references only    *)
(* when the chaos objects are removed.                                      *)
Status ==
  /\ stored.finalizer /\ ~InLine
  /\ \E p \in Phases, o \in Nat, refs \in SUBSET Objects :
       /\ stored' = Updated(stored, p, o, refs)
       /\ p = "Active" => stored.active /\ o = stored.generation
       /\ \/ stored.active
          \/ "deleteError" \in Faults
          \/ chaos' = RemovedLinks(stored.refs)
          \/ p = "Failed" /\ refs = stored.refs

Revised ==
  /\ cached = stored /\ watch = <<>> /\ cached' = cached /\ watch' = <<stored'>>
  /\ \/ stored.deleting /\ stored' = [stored EXCEPT !.exists = FALSE]
     \/ ~stored.finalizer /\ stored' = [stored EXCEPT !.finalizer = TRUE]
     \/ Status

Relisted == stored' = stored /\ cached' = stored /\ watch' = <<>>

Still == UNCHANGED <<stored, cached, watch>>

(* Chaos objects only go, unless an active version is being provisioned     *)
(* that is not in line already.                                             *)
Shrinks == \A o \in Objects : chaos'[o] \in {Off, chaos[o]}

ControllerStep ==
  /\ Still \/ Deliver \/ Relisted \/ Revised
  /\ Shrinks \/ (cached.active /\ ~InLine)

LEMMA StillChaos ==
  ASSUME UNCHANGED chaos
  PROVE  Shrinks
BY DEF Shrinks

LEMMA RemovedShrinks ==
  ASSUME NEW gone, chaos' = RemovedLinks(gone)
  PROVE  Shrinks
BY DEF Shrinks, RemovedLinks

(* What can be said of a write: nothing, or over an up-to-date version.     *)
LEMMA WriteCurrent ==
  ASSUME IInv, ~Conflict, NEW v, Store(v)
  PROVE  cached = stored /\ watch = <<>> /\ watch' = <<stored'>> /\ stored' = v
BY DEF IInv, Versions, Sync, Conflict, Store

(* A status at the end of a reconcile.                                      *)
LEMMA UpdateStatusRevises ==
  ASSUME IInv, Working(TRUE) \/ Working(FALSE),
         NEW p \in {"Active", "Inactive"}, NEW refs \in SUBSET Objects,
         p = "Active" => cached.active,
         cached.active \/ "deleteError" \in Faults \/ chaos' = RemovedLinks(cached.refs),
         UpdateStatus(Updated(cached, p, cached.generation, refs))
  PROVE  Still \/ Revised
<1> DEFINE v == Updated(cached, p, cached.generation, refs)
           w == [v EXCEPT !.phase = "Failed"]
<1>1. cached' = cached /\ (Unwritten \/ (~Conflict /\ (Store(v) \/ Store(w))))
  BY DEF UpdateStatus
<1>2. cached \in TopologyObject /\ cached.finalizer /\ ~InLine /\ cached.generation \in Nat
  BY DEF IInv, TypeOK, TopologyObject, Working
<1>3. w = Updated(cached, "Failed", cached.generation, refs)
  BY <1>2 DEF Updated, TopologyObject
<1>4. {p, "Failed"} \subseteq Phases /\ "Failed" # "Active"
  BY DEF Phases
<1>5. CASE Unwritten
  BY <1>1, <1>5 DEF Unwritten, Still
<1>6. ASSUME ~Conflict, NEW q \in {p, "Failed"}, Store(Updated(cached, q, cached.generation, refs))
      PROVE  Revised
  <2>1. /\ cached = stored /\ watch = <<>> /\ watch' = <<stored'>>
        /\ stored' = Updated(stored, q, stored.generation, refs)
    BY <1>6, WriteCurrent
  <2>2. q = "Active" => stored.active
    BY <1>4, <2>1
  <2>3. \/ stored.active
        \/ "deleteError" \in Faults
        \/ chaos' = RemovedLinks(stored.refs)
    BY <2>1
  <2>4. Status
    BY <1>2, <1>4, <2>1, <2>2, <2>3 DEF Status
  <2> QED
    BY <1>1, <2>1, <2>4 DEF Revised
<1> QED
  BY <1>1, <1>3, <1>5, <1>6

LEMMA FailedRevises ==
  ASSUME IInv, Working(TRUE) \/ Working(FALSE), SetPhaseFailed
  PROVE  Still \/ Revised
<1> DEFINE w == [cached EXCEPT !.phase = "Failed"]
<1>1. cached' = cached /\ (Unwritten \/ (~Conflict /\ Store(w)))
  BY DEF SetPhaseFailed
<1>2. /\ cached \in TopologyObject /\ cached.finalizer /\ ~InLine
      /\ cached.observed \in Nat /\ cached.refs \in SUBSET Objects
  BY DEF IInv, TypeOK, TopologyObject, Working
<1>3. w = Updated(cached, "Failed", cached.observed, cached.refs)
  BY <1>2 DEF Updated, TopologyObject
<1>4. "Failed" \in Phases /\ "Failed" # "Active"
  BY DEF Phases
<1> HIDE DEF w
<1>5. CASE Unwritten
  BY <1>1, <1>5 DEF Unwritten, Still
<1>6. CASE ~Conflict /\ Store(w)
  <2>1. /\ cached = stored /\ watch = <<>> /\ watch' = <<stored'>>
        /\ stored' = Updated(stored, "Failed", stored.observed, stored.refs)
    BY <1>3, <1>6, WriteCurrent
  <2>2. Status
    BY <1>2, <1>4, <2>1 DEF Status
  <2> QED
    BY <1>1, <2>1, <2>2 DEF Revised
<1> QED
  BY <1>1, <1>5, <1>6

LEMMA DieRelists ==
  ASSUME Die
  PROVE  Relisted
BY DEF Die, Relisted

(* One lemma per branch of the reconcile.                                   *)
LEMMA ApplyControls ==
  ASSUME IInv, ReconcileApply
  PROVE  ControllerStep
<1>1. Working(TRUE) /\ cached.active /\ ~InLine
  BY DEF ReconcileApply, Working
<1>2. CASE Applied
  <2>1. UpdateStatus(Updated(cached, "Active", cached.generation, LinksOf(cached)))
    BY <1>2 DEF Applied, Updated
  <2>2. LinksOf(cached) \in SUBSET Objects
    BY DEF LinksOf
  <2>3. Still \/ Revised
    BY <1>1, <2>1, <2>2, UpdateStatusRevises
  <2> QED
    BY <1>1, <2>3 DEF ControllerStep
<1>3. CASE ZonesFailed \/ LinksFailed
  <2>1. Still \/ Revised
    BY <1>1, <1>3, FailedRevises DEF ZonesFailed, LinksFailed
  <2> QED
    BY <1>1, <2>1 DEF ControllerStep
<1>4. CASE ApplyInterrupted
  BY <1>1, <1>4, DieRelists DEF ApplyInterrupted, ControllerStep
<1> QED
  BY <1>2, <1>3, <1>4 DEF ReconcileApply

LEMMA DeactivateControls ==
  ASSUME IInv, ReconcileDeactivate
  PROVE  ControllerStep
<1>1. Working(FALSE) /\ cached.active = FALSE /\ ~InLine
  BY DEF ReconcileDeactivate, Working
<1>2. CASE Deactivated
  <2> DEFINE inactive == Updated(cached, "Inactive", cached.generation, {})
  <2>1. \/ chaos' = RemovedLinks(cached.refs) /\ UpdateStatus(inactive)
        \/ /\ "deleteError" \in Faults
           /\ \E gone : chaos' = RemovedLinks(gone)
           /\ Unwritten \/ (~Conflict /\ Store(inactive))
           /\ UNCHANGED cached
    BY <1>2 DEF Deactivated, Updated, Suffer
  <2>2. Shrinks
    BY <2>1, RemovedShrinks
  <2>3. CASE chaos' = RemovedLinks(cached.refs) /\ UpdateStatus(inactive)
    <3>1. Still \/ Revised
      BY <1>1, <2>3, UpdateStatusRevises
    <3> QED
      BY <2>2, <3>1 DEF ControllerStep
  <2>4. CASE Unwritten /\ UNCHANGED cached
    BY <2>2, <2>4 DEF ControllerStep, Still, Unwritten
  <2>5. CASE "deleteError" \in Faults /\ ~Conflict /\ Store(inactive) /\ UNCHANGED cached
    <3>1. cached = stored /\ watch = <<>> /\ watch' = <<stored'>> /\ stored' = inactive
      BY <2>5, WriteCurrent
    <3>2. /\ stored.finalizer /\ stored.generation \in Nat
          /\ "Inactive" \in Phases /\ {} \in SUBSET Objects
      BY <1>1, <3>1 DEF IInv, TypeOK, TopologyObject, Working, Phases
    <3>3. stored' = Updated(stored, "Inactive", stored.generation, {})
      BY <3>1
    <3> HIDE DEF inactive
    <3>4. Status
      BY <1>1, <2>5, <3>2, <3>3 DEF Status
    <3> QED
      BY <2>2, <2>5, <3>1, <3>4 DEF ControllerStep, Revised
  <2> QED
    BY <2>1, <2>3, <2>4, <2>5
<1>3. CASE ZonesFailed
  <2>1. Still \/ Revised
    BY <1>1, <1>3, FailedRevises DEF ZonesFailed
  <2> QED
    BY <1>3, <2>1, StillChaos DEF ZonesFailed, ControllerStep
<1>4. CASE DeactivateInterrupted
  <2>1. Shrinks
    BY <1>4, StillChaos, RemovedShrinks DEF DeactivateInterrupted
  <2> QED
    BY <1>4, <2>1, DieRelists DEF DeactivateInterrupted, ControllerStep
<1> QED
  BY <1>2, <1>3, <1>4 DEF ReconcileDeactivate

LEMMA DeleteControls ==
  ASSUME IInv, ReconcileDelete
  PROVE  ControllerStep
<1>1. Deleted /\ stored.deleting
  BY DEF ReconcileDelete, IInv, Versions, Behinds, Behind
<1>2. Shrinks
  <2>1. \E zones, gone : Demolished(zones, gone)
    BY <1>1 DEF Deleted
  <2> QED
    BY <2>1, RemovedShrinks DEF Demolished
<1>3. CASE RemoveFinalizer
  <2>1. cached' = cached /\ (Unwritten \/ (~Conflict /\ Store([cached EXCEPT !.exists = FALSE])))
    BY <1>3 DEF RemoveFinalizer
  <2>2. CASE Unwritten
    BY <1>2, <2>1, <2>2 DEF ControllerStep, Still, Unwritten
  <2>3. CASE ~Conflict /\ Store([cached EXCEPT !.exists = FALSE])
    <3>1. /\ cached = stored /\ watch = <<>> /\ watch' = <<stored'>>
          /\ stored' = [cached EXCEPT !.exists = FALSE]
      BY <2>3, WriteCurrent
    <3> QED
      BY <1>1, <1>2, <2>1, <3>1 DEF ControllerStep, Revised
  <2> QED
    BY <2>1, <2>2, <2>3
<1>4. CASE Unwritten /\ UNCHANGED <<cached, queued>>
  BY <1>2, <1>4 DEF ControllerStep, Still, Unwritten
<1>5. CASE Die
  BY <1>2, <1>5, DieRelists DEF ControllerStep
<1> QED
  BY <1>1, <1>3, <1>4, <1>5 DEF Deleted

LEMMA AddFinalizerControls ==
  ASSUME IInv, AddFinalizer
  PROVE  ControllerStep
<1>1. /\ ~cached.finalizer /\ UNCHANGED <<cached, chaos>>
      /\ Unwritten \/ (~Conflict /\ Store([cached EXCEPT !.finalizer = TRUE]))
  BY DEF AddFinalizer, cluster
<1>2. CASE Unwritten
  BY <1>1, <1>2, StillChaos DEF ControllerStep, Still, Unwritten
<1>3. CASE ~Conflict /\ Store([cached EXCEPT !.finalizer = TRUE])
  <2>1. /\ cached = stored /\ watch = <<>> /\ watch' = <<stored'>>
        /\ stored' = [cached EXCEPT !.finalizer = TRUE]
    BY <1>3, WriteCurrent
  <2> QED
    BY <1>1, <2>1, StillChaos DEF ControllerStep, Revised
<1> QED
  BY <1>1, <1>2, <1>3

LEMMA ControllerControls ==
  ASSUME IInv, Reconcile \/ Deliver \/ Restart
  PROVE  ControllerStep
<1>1. CASE NotFound \/ Skip
  BY <1>1, StillChaos DEF NotFound, Skip, cluster, ControllerStep, Still
<1>2. CASE Deliver
  BY <1>2, StillChaos DEF Deliver, cluster, ControllerStep
<1>3. CASE Restart
  BY <1>3, StillChaos, DieRelists DEF Restart, cluster, ControllerStep
<1> QED
  BY <1>1, <1>2, <1>3, ApplyControls, DeactivateControls, DeleteControls, AddFinalizerControls
     DEF Reconcile

-----------------------------------------------------------------------------
(* The topology of an experiment that has it to itself.                     *)

(* An Active version is the last one: once the status says Active for the   *)
(* current spec, the controller has nothing to write.                       *)
ActiveIsLast ==
  /\ cached.phase = "Active" => watch = <<>>
  /\ \A i \in 1..Len(watch) : watch[i].phase = "Active" => i = Len(watch)

(* While the experiment is on its own the Topology stays there and active,  *)
(* and Active is true of its current spec; it reads Active while it         *)
(* measures.                                                                *)
SoleInv ==
  /\ stored.phase = "Active" => stored.finalizer
  /\ sole # {} =>
       /\ \A v : Known(v) => v.exists
       /\ ~stored.deleting
       /\ stored.active
       /\ stored.phase = "Active" => stored.observed = stored.generation
       /\ ActiveIsLast
  /\ \A e \in sole : stage[e] = "using" => cached.phase = "Active"

StageTypes == stage \in [Experiments -> Stages] /\ sole \subseteq Experiments

LEMMA SoleInit == SharedInit => SoleInv
<1> SUFFICES ASSUME SharedInit PROVE SoleInv
  OBVIOUS
<1>1. stored.phase # "Active"
  BY NewPhase DEF SharedInit
<1>2. sole = {}
  BY DEF SharedInit
<1>3. \A e \in sole : FALSE
  BY <1>2
<1> HIDE DEF ActiveIsLast
<1> QED
  BY <1>1, <1>2, <1>3 DEF SoleInv

(* What the experiment reads as Active is the stored version.               *)
LEMMA SoleReads ==
  ASSUME IInv, SoleInv, sole # {}, cached.phase = "Active"
  PROVE  /\ cached = stored /\ watch = <<>> /\ Settled
         /\ stored.active /\ stored.observed = stored.generation
<1>1. watch = <<>> /\ cached = stored
  BY DEF SoleInv, ActiveIsLast, IInv, Versions, Sync
<1>2. stored.exists
  BY DEF SoleInv, Known
<1> QED
  BY <1>1, <1>2 DEF SoleInv, Settled

(* Nobody touches the finalizer of an Active Topology.                      *)
LEMMA HeldStep ==
  ASSUME IInv, SoleInv, ControllerStep
  PROVE  stored'.phase = "Active" => stored'.finalizer
<1>1. stored \in TopologyObject /\ (stored.phase = "Active" => stored.finalizer)
  BY DEF IInv, TypeOK, SoleInv
<1>2. CASE stored' = stored
  BY <1>1, <1>2
<1>3. CASE \/ stored' = [stored EXCEPT !.exists = FALSE]
           \/ stored' = [stored EXCEPT !.finalizer = TRUE]
  BY <1>1, <1>3 DEF TopologyObject
<1>4. CASE Status
  <2>1. PICK p \in Phases, o \in Nat, refs \in SUBSET Objects :
          stored' = Updated(stored, p, o, refs)
    BY <1>4 DEF Status
  <2> QED
    BY <1>1, <1>4, <2>1 DEF Status, Updated, TopologyObject
<1> QED
  BY <1>2, <1>3, <1>4 DEF ControllerStep, Still, Deliver, Relisted, Revised

(* A reconcile leaves the topology to the experiment that uses it.          *)
LEMMA SoleControllerStep ==
  ASSUME IInv, SoleInv, Effect, ControllerStep, UNCHANGED experimentVars
  PROVE  SoleInv'
<1>1. sole' = sole /\ stage' = stage
  BY DEF experimentVars
<1>2. stored'.phase = "Active" => stored'.finalizer
  BY HeldStep
<1>3. CASE sole = {}
  BY <1>1, <1>2, <1>3 DEF SoleInv
<1>4. CASE sole # {}
  <2>1. stored \in TopologyObject /\ watch \in Seq(TopologyObject)
    BY DEF IInv, TypeOK
  <2>2. /\ \A v : Known(v) => v.exists
        /\ ~stored.deleting /\ stored.active /\ ActiveIsLast
        /\ stored.phase = "Active" => stored.observed = stored.generation /\ stored.finalizer
    BY <1>4 DEF SoleInv
  <2>3. stored.exists
    BY <2>2 DEF Known
  <2>4. CASE Still
    <3>1. stored' = stored /\ cached' = cached /\ watch' = watch
      BY <2>4 DEF Still
    <3>2. ActiveIsLast'
      BY <2>2, <3>1 DEF ActiveIsLast
    <3>3. \A v : Known(v)' => Known(v)
      BY <3>1 DEF Known, OnItsWay
    <3> QED
      BY <1>1, <2>2, <3>1, <3>2, <3>3 DEF SoleInv
  <2>5. CASE Deliver
    <3>1. /\ stored' = stored /\ watch # <<>> /\ cached' = watch[1] /\ watch' = Tail(watch)
      BY <2>1, <2>5 DEF Deliver
    <3>2. /\ Len(watch) \in Nat \ {0}
          /\ Len(watch') = Len(watch) - 1
          /\ \A i \in 1..Len(watch') : watch'[i] = watch[i + 1] /\ i + 1 \in 1..Len(watch)
      BY <2>1, <3>1
    <3>3. cached.phase # "Active"
      BY <2>2, <3>1 DEF ActiveIsLast
    <3>4. ActiveIsLast'
      <4>1. ASSUME cached'.phase = "Active"
            PROVE  watch' = <<>>
        <5>1. 1 \in 1..Len(watch) /\ watch[1].phase = "Active"
          BY <3>1, <3>2, <4>1
        <5>2. Len(watch) = 1
          BY <2>2, <5>1 DEF ActiveIsLast
        <5> QED
          BY <2>1, <3>1, <5>2
      <4>2. ASSUME NEW i \in 1..Len(watch'), watch'[i].phase = "Active"
            PROVE  i = Len(watch')
        BY <2>2, <3>2, <4>2 DEF ActiveIsLast
      <4> QED
        BY <4>1, <4>2 DEF ActiveIsLast
    <3>5. \A v : Known(v)' => Known(v)
      BY <3>1 DEF Known, Effect, KnownStep
    <3>6. \A e \in sole : stage[e] # "using"
      BY <3>3 DEF SoleInv
    <3>7. \A v : Known(v)' => v.exists
      BY <2>2, <3>5
    <3> HIDE DEF ActiveIsLast, Known
    <3> QED
      BY <1>1, <1>2, <2>2, <3>1, <3>4, <3>6, <3>7 DEF SoleInv
  <2>6. CASE Relisted
    <3>1. cached.phase = "Active" => cached' = cached
      BY <2>2, <2>6 DEF Relisted, ActiveIsLast, IInv, Versions, Sync
    <3> QED
      BY <1>1, <1>2, <2>2, <2>6, <3>1 DEF Relisted, SoleInv, Known, OnItsWay, ActiveIsLast
  <2>7. CASE Revised
    <3>1. cached = stored /\ watch = <<>> /\ cached' = cached /\ watch' = <<stored'>>
      BY <2>7 DEF Revised
    <3>2. stored.phase # "Active"
      BY <2>2, <2>7, <3>1 DEF Revised, Status, InLine
    <3>3. /\ stored'.exists = stored.exists /\ stored'.deleting = stored.deleting
          /\ stored'.active = stored.active
          /\ stored'.phase = "Active" => stored'.observed = stored'.generation
      <4>1. CASE stored' = [stored EXCEPT !.finalizer = TRUE]
        BY <2>1, <3>2, <4>1 DEF TopologyObject
      <4>2. CASE Status
        <5>1. PICK p \in Phases, o \in Nat, refs \in SUBSET Objects :
                /\ stored' = Updated(stored, p, o, refs)
                /\ p = "Active" => o = stored.generation
          BY <4>2 DEF Status
        <5> QED
          BY <2>1, <5>1 DEF Updated, TopologyObject
      <4> QED
        BY <2>2, <2>7, <4>1, <4>2 DEF Revised
    <3>4. ActiveIsLast'
      BY <3>1, <3>2 DEF ActiveIsLast
    <3>5. \A v : Known(v)' => Known(v) \/ v = stored'
      BY DEF Known, Effect, KnownStep
    <3> QED
      BY <1>1, <1>2, <2>2, <2>3, <3>1, <3>2, <3>3, <3>4, <3>5 DEF SoleInv
  <2> QED
    BY <2>4, <2>5, <2>6, <2>7 DEF ControllerStep
<1> QED
  BY <1>3, <1>4

(* Nobody is in the way of a patch that changes an up-to-date version.      *)
LEMMA SwitchedOn ==
  ASSUME IInv, NEW ask \in {"on", "off"}, Patched(ask), cached = stored,
         stored.exists, stored.active # (ask = "on")
  PROVE  Switched(ask)
<1>1. stored \in TopologyObject
  BY DEF IInv, TypeOK
<1>2. [stored EXCEPT !.active = (ask = "on"), !.generation = @ + 1] = Edited(stored.spec, ask = "on")
  BY <1>1 DEF Edited, TopologyObject
<1> QED
  BY <1>2 DEF Patched, Switched

(* Any experiment's step: as long as it leaves somebody on his own, the     *)
(* Topology stays as it is or has just been switched on.                    *)
LEMMA SoleMoveStep ==
  ASSUME IInv, SoleInv, StageTypes,
         NEW e \in Experiments, NEW ask, NEW to, MoveStep(e, ask, to)
  PROVE  SoleInv'
<1>1. /\ stored \in TopologyObject
      /\ cached' = cached
      /\ Unwritten \/ Switched(ask)
      /\ Witnessed(e, ask)
      /\ stage' = [stage EXCEPT ![e] = to]
  BY PatchedCases DEF IInv, TypeOK, MoveStep, Moves
<1>2. \/ stored' = stored /\ watch' = watch
      \/ /\ watch' = Append(watch, stored')
         /\ stored'.exists = stored.exists /\ stored'.deleting = stored.deleting
         /\ stored'.finalizer = stored.finalizer /\ stored'.phase = stored.phase
         /\ stored'.active = (ask = "on")
  BY <1>1 DEF Unwritten, Switched, Store, Edited, TopologyObject
<1>3. stored'.phase = "Active" => stored'.finalizer
  BY <1>2 DEF SoleInv
<1>4. CASE sole' = {}
  <2>1. \A x \in sole' : FALSE
    BY <1>4
  <2> QED
    BY <1>3, <1>4, <2>1 DEF SoleInv
<1>5. CASE sole # {} /\ sole' \subseteq sole /\ sole' # {} /\ ask # "off"
  <2>1. /\ \A v : Known(v) => v.exists
        /\ ~stored.deleting /\ stored.active /\ ActiveIsLast
        /\ stored.phase = "Active" => stored.observed = stored.generation
    BY <1>5 DEF SoleInv
  <2>2. Unwritten
    BY <1>1, <1>5, <2>1 DEF Switched, MoveStep
  <2>3. stored' = stored /\ watch' = watch
    BY <2>2 DEF Unwritten
  <2>4. ActiveIsLast'
    BY <1>1, <2>1, <2>3 DEF ActiveIsLast
  <2>5. \A v : Known(v)' => v.exists
    BY <1>1, <2>1, <2>3 DEF Known, OnItsWay
  <2>6. ASSUME NEW x \in sole', stage'[x] = "using"
        PROVE  cached'.phase = "Active"
    <3>1. CASE stage[x] = "using"
      BY <1>1, <1>5, <3>1 DEF SoleInv
    <3>2. CASE stage[x] # "using"
      <4>1. to = "using"
        BY <1>1, <1>5, <2>6, <3>2 DEF StageTypes
      <4>2. Read = "Active" /\ cached.exists
        BY <1>5, <2>1, <4>1 DEF MoveStep, Known
      <4> QED
        BY <1>1, <4>2 DEF Read
    <3> QED
      BY <3>1, <3>2
  <2> HIDE DEF ActiveIsLast, Known
  <2> QED
    BY <1>3, <2>1, <2>3, <2>4, <2>5, <2>6 DEF SoleInv
<1>6. CASE ask = "on" /\ sole' \subseteq {e} /\ Undisturbed(e)
  <2>1. /\ watch = <<>> /\ cached = stored /\ Settled
        /\ stored.exists /\ ~stored.deleting
        /\ stored.observed = stored.generation
        /\ stored.phase = IF stored.active THEN "Active" ELSE "Inactive"
    BY <1>6 DEF Undisturbed, IInv, Versions, Sync, Settled, ProvisionedWhenSettled
  <2>2. CASE stored.active
    <3>1. stored' = stored /\ watch' = watch
      BY <1>1, <1>6, <2>2 DEF Switched, Unwritten
    <3>2. ActiveIsLast'
      BY <1>1, <2>1, <3>1 DEF ActiveIsLast
    <3>3. \A v : Known(v)' => v.exists
      BY <1>1, <2>1, <3>1 DEF Known, OnItsWay
    <3>4. \A x \in sole' : cached'.phase = "Active"
      BY <1>1, <2>1, <2>2
    <3> HIDE DEF ActiveIsLast, Known
    <3> QED
      BY <1>3, <2>1, <2>2, <3>1, <3>2, <3>3, <3>4 DEF SoleInv
  <2>3. CASE ~stored.active
    <3>1. Switched(ask)
      BY <1>1, <1>6, <2>1, <2>3, SwitchedOn DEF MoveStep, Moves
    <3>2. /\ stored'.exists /\ ~stored'.deleting /\ stored'.active
          /\ stored'.phase = "Inactive" /\ watch' = <<stored'>>
      BY <1>1, <1>2, <1>6, <2>1, <2>3, <3>1 DEF Switched, Store, Edited, TopologyObject
    <3>3. ActiveIsLast'
      BY <1>1, <2>1, <2>3, <3>2 DEF ActiveIsLast
    <3>4. \A v : Known(v)' => v.exists
      BY <1>1, <2>1, <3>2 DEF Known, OnItsWay
    <3>5. \A x \in sole' : stage'[x] # "using"
      BY <1>1, <1>6 DEF MoveStep, StageTypes
    <3> HIDE DEF ActiveIsLast, Known
    <3> QED
      BY <3>2, <3>3, <3>4, <3>5 DEF SoleInv
  <2> QED
    BY <2>2, <2>3
<1> QED
  BY <1>1, <1>4, <1>5, <1>6 DEF Witnessed, MoveStep

(* Every step.                                                              *)
LEMMA SoleStep ==
  ASSUME IInv, SoleInv, StageTypes, [SharedNext]_sharedVars
  PROVE  SoleInv'
<1>1. Effect
  BY SharedEffect
<1>2. CASE Controller
  BY <1>1, <1>2, ControllerControls, SoleControllerStep DEF Controller
<1>3. CASE \E e \in Experiments : Advance(e) \/ Refused(e) \/ Stumble(e)
  BY <1>3, ExperimentMoves, SoleMoveStep
<1>4. CASE UserEdit \/ UserDelete
  <2>1. stored'.phase = stored.phase /\ stored'.finalizer = stored.finalizer /\ sole' = {}
    <3>1. stored \in TopologyObject
      BY DEF IInv, TypeOK
    <3> QED
      BY <1>4, <3>1 DEF UserEdit, UserDelete, DeleteTopology, Store, TopologyObject
  <2>2. \A e \in sole' : FALSE
    BY <2>1
  <2> QED
    BY <2>1, <2>2 DEF SoleInv
<1>5. CASE Rest \/ UNCHANGED sharedVars
  <2>1. /\ Still /\ Shrinks /\ UNCHANGED experimentVars
    BY <1>5 DEF Rest, Idle, sharedVars, vars, experimentVars, Still, Shrinks
  <2> QED
    BY <1>1, <2>1, SoleControllerStep DEF ControllerStep
<1> QED
  BY <1>2, <1>3, <1>4, <1>5 DEF SharedNext

LEMMA StageTypesInit == SharedInit => StageTypes
BY DEF SharedInit, StageTypes, Stages

LEMMA StageTypesStep ==
  ASSUME IInv, StageTypes, [SharedNext]_sharedVars
  PROVE  StageTypes'
<1>1. CASE \E e \in Experiments : Advance(e) \/ Refused(e) \/ Stumble(e)
  <2>1. PICK e \in Experiments : \E ask, to : MoveStep(e, ask, to)
    BY <1>1, ExperimentMoves
  <2>2. \E to \in Stages : stage' = [stage EXCEPT ![e] = to]
    <3>1. PICK ask, to : MoveStep(e, ask, to)
      BY <2>1
    <3>2. to \in Stages
      BY <3>1 DEF MoveStep
    <3> QED
      BY <3>1, <3>2 DEF MoveStep, Moves
  <2>3. sole' \subseteq sole \cup {e}
    BY <2>1 DEF MoveStep, Moves, Witnessed
  <2> QED
    BY <2>1, <2>2, <2>3 DEF StageTypes
<1>2. CASE UNCHANGED <<stage, sole>> \/ (stage' = stage /\ sole' = {})
  BY <1>2 DEF StageTypes
<1> QED
  BY <1>1, <1>2 DEF SharedNext, Controller, UserEdit, UserDelete, Rest, sharedVars, experimentVars

(* An experiment that found the topology settled and unused measures on a   *)
(* topology whose zones and links are all there, as long as nobody else     *)
(* touches it: for every number of experiments, any failures of the         *)
(* controller and of the experiment, and any lag of the cache both read.    *)
THEOREM SoleUseIsProvisioned == SharedSpec => []SoleUseProvisioned
<1>1. IInv /\ SoleInv /\ StageTypes /\ [SharedNext]_sharedVars => SoleInv' /\ StageTypes'
  BY SoleStep, StageTypesStep
<1>2. IInv /\ SoleInv => SoleUseProvisioned
  <2> SUFFICES ASSUME IInv, SoleInv, NEW e \in sole, stage[e] = "using"
               PROVE  Provisioned
    BY DEF SoleUseProvisioned
  <2>1. Settled /\ stored.active
    BY SoleReads DEF SoleInv
  <2>2. \A z \in ZonesOf(stored) : stored.spec.zones[z] # Absent /\ "limited" # Absent
    BY DEF ZonesOf, Absent
  <2> QED
    BY <2>1, <2>2 DEF IInv, ProvisionedWhenSettled, Provisioned
<1> QED
  BY SharedInvariant, SoleInit, StageTypesInit, <1>1, <1>2, PTL DEF SharedSpec

-----------------------------------------------------------------------------
(* The topology after its sole experiment has switched it off.              *)

(* The versions a reconcile may start from that are still active are in     *)
(* line, so that nothing is provisioned from them, and the status names     *)
(* what is to be removed, until it has caught up.                           *)
FreedInv ==
  freed =>
    /\ ~stored.active
    /\ ~stored.deleting
    /\ \A v : Known(v) /\ v.active => v.phase = "Active" /\ v.observed = v.generation
    /\ \A o \in Objects : chaos[o] # Off => o \in stored.refs
    /\ Settled => \A o \in Objects : chaos[o] = Off

(* What remains to be shown of a step that leaves the topology off.         *)
LEMMA FreedControllerStep ==
  ASSUME "deleteError" \notin Faults, IInv, FreedInv, Effect, ControllerStep,
         UNCHANGED experimentVars
  PROVE  FreedInv'
<1> SUFFICES ASSUME freed' PROVE FreedInv'
  BY DEF FreedInv
<1>1. /\ ~stored.active /\ ~stored.deleting
      /\ \A v : Known(v) /\ v.active => v.phase = "Active" /\ v.observed = v.generation
      /\ \A o \in Objects : chaos[o] # Off => o \in stored.refs
      /\ Settled => \A o \in Objects : chaos[o] = Off
  BY DEF FreedInv, experimentVars
<1>2. stored \in TopologyObject /\ chaos \in [Objects -> Settings \cup {Off}]
  BY DEF IInv, TypeOK
<1>3. Shrinks
  <2>1. cached.active => InLine
    BY <1>1 DEF Known, InLine
  <2> QED
    BY <2>1 DEF ControllerStep
<1>4. \A v : Known(v)' => Known(v) \/ v = stored'
  BY DEF Known, Effect, KnownStep
<1>5. CASE stored' = stored
  <2>1. \A v : Known(v)' /\ v.active => v.phase = "Active" /\ v.observed = v.generation
    BY <1>1, <1>4, <1>5 DEF Known
  <2>2. \A o \in Objects : chaos'[o] # Off => o \in stored'.refs
    BY <1>1, <1>3, <1>5 DEF Shrinks
  <2>3. Settled' => \A o \in Objects : chaos'[o] = Off
    BY <1>1, <1>3, <1>5 DEF Shrinks, Settled
  <2> HIDE DEF Known, Settled
  <2> QED
    BY <1>1, <1>5, <2>1, <2>2, <2>3 DEF FreedInv
<1>6. CASE Revised
  <2>1. /\ stored'.active = stored.active /\ stored'.deleting = stored.deleting
        /\ \/ /\ stored'.refs = stored.refs
              /\ Settled' => Settled
           \/ chaos' = RemovedLinks(stored.refs)
    <3>1. CASE stored' = [stored EXCEPT !.finalizer = TRUE]
      BY <1>2, <3>1 DEF TopologyObject, Settled
    <3>2. CASE Status
      <4>1. PICK p \in Phases, o \in Nat, refs \in SUBSET Objects :
              /\ stored' = Updated(stored, p, o, refs)
              /\ chaos' = RemovedLinks(stored.refs) \/ (p = "Failed" /\ refs = stored.refs)
        BY <1>1, <3>2 DEF Status
      <4>2. /\ stored'.active = stored.active /\ stored'.deleting = stored.deleting
            /\ stored'.phase = p /\ stored'.refs = refs
        BY <1>2, <4>1 DEF Updated, TopologyObject
      <4>3. p = "Failed" => ~Settled'
        BY <4>2 DEF Settled
      <4> QED
        BY <4>1, <4>2, <4>3
    <3> QED
      BY <1>1, <1>6, <3>1, <3>2 DEF Revised
  <2>2. \A v : Known(v)' /\ v.active => v.phase = "Active" /\ v.observed = v.generation
    BY <1>1, <1>4, <2>1
  <2>3. /\ \A o \in Objects : chaos'[o] # Off => o \in stored'.refs
        /\ Settled' => \A o \in Objects : chaos'[o] = Off
    <3>1. CASE chaos' = RemovedLinks(stored.refs)
      <4>1. \A o \in Objects : chaos'[o] = Off
        BY <1>1, <3>1 DEF RemovedLinks
      <4> QED
        BY <4>1
    <3>2. CASE stored'.refs = stored.refs /\ (Settled' => Settled)
      BY <1>1, <1>3, <3>2 DEF Shrinks
    <3> QED
      BY <2>1, <3>1, <3>2
  <2> HIDE DEF Known, Settled
  <2> QED
    BY <1>1, <2>1, <2>2, <2>3 DEF FreedInv
<1> QED
  BY <1>5, <1>6 DEF ControllerStep, Still, Deliver, Relisted

(* An experiment switches the topology off.                                 *)
LEMMA FreedMoveStep ==
  ASSUME IInv, SoleInv, LinksInv, FreedInv, Effect,
         NEW e, NEW ask, NEW to, MoveStep(e, ask, to)
  PROVE  FreedInv'
<1> SUFFICES ASSUME freed' PROVE FreedInv'
  BY DEF FreedInv
<1>1. /\ stored \in TopologyObject
      /\ cached' = cached /\ chaos' = chaos
      /\ Unwritten \/ Switched(ask)
      /\ Witnessed(e, ask)
      /\ ask \in {"on", "off", "same"}
  BY PatchedCases DEF IInv, TypeOK, MoveStep, Moves, cluster
<1>2. ask # "on"
  BY <1>1 DEF Witnessed
<1>3. CASE freed
  <2>1. stored.active = FALSE
    BY <1>1, <1>3 DEF FreedInv, TopologyObject
  <2>2. stored' = stored /\ watch' = watch
    BY <1>1, <1>2, <2>1 DEF Switched, Unwritten
  <2>3. (\A v : Known(v)' => Known(v)) /\ (Settled' => Settled)
    BY <1>1, <2>2 DEF Known, OnItsWay, Settled
  <2> HIDE DEF Known, Settled
  <2> QED
    BY <1>1, <1>3, <2>2, <2>3 DEF FreedInv
<1>4. CASE ~freed
  <2>1. ask = "off" /\ e \in sole /\ stage[e] = "using"
    BY <1>1, <1>4 DEF Witnessed
  <2>2. cached.phase = "Active" /\ sole # {}
    BY <2>1 DEF SoleInv
  <2>3. /\ cached = stored /\ watch = <<>>
        /\ stored.exists /\ stored.active /\ ~stored.deleting
        /\ stored.observed = stored.generation
        /\ stored.phase = "Active"
    BY <2>2, SoleReads DEF Settled
  <2>4. Switched(ask)
    BY <1>1, <2>1, <2>3, SwitchedOn DEF MoveStep, Moves
  <2>5. stored' = Edited(stored.spec, FALSE)
    BY <2>1, <2>4 DEF Switched, Store
  <2>6. /\ stored'.active = FALSE /\ stored'.deleting = stored.deleting
        /\ stored'.refs = stored.refs
        /\ stored'.generation = stored.generation + 1
        /\ stored'.observed = stored.observed
        /\ stored.generation \in Nat
    BY <1>1, <2>5 DEF Edited, TopologyObject
  <2>7. \A v : Known(v)' => v = stored \/ v = stored'
    BY <1>1, <2>3 DEF Known, OnItsWay, Effect, KnownStep
  <2>8. ~Settled'
    BY <2>3, <2>6 DEF Settled
  <2>9. \A o \in Objects : chaos'[o] # Off => o \in stored'.refs
    BY <1>1, <2>3, <2>6 DEF LinksInv
  <2> HIDE DEF Known, Settled
  <2> QED
    BY <2>3, <2>6, <2>7, <2>8, <2>9 DEF FreedInv
<1> QED
  BY <1>3, <1>4

(* Every step.                                                              *)
LEMMA FreedStep ==
  ASSUME "deleteError" \notin Faults, IInv, SoleInv, LinksInv, FreedInv, [SharedNext]_sharedVars
  PROVE  FreedInv'
<1>1. Effect
  BY SharedEffect
<1>2. CASE Controller
  BY <1>1, <1>2, ControllerControls, FreedControllerStep DEF Controller
<1>3. CASE \E e \in Experiments : Advance(e) \/ Refused(e) \/ Stumble(e)
  BY <1>1, <1>3, ExperimentMoves, FreedMoveStep
<1>4. CASE UserEdit \/ UserDelete
  BY <1>4 DEF UserEdit, UserDelete, FreedInv
<1>5. CASE Rest \/ UNCHANGED sharedVars
  <2>1. Still /\ Shrinks /\ UNCHANGED experimentVars
    BY <1>5 DEF Rest, Idle, sharedVars, vars, experimentVars, Still, Shrinks
  <2> QED
    BY <1>1, <2>1, FreedControllerStep DEF ControllerStep
<1> QED
  BY <1>2, <1>3, <1>4, <1>5 DEF SharedNext

(* When the status has caught up with an experiment that used the topology  *)
(* alone and has switched it off, the links are gone: no reconcile that     *)
(* starts late from an active version brings one back, and none is          *)
(* forgotten by a reconcile that fails or is interrupted, as long as the    *)
(* edits keep the links and no delete of a chaos object fails.              *)
THEOREM SoleUseIsUndone ==
  ASSUME LinksAreKept, "deleteError" \notin Faults
  PROVE  SharedSpec => []SoleUseUndone
<1>1. SharedInit => LinksInv /\ FreedInv
  BY LinksInit DEF SharedInit, FreedInv
<1>2. IInv /\ SoleInv /\ StageTypes /\ [SharedNext]_sharedVars => SoleInv' /\ StageTypes'
  BY SoleStep, StageTypesStep
<1>3. IInv /\ LinksInv /\ [SharedNext]_sharedVars => LinksInv'
  BY SharedEffect, LinksStep DEF Sound
<1>4. IInv /\ SoleInv /\ LinksInv /\ FreedInv /\ [SharedNext]_sharedVars => FreedInv'
  BY FreedStep
<1>5. FreedInv => SoleUseUndone
  BY DEF FreedInv, SoleUseUndone
<1> QED
  BY SharedInvariant, SoleInit, StageTypesInit, <1>1, <1>2, <1>3, <1>4, <1>5, PTL DEF SharedSpec

=============================================================================
