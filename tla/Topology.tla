------------------------------ MODULE Topology ------------------------------
(* The topology controller (internal/controller/topology_controller.go) and *)
(* one Topology object: zones become namespaces with an optional quota,     *)
(* links become NetworkChaos objects while spec.active is set.              *)
(*                                                                          *)
(* A reconcile reads the object from the informer cache, works on the       *)
(* cluster call by call, and ends in an Update that carries the version it  *)
(* read: the API server refuses it when the stored object has moved on.     *)
EXTENDS Integers, Sequences, FiniteSets

CONSTANTS
  Zones,          \* zone names
  Objects,        \* NetworkChaos objects the links may ask for: a link has
                  \* one for each of latency, bandwidth and packet loss
  Home,           \* the zone, first in the alphabet, in whose namespace it is
  Settings,       \* values such a field can be set to
  Off,            \* the field is empty, or the link is not listed
  Specs,          \* the zones and links users write into the spec
  Faults,         \* the kinds of failure the environment may show
  FaultBudget,    \* bound: how many of them in one behaviour
  MaxGeneration,  \* bound: spec changes in one behaviour
  MaxLag          \* bound: versions the cache may be behind

Absent == "absent"
ZoneStates == {Absent, "plain", "limited"}   \* without and with a ResourceQuota

TopologySpecs == [zones : [Zones -> ZoneStates], links : [Objects -> Settings \cup {Off}]]

FaultKinds == {"ensureError", "deleteError", "updateError", "lostReply", "crash"}

ASSUME TopologyAssumption ==
  /\ Off \notin Settings
  /\ Home \in [Objects -> Zones]
  /\ Specs \subseteq TopologySpecs
  /\ Faults \subseteq FaultKinds
  /\ {FaultBudget, MaxGeneration, MaxLag} \subseteq Nat

VARIABLES
  stored,      \* the Topology in the API server
  cached,      \* the Topology in the informer cache
  watch,       \* its versions on their way to the cache, oldest first
  queued,      \* the work queue holds the object
  namespaces,  \* for every zone its namespace, and whether it has a quota
  chaos,       \* for every NetworkChaos object its setting, or Off
  budget       \* failures the environment may still show

vars == <<stored, cached, watch, queued, namespaces, chaos, budget>>
cluster == <<namespaces, chaos>>

Phases == {"", "Inactive", "Active", "Failed"}

TopologyObject == [exists : BOOLEAN, deleting : BOOLEAN, finalizer : BOOLEAN, generation : Nat,
                   active : BOOLEAN, spec : Specs,
                   phase : Phases, observed : Nat, refs : SUBSET Objects]

Created(spec, active) ==
  [exists |-> TRUE, deleting |-> FALSE, finalizer |-> FALSE, generation |-> 1,
   active |-> active, spec |-> spec, phase |-> "", observed |-> 0, refs |-> {}]

Init ==
  /\ \E spec \in Specs, active \in BOOLEAN : stored = Created(spec, active)
  /\ cached = [stored EXCEPT !.exists = FALSE]
  /\ watch = <<stored>>
  /\ queued = FALSE
  /\ namespaces = [z \in Zones |-> Absent]
  /\ chaos = [o \in Objects |-> Off]
  /\ budget = FaultBudget

-----------------------------------------------------------------------------
(* Failures and writes.                                                     *)

Spend(cost) == cost <= budget /\ budget' = budget - cost

Suffer(f) == f \in Faults /\ Spend(1)

(* A new version of the object, and its event.                              *)
Store(v) == stored' = v /\ watch' = Append(watch, v)

Unwritten == UNCHANGED <<stored, watch>>

(* The version read is not the stored one, so an Update with it is refused. *)
Conflict == watch # <<>>

(* Mutant of UpdateStatus: on a conflict the status is written again onto   *)
(* the latest version.                                                      *)
UpdateStatusRefetched(v) ==
  /\ Store([stored EXCEPT !.phase = v.phase, !.observed = v.observed, !.refs = v.refs])
  /\ queued' = FALSE
  /\ UNCHANGED <<cached, budget>>

(* Status().Update with status v at the end of a successful reconcile.  A   *)
(* failure makes Reconcile call setPhase, which writes v as Failed with the *)
(* same version, and ignores the answer.                                    *)
UpdateStatus(v) ==
  /\ \/ Conflict /\ Unwritten /\ queued' = TRUE /\ UNCHANGED budget
     \/ /\ ~Conflict
        /\ \/ /\ IF v = stored THEN Unwritten ELSE Store(v)
              /\ queued' = FALSE
              /\ UNCHANGED budget
           \/ /\ Suffer("lostReply")
              /\ Store(v)
              /\ queued' = TRUE
           \/ /\ Suffer("updateError")
              /\ Store([v EXCEPT !.phase = "Failed"])
              /\ queued' = TRUE
           \/ /\ "updateError" \in Faults /\ Spend(2)
              /\ Unwritten
              /\ queued' = TRUE
  /\ UNCHANGED cached

(* setPhase(Failed) after an error before the status was touched.           *)
SetPhaseFailed ==
  /\ \/ Conflict /\ Unwritten
     \/ ~Conflict /\ Store([cached EXCEPT !.phase = "Failed"])
  /\ queued' = TRUE
  /\ UNCHANGED cached

(* The operator dies; a new one lists the objects afresh.                   *)
Die ==
  /\ Suffer("crash")
  /\ cached' = stored
  /\ watch' = <<>>
  /\ queued' = TRUE
  /\ UNCHANGED stored

-----------------------------------------------------------------------------
(* What the calls do to the cluster.                                        *)

ZonesOf(v) == {z \in Zones : v.spec.zones[z] # Absent}
LinksOf(v) == {o \in Objects : v.spec.links[o] # Off}

(* ensureNamespace and ensureResourceQuota: a quota is never taken away.    *)
EnsuredZone(now, wanted) == IF "limited" \in {now, wanted} THEN "limited" ELSE "plain"

(* reconcileZones got through the zones "done", and for those in "half" to  *)
(* the namespace only.                                                      *)
EnsuredZones(done, half) ==
  [z \in Zones |-> IF z \in done THEN EnsuredZone(namespaces[z], cached.spec.zones[z])
                   ELSE IF z \in half THEN EnsuredZone(namespaces[z], "plain")
                   ELSE namespaces[z]]

ZonesEnsured == namespaces' = EnsuredZones(ZonesOf(cached), {})

ZonesPartly ==
  \E z \in ZonesOf(cached) : \E done \in SUBSET (ZonesOf(cached) \ {z}), half \in {{}, {z}} :
    namespaces' = EnsuredZones(done, half)

(* Mutant of EnsuredLinks: an object that exists is not updated.            *)
CreatedLinks(done) ==
  [o \in Objects |-> IF o \in done /\ chaos[o] = Off THEN cached.spec.links[o] ELSE chaos[o]]

(* ensureLinkChaos: create the object or give it the setting of the spec.   *)
EnsuredLinks(done) ==
  [o \in Objects |-> IF o \in done THEN cached.spec.links[o] ELSE chaos[o]]

(* An object can only be created in a namespace that exists.                *)
Placeable == {o \in LinksOf(cached) : namespaces'[Home[o]] # Absent}

RemovedLinks(gone) == [o \in Objects |-> IF o \in gone THEN Off ELSE chaos[o]]

-----------------------------------------------------------------------------
(* Reconcile.                                                               *)

ReconcileStarts == queued /\ Len(watch) < MaxLag

NotFound ==
  /\ ReconcileStarts
  /\ ~cached.exists
  /\ queued' = FALSE
  /\ UNCHANGED <<stored, cached, watch, cluster, budget>>

Living == ReconcileStarts /\ cached.exists /\ ~cached.deleting

AddFinalizer ==
  /\ Living
  /\ ~cached.finalizer
  /\ \/ Conflict /\ Unwritten /\ UNCHANGED budget
     \/ ~Conflict /\ Store([cached EXCEPT !.finalizer = TRUE]) /\ UNCHANGED budget
     \/ Unwritten /\ Suffer("updateError")
  /\ UNCHANGED <<cached, queued, cluster>>

(* Mutant of InLine: the generation is not compared.                        *)
InLinePhase == cached.phase = (IF cached.active THEN "Active" ELSE "Inactive")

(* The guard against reconciling what is in line already.                   *)
InLine ==
  /\ cached.observed = cached.generation
  /\ cached.phase = (IF cached.active THEN "Active" ELSE "Inactive")

Skip ==
  /\ Living /\ cached.finalizer /\ InLine
  /\ queued' = FALSE
  /\ UNCHANGED <<stored, cached, watch, cluster, budget>>

Working(active) == Living /\ cached.finalizer /\ ~InLine /\ cached.active = active

ZonesFailed == ZonesPartly /\ UNCHANGED chaos /\ Suffer("ensureError") /\ SetPhaseFailed

(* Mutant of Applied: the references are not recorded.                      *)
AppliedUntracked ==
  /\ ZonesEnsured
  /\ Placeable = LinksOf(cached)
  /\ chaos' = EnsuredLinks(LinksOf(cached))
  /\ UpdateStatus([cached EXCEPT !.phase = "Active", !.observed = cached.generation])

(* All zones and links are provisioned.                                     *)
Applied ==
  /\ ZonesEnsured
  /\ Placeable = LinksOf(cached)
  /\ chaos' = EnsuredLinks(LinksOf(cached))
  /\ UpdateStatus([cached EXCEPT !.phase = "Active", !.observed = cached.generation,
                                 !.refs = LinksOf(cached)])

(* A link fails: what was created for the links before it stays.            *)
LinksFailed ==
  /\ ZonesEnsured
  /\ \E done \in SUBSET Placeable :
       /\ done # LinksOf(cached)
       /\ chaos' = EnsuredLinks(done)
  /\ \/ Placeable # LinksOf(cached) /\ UNCHANGED budget
     \/ Suffer("ensureError")
  /\ SetPhaseFailed

ApplyInterrupted ==
  /\ \/ ZonesPartly /\ UNCHANGED chaos
     \/ ZonesEnsured /\ \E done \in SUBSET Placeable : chaos' = EnsuredLinks(done)
  /\ Die

ReconcileApply ==
  /\ Working(TRUE)
  /\ Applied \/ ZonesFailed \/ LinksFailed \/ ApplyInterrupted

(* Mutant of Deactivated: the namespaces go as well.                        *)
DeactivatedZones ==
  /\ namespaces' = [z \in Zones |-> Absent]
  /\ chaos' = RemovedLinks(Objects)
  /\ UpdateStatus([cached EXCEPT !.phase = "Inactive", !.observed = cached.generation,
                                 !.refs = {}])

(* The objects the status names are removed.  All references are dropped,   *)
(* even if a Delete failed.                                                 *)
Deactivated ==
  /\ ZonesEnsured
  /\ LET inactive == [cached EXCEPT !.phase = "Inactive", !.observed = cached.generation,
                                    !.refs = {}]
     IN  \/ chaos' = RemovedLinks(cached.refs) /\ UpdateStatus(inactive)
         \/ /\ Suffer("deleteError")
            /\ \E stuck \in cached.refs : chaos' = RemovedLinks(cached.refs \ {stuck})
            /\ IF Conflict THEN Unwritten /\ queued' = TRUE
               ELSE Store(inactive) /\ queued' = FALSE
            /\ UNCHANGED cached

DeactivateInterrupted ==
  /\ \/ ZonesPartly /\ UNCHANGED chaos
     \/ ZonesEnsured /\ \E gone \in SUBSET cached.refs : chaos' = RemovedLinks(gone)
  /\ Die

ReconcileDeactivate ==
  /\ Working(FALSE)
  /\ Deactivated \/ ZonesFailed \/ DeactivateInterrupted

(* Deleting a namespace takes what is in it along.                          *)
Demolished(zones, gone) ==
  /\ namespaces' = [z \in Zones |-> IF z \in zones THEN Absent ELSE namespaces[z]]
  /\ chaos' = RemovedLinks(gone \cup {o \in Objects : Home[o] \in zones})

(* The finalizer goes last, and the object with it.                         *)
RemoveFinalizer ==
  /\ \/ Conflict /\ Unwritten /\ queued' = TRUE
     \/ ~Conflict /\ Store([cached EXCEPT !.exists = FALSE]) /\ queued' = FALSE
  /\ UNCHANGED cached

(* Mutant of Deleted: only the chaos objects are removed.                   *)
DeletedChaosOnly ==
  Demolished({}, cached.refs) /\ RemoveFinalizer /\ UNCHANGED budget

(* Errors of the single deletes are logged and forgotten; so is a namespace *)
(* the cache does not know of yet.                                          *)
Deleted ==
  \/ Demolished(ZonesOf(cached), cached.refs) /\ RemoveFinalizer /\ UNCHANGED budget
  \/ /\ Suffer("deleteError")
     /\ \/ \E stuck \in ZonesOf(cached) : Demolished(ZonesOf(cached) \ {stuck}, cached.refs)
        \/ \E stuck \in cached.refs : Demolished(ZonesOf(cached), cached.refs \ {stuck})
     /\ RemoveFinalizer
  \/ /\ Demolished(ZonesOf(cached), cached.refs)
     /\ Suffer("updateError")
     /\ Unwritten
     /\ UNCHANGED <<cached, queued>>
  \/ /\ \E zones \in SUBSET ZonesOf(cached), gone \in SUBSET cached.refs : Demolished(zones, gone)
     /\ Die

ReconcileDelete == ReconcileStarts /\ cached.exists /\ cached.deleting /\ Deleted

Reconcile ==
  \/ NotFound
  \/ AddFinalizer
  \/ Skip
  \/ ReconcileApply
  \/ ReconcileDeactivate
  \/ ReconcileDelete

-----------------------------------------------------------------------------
(* The world around the controller.                                         *)

(* The watch brings the next version; without a predicate every event       *)
(* queues the object.                                                       *)
Deliver ==
  /\ watch # <<>>
  /\ cached' = Head(watch)
  /\ watch' = Tail(watch)
  /\ queued' = TRUE
  /\ UNCHANGED <<stored, cluster, budget>>

Editable == stored.exists /\ stored.generation < MaxGeneration /\ Len(watch) < MaxLag

(* activateTopology and deactivateTopology of the experiment controller.    *)
SwitchActive ==
  /\ Editable
  /\ Store([stored EXCEPT !.active = ~@, !.generation = @ + 1])
  /\ UNCHANGED <<cached, queued, cluster, budget>>

EditSpec ==
  /\ Editable
  /\ \E spec \in Specs \ {stored.spec} : Store([stored EXCEPT !.spec = spec, !.generation = @ + 1])
  /\ UNCHANGED <<cached, queued, cluster, budget>>

(* A Topology without the finalizer is gone at once.                        *)
DeleteTopology ==
  /\ Editable
  /\ ~stored.deleting
  /\ Store(IF stored.finalizer THEN [stored EXCEPT !.deleting = TRUE, !.generation = @ + 1]
           ELSE [stored EXCEPT !.exists = FALSE])
  /\ UNCHANGED <<cached, queued, cluster, budget>>

Restart == Die /\ UNCHANGED cluster

(* Nothing to do until the next edit.                                       *)
Idle == ~queued /\ watch = <<>> /\ UNCHANGED vars

Next ==
  \/ Reconcile
  \/ Deliver
  \/ SwitchActive
  \/ EditSpec
  \/ DeleteTopology
  \/ Restart
  \/ Idle

Spec == Init /\ [][Next]_vars

(* The work queue hands out what it holds and the watch delivers.           *)
FairSpec == Spec /\ WF_vars(Reconcile) /\ WF_vars(Deliver)

-----------------------------------------------------------------------------
(* Properties.                                                              *)

TypeOK ==
  /\ stored \in TopologyObject
  /\ cached \in TopologyObject
  /\ watch \in Seq(TopologyObject)
  /\ queued \in BOOLEAN
  /\ namespaces \in [Zones -> ZoneStates]
  /\ chaos \in [Objects -> Settings \cup {Off}]
  /\ budget \in Nat

(* The status speaks of the spec as it is now.                              *)
Settled ==
  /\ stored.exists
  /\ ~stored.deleting
  /\ stored.observed = stored.generation
  /\ stored.phase # "Failed"

(* A phase observed for the current generation is true: it agrees with      *)
(* spec.active, every zone has its namespace and quota, and while active    *)
(* every link has its chaos objects with the settings of the spec, whatever *)
(* stale copy a reconcile started from.                                     *)
ProvisionedWhenSettled ==
  Settled =>
    /\ stored.phase = IF stored.active THEN "Active" ELSE "Inactive"
    /\ \A z \in ZonesOf(stored) : namespaces[z] \in {stored.spec.zones[z], "limited"}
    /\ stored.active => \A o \in LinksOf(stored) : chaos[o] = stored.spec.links[o]

(* While active, every chaos object is named in the status, so that the     *)
(* next deactivation finds it, if no edit takes a link away.                *)
TrackedWhenActive ==
  Settled /\ stored.active => {o \in Objects : chaos[o] # Off} \subseteq stored.refs

(* The Topology is gone: so are its namespaces and its chaos objects, if no *)
(* edit took a zone away.                                                   *)
DeletedClean ==
  ~stored.exists => /\ \A z \in Zones : namespaces[z] = Absent
                    /\ \A o \in Objects : chaos[o] = Off

(* Only the deletion of the Topology removes a namespace, and with it the   *)
(* workload deployed into it.                                               *)
NamespacesKept ==
  [][stored.deleting \/ \A z \in Zones : namespaces[z] # Absent => namespaces'[z] # Absent]_vars

(* The contract experiments rely on.                                        *)
Contract == INSTANCE TopologyContract WITH active <- stored.active, phase <- stored.phase
PhaseContract == Contract!Spec

(* Once edits and failures have stopped, the status agrees with the spec    *)
(* for good, and a Topology that is being deleted is gone.                  *)
Convergence == <>[](Settled \/ ~stored.exists)

=============================================================================
