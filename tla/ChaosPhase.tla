---------------------------- MODULE ChaosPhase ----------------------------
(* How the experiment controller materialises a ChaosPhase and removes it   *)
(* again (internal/controller/chaosphase.go).  The module has no state of   *)
(* its own: its operators take the set of Chaos Mesh objects that exist and *)
(* return the set that exists afterwards, for the caller's action to use.   *)
EXTENDS Naturals, Sequences, FiniteSets

CONSTANT
  ChaosObjects  \* the objects the ChaosPhase asks for, in creation order, as
                \* records [fault, name, custom]: one object for a network or a
                \* custom fault, one per zone for a stress fault.

ASSUME ChaosObjectsAssumption ==
  ChaosObjects \in Seq([fault : Nat, name : STRING, custom : BOOLEAN])

(* The reference of an object.  The names of network and stress objects     *)
(* carry the experiment's identifier, a custom manifest keeps its own name. *)
ChaosRef(id, o) ==
  [kind |-> "chaos", id |-> IF o.custom THEN 0 ELSE id, name |-> o.name]

ChaosRefs(id, upTo) == {ChaosRef(id, ChaosObjects[i]) : i \in 1..upTo}

(* The Create calls are plain creates: the one at index i fails when an     *)
(* object of that name exists already, be it left over or made by an        *)
(* earlier fault of the same phase.                                         *)
Conflicts(live, id) ==
  {i \in 1..Len(ChaosObjects) :
     ChaosRef(id, ChaosObjects[i]) \in live \cup ChaosRefs(id, i - 1)}

(* The Creates that would fail: those that conflict, and those in           *)
(* "refused", which the API server refuses.                                 *)
Failing(live, id, refused) ==
  Conflicts(live, id) \cup (refused \cap 1..Len(ChaosObjects))

ApplySucceeds(live, id, refused) == Failing(live, id, refused) = {}

(* applyChaosPhase stops at the first Create that fails; every object       *)
(* before it exists afterwards.                                             *)
CreatedObjects(live, id, refused) ==
  {i \in 1..Len(ChaosObjects) : \A j \in Failing(live, id, refused) : i < j}

AppliedChaos(live, id, refused) ==
  live \cup {ChaosRef(id, ChaosObjects[i]) : i \in CreatedObjects(live, id, refused)}

(* The references handed back.  A fault's references are appended once all  *)
(* of its objects were created, so those of the fault that fails half-way   *)
(* are not among them.                                                      *)
CompleteFaults(live, id, refused) ==
  {i \in 1..Len(ChaosObjects) :
     \A j \in 1..Len(ChaosObjects) :
       ChaosObjects[j].fault = ChaosObjects[i].fault =>
         j \in CreatedObjects(live, id, refused)}

ReturnedRefs(live, id, refused) ==
  {ChaosRef(id, ChaosObjects[i]) : i \in CompleteFaults(live, id, refused)}

(* cleanupChaosPhase deletes what the references name.  A reference to a    *)
(* ConfigMap does not have the four parts of a chaos reference and is       *)
(* skipped; a Delete that fails ("stuck") is logged and forgotten.          *)
CleanedChaos(live, refs, stuck) ==
  live \ {r \in refs : r.kind = "chaos" /\ r \notin stuck}

=============================================================================
