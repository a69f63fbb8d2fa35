----------------------------- MODULE Manifests -----------------------------
(* How the experiment controller deploys and undeploys the manifest sets of *)
(* an experiment (internal/controller/manifest.go and applyManifestSet).    *)
(* A set of manifests is a role: its source ConfigMap is copied to a        *)
(* ConfigMap the operator owns, and then its objects are applied.           *)
(* Two sets describe the cluster: "owned", the references of the owned      *)
(* ConfigMaps that exist, and "deployed", the roles with objects in it.     *)
EXTENDS Naturals, Sequences

CONSTANTS
  Roles,       \* the manifest sets the experiment names
  Namespaced   \* those whose manifests all set metadata.namespace

RoleOrder == <<"sut", "infra", "monitor", "load">>

ASSUME RolesAssumption ==
  /\ Roles \subseteq {"sut", "infra", "monitor", "load"}
  /\ Namespaced \subseteq Roles

Position(r) == CHOOSE i \in 1..4 : RoleOrder[i] = r

(* The roles handled before role r.                                         *)
Earlier(r) == {q \in Roles : Position(q) < Position(r)}

ManifestRef(id, r) == [kind |-> "ConfigMap", id |-> id, name |-> r]

ManifestRefs(id, rs) == {ManifestRef(id, r) : r \in rs}

(* deployManifests on the roles rs, all of it successful.  An object that   *)
(* exists is updated, so deploying twice is deploying once.                 *)
DeployedSet(deployed, rs) == deployed \cup rs
OwnedSet(owned, id, rs) == owned \cup ManifestRefs(id, rs)

(* deployManifests fails for role r after "stage": nothing done, the owned  *)
(* ConfigMap written, or objects applied too.  The roles before r are done. *)
Stages == {"nothing", "owned", "applied"}
StageDeployed(deployed, r, stage) ==
  deployed \cup Earlier(r) \cup (IF stage = "applied" THEN {r} ELSE {})
StageOwned(owned, id, r, stage) ==
  OwnedSet(owned, id, Earlier(r) \cup (IF stage = "nothing" THEN {} ELSE {r}))

(* undeployManifests for every reference that names an owned ConfigMap:     *)
(* read it, delete the objects it lists, delete it, errors ignored.  "bad"  *)
(* holds pairs <<role, call>> for the calls that fail: after a failed "get" *)
(* nothing is deleted, a failed "objects" or "configMap" leaves that behind *)
(* and goes on.  Manifests without a namespace are never deleted, because   *)
(* deleteManifests does not put in the default that applyManifests used.    *)
CleanedOwned(owned, refs, bad) ==
  owned \ {r \in refs : {<<r.name, "get">>, <<r.name, "configMap">>} \cap bad = {}}
CleanedDeployed(deployed, owned, refs, bad) ==
  deployed \ {r \in Namespaced :
                /\ {<<r, "get">>, <<r, "objects">>} \cap bad = {}
                /\ \E ref \in owned \cap refs : ref.name = r}

=============================================================================
