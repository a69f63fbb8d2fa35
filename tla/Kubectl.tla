------------------------------ MODULE Kubectl ------------------------------
(* The kubectl plugin (cmd/kubectl-ecoscape): invocations of init, bundle,  *)
(* run, list and results, by several users at a time, against the ConfigMaps*)
(* and Experiments of a cluster in which the operator is at work.  An       *)
(* invocation makes one call at a time and keeps nothing between two runs.  *)
(* A name stands for a namespace and a name in it.                          *)
EXTENDS Naturals, FiniteSets

CONSTANTS
  Clients,      \* invocations of the plugin
  Nobody,       \* not an invocation
  Names,        \* names of Experiments
  Roles,        \* the manifest roles, as numbers in the order of manifestRoles
  Verbs,        \* the commands that are used
  FaultBudget   \* bound: calls that fail in one behaviour

ASSUME KubectlAssumption ==
  /\ Nobody \notin Clients
  /\ Roles \subseteq Nat
  /\ FaultBudget \in Nat

VARIABLES
  at,           \* the call each invocation makes next
  job,          \* its command line and what it found on disk
  todo,         \* init: the roles whose ConfigMap is still to be created
  exit,         \* how it ended
  experiments,  \* the Experiments: phase, the invocation that created it, and
                \* whether it was created with its spec
  configMaps,   \* for a name and a role, who created the ConfigMap name-role
  deleted,      \* history: names of Experiments that users have deleted
  budget        \* failures the environment may still show

vars == <<at, job, todo, exit, experiments, configMaps, deleted, budget>>

Terminal == {"Succeeded", "Failed"}
Phases == {"absent", "", "Running"} \cup Terminal
Steps == {"idle", "look", "create", "wait", "maps", "bundle", "read", "done"}
Exits == {"none", "ok", "error", "timeout", "failed"}

(* A command: "roles" are the directories init finds, or the one bundle     *)
(* takes; "full" is --wait for run, neither --dry-run nor --output for init.*)
Jobs == [verb : {"init", "bundle", "run", "list", "results"}, name : Names,
         roles : SUBSET Roles, full : BOOLEAN]

NoExperiment == [phase |-> "absent", by |-> Nobody, spec |-> FALSE]

Init ==
  /\ at = [c \in Clients |-> "idle"]
  /\ job \in [Clients -> {[verb |-> "list", name |-> n, roles |-> {}, full |-> FALSE] : n \in Names}]
  /\ todo = [c \in Clients |-> {}]
  /\ exit = [c \in Clients |-> "none"]
  /\ experiments = [n \in Names |-> NoExperiment]
  /\ configMaps = [m \in Names \X Roles |-> Nobody]
  /\ deleted = {}
  /\ budget = FaultBudget

-----------------------------------------------------------------------------
(* The API server.                                                          *)

Exists(n) == experiments[n].phase # "absent"

Works == UNCHANGED budget
Breaks == budget > 0 /\ budget' = budget - 1

Goto(c, step) == at' = [at EXCEPT ![c] = step] /\ UNCHANGED exit
Return(c, code) == at' = [at EXCEPT ![c] = "done"] /\ exit' = [exit EXCEPT ![c] = code]

ConfigMapAdded(c, m) == configMaps' = [configMaps EXCEPT ![m] = c]

(* run decodes its file into a typed Experiment.  init decodes the text it  *)
(* has generated into the map of an object, passed by value: the decoder    *)
(* fills a map of its own, and the object keeps apiVersion, kind and        *)
(* metadata.  The CRD does not require a spec.                              *)
ExperimentAdded(c, n) ==
  experiments' = [experiments EXCEPT ![n] =
                    [phase |-> "", by |-> c, spec |-> job[c].verb = "run"]]

-----------------------------------------------------------------------------
(* Starting a command.                                                      *)

Issue(c) ==
  /\ at[c] = "idle"
  /\ \E j \in Jobs :
       /\ j.verb \in Verbs
       /\ j.verb = "bundle" => Cardinality(j.roles) = 1 /\ j.full
       /\ j.verb \in {"run", "list", "results"} => j.roles = {}
       /\ j.verb \in {"list", "results"} => ~j.full
       /\ job' = [job EXCEPT ![c] = j]
       /\ todo' = [todo EXCEPT ![c] = IF j.verb = "init" THEN j.roles ELSE {}]
       /\ at' = [at EXCEPT ![c] = CASE j.verb = "init" -> "maps"
                                    [] j.verb = "bundle" -> "bundle"
                                    [] j.verb = "run" -> "look"
                                    [] OTHER -> "read"]
  /\ UNCHANGED <<exit, experiments, configMaps, deleted, budget>>

-----------------------------------------------------------------------------
(* init: one ConfigMap for each role found, then the Experiment.            *)

(* Nothing found is an error.  With --dry-run or --output nothing is        *)
(* created.  A file may be impossible to read or to write.                  *)
InitLocally(c) ==
  /\ at[c] = "maps"
  /\ \/ job[c].roles = {} /\ Works /\ Return(c, "error")
     \/ job[c].roles # {} /\ ~job[c].full /\ Works /\ Return(c, "ok")
     \/ Breaks /\ Return(c, "error")
  /\ UNCHANGED <<job, todo, experiments, configMaps, deleted>>

IsNextRole(c, r) == r \in todo[c] /\ \A s \in todo[c] : r <= s

(* Mutant of InitConfigMap: a ConfigMap that is there already will do.      *)
InitConfigMapReused(c) ==
  /\ at[c] = "maps" /\ job[c].full
  /\ \E r \in Roles :
       LET m == <<job[c].name, r>> IN
       /\ IsNextRole(c, r)
       /\ IF configMaps[m] = Nobody THEN ConfigMapAdded(c, m) ELSE UNCHANGED configMaps
       /\ todo' = [todo EXCEPT ![c] = @ \ {r}]
  /\ Goto(c, "maps")
  /\ UNCHANGED <<job, experiments, deleted, budget>>

(* A plain Create: a ConfigMap of that name, also one of an earlier attempt *)
(* or of somebody else, ends the command, and what it has created stays.    *)
InitConfigMap(c) ==
  /\ at[c] = "maps" /\ job[c].full
  /\ \E r \in Roles :
       LET m == <<job[c].name, r>> IN
       /\ IsNextRole(c, r)
       /\ \/ /\ configMaps[m] # Nobody
             /\ Works /\ Return(c, "error") /\ UNCHANGED <<configMaps, todo>>
          \/ /\ configMaps[m] = Nobody
             /\ Works /\ ConfigMapAdded(c, m) /\ Goto(c, "maps")
             /\ todo' = [todo EXCEPT ![c] = @ \ {r}]
          \/ Breaks /\ Return(c, "error") /\ UNCHANGED <<configMaps, todo>>
          \/ /\ configMaps[m] = Nobody
             /\ Breaks /\ Return(c, "error") /\ ConfigMapAdded(c, m) /\ UNCHANGED todo
  /\ UNCHANGED <<job, experiments, deleted>>

(* Create of the Experiment, by init and by run; "next" is where a success  *)
(* leads.  The API server refuses a second one of the name; a call that     *)
(* fails may have created it all the same.                                  *)
CreateExperiment(c, next) ==
  LET n == job[c].name IN
  /\ \/ Exists(n) /\ Works /\ Return(c, "error") /\ UNCHANGED experiments
     \/ ~Exists(n) /\ Works /\ next /\ ExperimentAdded(c, n)
     \/ Breaks /\ Return(c, "error") /\ UNCHANGED experiments
     \/ ~Exists(n) /\ Breaks /\ Return(c, "error") /\ ExperimentAdded(c, n)
  /\ UNCHANGED <<job, todo, configMaps, deleted>>

InitExperiment(c) ==
  /\ at[c] = "maps" /\ job[c].full /\ job[c].roles # {} /\ todo[c] = {}
  /\ CreateExperiment(c, Return(c, "ok"))

(* bundle: one ConfigMap from one directory, under the name given.          *)
Bundle(c) ==
  /\ at[c] = "bundle"
  /\ \E r \in job[c].roles :
       LET m == <<job[c].name, r>> IN
       \/ configMaps[m] # Nobody /\ Works /\ Return(c, "error") /\ UNCHANGED configMaps
       \/ configMaps[m] = Nobody /\ Works /\ Return(c, "ok") /\ ConfigMapAdded(c, m)
       \/ Breaks /\ Return(c, "error") /\ UNCHANGED configMaps
       \/ configMaps[m] = Nobody /\ Breaks /\ Return(c, "error") /\ ConfigMapAdded(c, m)
  /\ UNCHANGED <<job, todo, experiments, deleted>>

-----------------------------------------------------------------------------
(* run.                                                                     *)

(* An Experiment that can be read is in the way; any error of Get, not only *)
(* NotFound, is taken for its absence.  Before that the file or the cluster *)
(* configuration may turn out to be of no use.                              *)
RunLook(c) ==
  /\ at[c] = "look"
  /\ \/ Exists(job[c].name) /\ Works /\ Return(c, "error")
     \/ ~Exists(job[c].name) /\ Works /\ Goto(c, "create")
     \/ Breaks /\ (Goto(c, "create") \/ Return(c, "error"))
  /\ UNCHANGED <<job, todo, experiments, configMaps, deleted>>

(* Mutant of RunCreate: the look before is trusted, and the Experiment that *)
(* is there is waited for.                                                  *)
RunCreateOrFollow(c) ==
  /\ at[c] = "create"
  /\ IF Exists(job[c].name) THEN UNCHANGED experiments ELSE ExperimentAdded(c, job[c].name)
  /\ IF job[c].full THEN Goto(c, "wait") ELSE Return(c, "ok")
  /\ UNCHANGED <<job, todo, configMaps, deleted, budget>>

RunCreate(c) ==
  /\ at[c] = "create"
  /\ CreateExperiment(c, IF job[c].full THEN Goto(c, "wait") ELSE Return(c, "ok"))

(* A tick of the wait loop: the Experiment of that name is read, and an     *)
(* error of the read ends the wait.                                         *)
RunPoll(c) ==
  LET phase == experiments[job[c].name].phase IN
  /\ at[c] = "wait"
  /\ \/ phase = "absent" /\ Works /\ Return(c, "error")
     \/ phase = "Succeeded" /\ Works /\ Return(c, "ok")
     \/ phase = "Failed" /\ Works /\ Return(c, "failed")
     \/ phase \in {"", "Running"} /\ Works /\ Goto(c, "wait")
     \/ Breaks /\ Return(c, "error")
  /\ UNCHANGED <<job, todo, experiments, configMaps, deleted>>

(* Mutant of RunTimeout: the context of the loop has no deadline.           *)
RunTimeoutNever(c) == FALSE /\ UNCHANGED vars

RunTimeout(c) ==
  /\ at[c] = "wait"
  /\ Return(c, "timeout")
  /\ UNCHANGED <<job, todo, experiments, configMaps, deleted, budget>>

-----------------------------------------------------------------------------
(* list and results change nothing.  The scheme of the client knows the     *)
(* kinds of the API group and no ConfigMap, so the Get of results fails.    *)

KnownKinds == {"Experiment", "Topology", "ChaosPhase"}

ReadKind(verb) == IF verb = "results" THEN "ConfigMap" ELSE "Experiment"

ReadOnly(c) ==
  /\ at[c] = "read"
  /\ \/ Works /\ Return(c, IF ReadKind(job[c].verb) \in KnownKinds THEN "ok" ELSE "error")
     \/ Breaks /\ Return(c, "error")
  /\ UNCHANGED <<job, todo, experiments, configMaps, deleted>>

-----------------------------------------------------------------------------
(* The operator and the users.                                              *)

(* The operator takes an Experiment through its phases, at any speed; the   *)
(* terminal ones are final (Progress in Experiment).                        *)
Operate(n) ==
  /\ \/ experiments[n].phase = ""
        /\ experiments' = [experiments EXCEPT ![n].phase = "Running"]
     \/ /\ experiments[n].phase = "Running"
        /\ \E phase \in Terminal : experiments' = [experiments EXCEPT ![n].phase = phase]
  /\ UNCHANGED <<at, job, todo, exit, configMaps, deleted, budget>>

DeleteExperiment(n) ==
  /\ Exists(n)
  /\ experiments' = [experiments EXCEPT ![n] = NoExperiment]
  /\ deleted' = deleted \cup {n}
  /\ UNCHANGED <<at, job, todo, exit, configMaps, budget>>

Command(c) ==
  \/ InitLocally(c) \/ InitConfigMap(c) \/ InitExperiment(c)
  \/ Bundle(c)
  \/ RunLook(c) \/ RunCreate(c) \/ RunPoll(c) \/ RunTimeout(c)
  \/ ReadOnly(c)

Over == (\A c \in Clients : at[c] = "done") /\ UNCHANGED vars

Next ==
  \/ \E c \in Clients : Issue(c) \/ Command(c)
  \/ \E n \in Names : Operate(n) \/ DeleteExperiment(n)
  \/ Over

Spec == Init /\ [][Next]_vars

(* A command that was started is carried on, and the deadline of its        *)
(* context passes.  Nothing is assumed of the operator.                     *)
FairSpec == Spec /\ \A c \in Clients : WF_vars(Command(c)) /\ WF_vars(RunTimeout(c))

-----------------------------------------------------------------------------
(* Properties.                                                              *)

TypeOK ==
  /\ at \in [Clients -> Steps]
  /\ job \in [Clients -> Jobs]
  /\ todo \in [Clients -> SUBSET Roles]
  /\ exit \in [Clients -> Exits]
  /\ experiments \in [Names -> [phase : Phases, by : Clients \cup {Nobody}, spec : BOOLEAN]]
  /\ configMaps \in [Names \X Roles -> Clients \cup {Nobody}]
  /\ deleted \subseteq Names
  /\ budget \in Nat

(* Once init has created its Experiment there is a ConfigMap for every      *)
(* directory that was found, and all of them are of this invocation: not of *)
(* an earlier one that broke off, nor of another that bundled the same      *)
(* names at the same time from other files.                                 *)
InitBundles ==
  \A n \in Names :
    LET c == experiments[n].by IN
    c # Nobody /\ job[c].verb = "init" => \A r \in job[c].roles : configMaps[<<n, r>>] = c

(* "creates ConfigMaps and an Experiment custom resource" (init.go:30-31),  *)
(* the one its dry run prints, with a manifest reference for each of them   *)
(* (init.go:188-225).  What it creates has no spec and refers to nothing.   *)
InitComplete ==
  \A n \in Names :
    LET c == experiments[n].by IN
    c # Nobody /\ job[c].verb = "init" =>
      experiments[n].spec /\ \A r \in job[c].roles : configMaps[<<n, r>>] = c

(* What run --wait reports is said of the Experiment it created and stays   *)
(* true: an Experiment reported as succeeded or failed is its own and is    *)
(* so from then on, however many invocations run the same file, unless      *)
(* somebody deleted it.                                                     *)
ReportTrue ==
  \A c \in Clients :
    LET n == job[c].name IN
    /\ at[c] = "done" /\ job[c].verb = "run" /\ job[c].full /\ exit[c] \in {"ok", "failed"}
    /\ n \notin deleted
    => /\ experiments[n].by = c
       /\ experiments[n].phase = IF exit[c] = "ok" THEN "Succeeded" ELSE "Failed"

(* A wait ends, whether or not the operator ever finishes the experiment or *)
(* the Experiment is deleted under it.                                      *)
WaitEnds == \A c \in Clients : at[c] = "wait" ~> at[c] = "done"

=============================================================================
