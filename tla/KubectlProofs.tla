---------------------------- MODULE KubectlProofs ---------------------------
(* Proofs about Kubectl, for any number of invocations, names and roles.    *)
EXTENDS Kubectl, TLAPS

-----------------------------------------------------------------------------
(* The inductive invariant.                                                 *)

(* Where an invocation is agrees with its command.                          *)
Stages ==
  \A c \in Clients :
    /\ at[c] = "maps" => job[c].verb = "init"
    /\ at[c] \in {"look", "create", "wait"} => job[c].verb = "run"
    /\ at[c] = "bundle" => job[c].verb = "bundle"
    /\ at[c] = "read" => job[c].verb \in {"list", "results"}
    /\ at[c] = "wait" => job[c].full

(* An invocation that has created an Experiment is at or after its wait,    *)
(* and the Experiment exists.                                               *)
Creators ==
  \A n \in Names :
    LET c == experiments[n].by IN
    c # Nobody => at[c] \in {"wait", "done"} /\ experiments[n].phase # "absent"

(* An init on its way has created the ConfigMaps it is through with.        *)
InitUnderWay ==
  \A c \in Clients :
    at[c] = "maps" /\ job[c].full =>
      \A r \in job[c].roles \ todo[c] : configMaps[<<job[c].name, r>>] = c

(* An invocation waits for the Experiment it has created.                   *)
WaitsForOwn ==
  \A c \in Clients :
    at[c] = "wait" /\ job[c].name \notin deleted => experiments[job[c].name].by = c

IInv ==
  /\ TypeOK
  /\ Stages
  /\ Creators
  /\ InitUnderWay
  /\ WaitsForOwn
  /\ InitBundles
  /\ ReportTrue

LEMMA InitIInv == Init => IInv
<1>. SUFFICES ASSUME Init PROVE IInv
  OBVIOUS
<1>. USE KubectlAssumption DEF Init
<1>1. TypeOK
  <2>1. job \in [Clients -> Jobs]
    <3>1. \A n \in Names : [verb |-> "list", name |-> n, roles |-> {}, full |-> FALSE] \in Jobs
      BY DEF Jobs
    <3>. QED
      BY <3>1
  <2>2. experiments \in [Names -> [phase : Phases, by : Clients \cup {Nobody}, spec : BOOLEAN]]
    BY DEF NoExperiment, Phases
  <2>. QED
    BY <2>1, <2>2 DEF TypeOK, Steps, Exits
<1>2. Stages /\ Creators /\ InitUnderWay /\ WaitsForOwn
  BY DEF Stages, Creators, InitUnderWay, WaitsForOwn, NoExperiment
<1>3. InitBundles /\ ReportTrue
  BY DEF InitBundles, ReportTrue, NoExperiment
<1>. QED
  BY <1>1, <1>2, <1>3 DEF IInv

-----------------------------------------------------------------------------
(* What a step may do to the state, whichever command makes it.             *)

(* An invocation moves on and creates nothing.                              *)
LEMMA MovesOn ==
  ASSUME IInv, NEW c \in Clients, NEW step \in Steps, NEW code \in Exits,
         at[c] \notin {"idle", "maps"} \/ step = "done",
         at[c] \notin {"idle", "done"},
         at' = [at EXCEPT ![c] = step], exit' = [exit EXCEPT ![c] = code],
         UNCHANGED <<job, todo, experiments, configMaps, deleted>>, budget' \in Nat,
         step \in {"create", "done"} \/ step = at[c],
         step = "create" => at[c] = "look",
         step = "done" /\ job[c].verb = "run" /\ job[c].full /\ code \in {"ok", "failed"} =>
           /\ at[c] = "wait"
           /\ experiments[job[c].name].phase = IF code = "ok" THEN "Succeeded" ELSE "Failed"
  PROVE  IInv'
<1>1. TypeOK'
  BY DEF IInv, TypeOK
<1>2. \A d \in Clients : at'[d] = (IF d = c THEN step ELSE at[d]) /\ exit'[d] = (IF d = c THEN code ELSE exit[d])
  BY DEF IInv, TypeOK
<1>3. Stages' /\ InitUnderWay' /\ WaitsForOwn'
  BY <1>2 DEF IInv, Stages, InitUnderWay, WaitsForOwn
<1>4. Creators'
  <2>. SUFFICES ASSUME NEW n \in Names, experiments[n].by # Nobody
                PROVE  at'[experiments[n].by] \in {"wait", "done"} /\ experiments[n].phase # "absent"
    BY DEF Creators
  <2>1. experiments[n].by \in Clients /\ at[experiments[n].by] \in {"wait", "done"} /\ experiments[n].phase # "absent"
    BY DEF IInv, TypeOK, Creators
  <2>. QED
    BY <1>2, <2>1
<1>5. InitBundles'
  BY DEF IInv, InitBundles
<1>6. ReportTrue'
  <2>1. job[c].name \in Names
    BY DEF IInv, TypeOK, Jobs
  <2>. QED
    BY <1>2, <2>1 DEF IInv, ReportTrue, WaitsForOwn
<1>. QED
  BY <1>1, <1>3, <1>4, <1>5, <1>6 DEF IInv

(* An invocation creates a ConfigMap that was not there.                    *)
LEMMA MakesConfigMap ==
  ASSUME IInv, NEW c \in Clients, NEW step \in {"maps", "done"}, NEW code \in Exits,
         NEW m \in Names \X Roles, configMaps[m] = Nobody, ConfigMapAdded(c, m),
         at[c] \in {"maps", "bundle"}, step = "maps" => at[c] = "maps",
         at' = [at EXCEPT ![c] = step], exit' = [exit EXCEPT ![c] = code],
         \/ todo' = todo /\ step = "done"
         \/ \E r \in Roles : m = <<job[c].name, r>> /\ todo' = [todo EXCEPT ![c] = @ \ {r}],
         UNCHANGED <<job, experiments, deleted>>, budget' \in Nat
  PROVE  IInv'
<1>. USE KubectlAssumption
<1>1. configMaps' = [configMaps EXCEPT ![m] = c]
  BY DEF ConfigMapAdded
<1>2. \A d \in Clients : at'[d] = (IF d = c THEN step ELSE at[d]) /\ exit'[d] = (IF d = c THEN code ELSE exit[d])
  BY DEF IInv, TypeOK
<1>3. \A k \in Names \X Roles : configMaps'[k] = IF k = m THEN c ELSE configMaps[k]
  BY <1>1 DEF IInv, TypeOK
<1>4. TypeOK'
  <2>1. at' \in [Clients -> Steps] /\ exit' \in [Clients -> Exits] /\ todo' \in [Clients -> SUBSET Roles]
    BY DEF IInv, TypeOK, Steps
  <2>2. configMaps' \in [Names \X Roles -> Clients \cup {Nobody}]
    BY <1>1 DEF IInv, TypeOK
  <2>. QED
    BY <2>1, <2>2 DEF IInv, TypeOK
<1>5. Stages' /\ WaitsForOwn'
  BY <1>2 DEF IInv, Stages, WaitsForOwn
<1>6. Creators'
  <2>. SUFFICES ASSUME NEW n \in Names, experiments[n].by # Nobody
                PROVE  at'[experiments[n].by] \in {"wait", "done"} /\ experiments[n].phase # "absent"
    BY DEF Creators
  <2>1. experiments[n].by \in Clients /\ at[experiments[n].by] \in {"wait", "done"} /\ experiments[n].phase # "absent"
    BY DEF IInv, TypeOK, Creators
  <2>. QED
    BY <1>2, <2>1
<1>7. \A d \in Clients : job[d].name \in Names /\ job[d].roles \subseteq Roles
  BY DEF IInv, TypeOK, Jobs
<1>8. \A k \in Names \X Roles : configMaps[k] # Nobody => configMaps'[k] = configMaps[k]
  BY <1>3
<1>9. InitUnderWay'
  <2>. SUFFICES ASSUME NEW d \in Clients, at'[d] = "maps", job[d].full, NEW r \in job[d].roles \ todo'[d]
                PROVE  configMaps'[<<job[d].name, r>>] = d
    BY DEF InitUnderWay
  <2>1. at[d] = "maps" /\ <<job[d].name, r>> \in Names \X Roles /\ d # Nobody
    BY <1>2, <1>7
  <2>2. CASE r \notin todo[d]
    BY <2>1, <2>2, <1>8 DEF IInv, InitUnderWay
  <2>3. CASE r \in todo[d]
    <3>1. d = c /\ <<job[d].name, r>> = m
      BY <2>3, <1>2 DEF IInv, TypeOK
    <3>. QED
      BY <3>1, <1>3
  <2>. QED
    BY <2>2, <2>3
<1>10. InitBundles'
  <2>. SUFFICES ASSUME NEW n \in Names, experiments[n].by # Nobody, job[experiments[n].by].verb = "init",
                       NEW r \in job[experiments[n].by].roles
                PROVE  configMaps'[<<n, r>>] = experiments[n].by
    BY DEF InitBundles
  <2>1. experiments[n].by \in Clients /\ r \in Roles
    BY <1>7 DEF IInv, TypeOK
  <2>2. configMaps[<<n, r>>] = experiments[n].by
    BY DEF IInv, InitBundles
  <2>. QED
    BY <2>1, <2>2, <1>8
<1>11. ReportTrue'
  <2>1. job[c].verb # "run"
    BY DEF IInv, Stages
  <2>. QED
    BY <1>2, <2>1 DEF IInv, ReportTrue
<1>. QED
  BY <1>4, <1>5, <1>6, <1>9, <1>10, <1>11 DEF IInv

(* The Experiment an invocation creates.                                    *)
Made(c) == [phase |-> "", by |-> c, spec |-> job[c].verb = "run"]

(* An invocation creates an Experiment that was not there.                  *)
LEMMA MakesExperiment ==
  ASSUME IInv, NEW c \in Clients, NEW step \in {"wait", "done"}, NEW code \in Exits,
         ~Exists(job[c].name), ExperimentAdded(c, job[c].name),
         at[c] = "create" \/ (at[c] = "maps" /\ job[c].full /\ todo[c] = {} /\ step = "done"),
         step = "wait" => job[c].full,
         step = "done" /\ job[c].verb = "run" /\ job[c].full => code \notin {"ok", "failed"},
         at' = [at EXCEPT ![c] = step], exit' = [exit EXCEPT ![c] = code],
         UNCHANGED <<job, todo, configMaps, deleted>>, budget' \in Nat
  PROVE  IInv'
<1>. USE KubectlAssumption
<1>. DEFINE x == job[c].name
<1>1. x \in Names /\ experiments[x].phase = "absent" /\ experiments[x].by = Nobody
  <2>1. x \in Names
    BY DEF IInv, TypeOK, Jobs
  <2>2. experiments[x].phase = "absent"
    BY DEF Exists
  <2>. QED
    BY <2>1, <2>2 DEF IInv, Creators
<1>2. experiments' = [experiments EXCEPT ![x] = Made(c)]
  BY DEF ExperimentAdded, Made
<1>3. \A n \in Names : experiments'[n] = IF n = x THEN Made(c) ELSE experiments[n]
  BY <1>2 DEF IInv, TypeOK
<1>4. \A d \in Clients : at'[d] = (IF d = c THEN step ELSE at[d]) /\ exit'[d] = (IF d = c THEN code ELSE exit[d])
  BY DEF IInv, TypeOK
<1>13. experiments'[x].by = c /\ experiments'[x].phase = "" /\ at'[c] = step /\ c # Nobody
  <2>1. experiments'[x] = Made(c)
    <3>. HIDE DEF x
    <3>. QED
      BY <1>1, <1>3
  <2>2. at'[c] = step /\ c # Nobody
    BY <1>4
  <2>. HIDE DEF x
  <2>3. experiments'[x].by = c /\ experiments'[x].phase = ""
    <3>. DEFINE e == Made(c)
    <3>1. e.by = c /\ e.phase = ""
      BY DEF Made
    <3>2. experiments'[x] = e
      BY <2>1
    <3>. HIDE DEF e
    <3>. QED
      BY <3>1, <3>2
  <2>. QED
    BY <2>2, <2>3
<1>14. job' = job /\ todo' = todo /\ configMaps' = configMaps /\ deleted' = deleted
  OBVIOUS
<1>5. TypeOK'
  <2>1. at' \in [Clients -> Steps] /\ exit' \in [Clients -> Exits]
    BY DEF IInv, TypeOK, Steps
  <2>2. Made(c) \in [phase : Phases, by : Clients \cup {Nobody}, spec : BOOLEAN]
    BY DEF Made, Phases
  <2>3. experiments' \in [Names -> [phase : Phases, by : Clients \cup {Nobody}, spec : BOOLEAN]]
    BY <1>2, <2>2 DEF IInv, TypeOK
  <2>. QED
    BY <2>1, <2>3 DEF IInv, TypeOK
<1>6. Stages' /\ InitUnderWay'
  BY <1>4 DEF IInv, Stages, InitUnderWay
<1>7. \A d \in Clients : job[d].name \in Names /\ job[d].roles \subseteq Roles
  BY DEF IInv, TypeOK, Jobs
<1>8. \A n \in Names : experiments[n].by # Nobody => n # x /\ experiments'[n] = experiments[n]
  BY <1>1, <1>3
<1>9. Creators'
  <2>. SUFFICES ASSUME NEW n \in Names, experiments'[n].by # Nobody
                PROVE  at'[experiments'[n].by] \in {"wait", "done"} /\ experiments'[n].phase # "absent"
    BY DEF Creators
  <2>1. CASE n = x
    BY <2>1, <1>13
  <2>2. CASE n # x
    <3>1. experiments'[n] = experiments[n]
      BY <2>2, <1>3
    <3>2. experiments[n].by \in Clients /\ at[experiments[n].by] \in {"wait", "done"} /\ experiments[n].phase # "absent"
      BY <3>1 DEF IInv, TypeOK, Creators
    <3>. QED
      BY <1>4, <3>1, <3>2
  <2>. QED
    BY <2>1, <2>2
<1>10. WaitsForOwn'
  <2>. SUFFICES ASSUME NEW d \in Clients, at'[d] = "wait", job[d].name \notin deleted
                PROVE  experiments'[job[d].name].by = d
    BY DEF WaitsForOwn
  <2>1. CASE d = c
    BY <2>1, <1>13
  <2>2. CASE d # c
    BY <2>2, <1>4, <1>7, <1>8 DEF IInv, WaitsForOwn
  <2>. QED
    BY <2>1, <2>2
<1>11. InitBundles'
  <2>. SUFFICES ASSUME NEW n \in Names, experiments'[n].by # Nobody, job[experiments'[n].by].verb = "init",
                       NEW r \in job[experiments'[n].by].roles
                PROVE  configMaps[<<n, r>>] = experiments'[n].by
    BY DEF InitBundles
  <2>1. CASE n = x
    <3>1. experiments'[n].by = c
      BY <2>1, <1>13
    <3>2. at[c] = "maps" /\ job[c].full /\ todo[c] = {}
      <4>1. at[c] # "create"
        BY <3>1 DEF IInv, Stages
      <4>. QED
        BY <4>1
    <3>. QED
      BY <2>1, <3>1, <3>2 DEF IInv, InitUnderWay
  <2>2. CASE n # x
    <3>1. experiments'[n] = experiments[n]
      BY <2>2, <1>3
    <3>. QED
      BY <3>1 DEF IInv, InitBundles
  <2>. QED
    BY <2>1, <2>2
<1>12. ReportTrue'
  <2>. SUFFICES ASSUME NEW d \in Clients, at'[d] = "done", job[d].verb = "run", job[d].full,
                       exit'[d] \in {"ok", "failed"}, job[d].name \notin deleted
                PROVE  /\ experiments'[job[d].name].by = d
                       /\ experiments'[job[d].name].phase = IF exit'[d] = "ok" THEN "Succeeded" ELSE "Failed"
    BY <1>14 DEF ReportTrue
  <2>1. d # c /\ at[d] = "done" /\ exit'[d] = exit[d]
    BY <1>4
  <2>2. /\ experiments[job[d].name].by = d
        /\ experiments[job[d].name].phase = IF exit[d] = "ok" THEN "Succeeded" ELSE "Failed"
    BY <2>1 DEF IInv, ReportTrue
  <2>. QED
    BY <2>1, <2>2, <1>7, <1>8
<1>. QED
  BY <1>5, <1>6, <1>9, <1>10, <1>11, <1>12 DEF IInv

-----------------------------------------------------------------------------
(* The steps of the commands.                                               *)

LEMMA IssueIInv ==
  ASSUME IInv, NEW c \in Clients, Issue(c)
  PROVE  IInv'
<1>1. PICK j \in Jobs :
        /\ job' = [job EXCEPT ![c] = j]
        /\ todo' = [todo EXCEPT ![c] = IF j.verb = "init" THEN j.roles ELSE {}]
        /\ at' = [at EXCEPT ![c] = CASE j.verb = "init" -> "maps"
                                     [] j.verb = "bundle" -> "bundle"
                                     [] j.verb = "run" -> "look"
                                     [] OTHER -> "read"]
  BY DEF Issue
<1>2. /\ at[c] = "idle"
      /\ exit' = exit /\ experiments' = experiments /\ configMaps' = configMaps
      /\ deleted' = deleted /\ budget' = budget
  BY DEF Issue
<1>3. /\ j.verb \in {"init", "bundle", "run", "list", "results"}
      /\ j.roles \subseteq Roles
  BY DEF Jobs
<1>4. \A d \in Clients : d # c => at'[d] = at[d] /\ job'[d] = job[d] /\ todo'[d] = todo[d]
  BY <1>1 DEF IInv, TypeOK
<1>5. /\ job'[c] = j
      /\ todo'[c] = IF j.verb = "init" THEN j.roles ELSE {}
      /\ at'[c] = CASE j.verb = "init" -> "maps"
                    [] j.verb = "bundle" -> "bundle"
                    [] j.verb = "run" -> "look"
                    [] OTHER -> "read"
  BY <1>1 DEF IInv, TypeOK
<1>6. at'[c] \in {"maps", "bundle", "look", "read"}
  BY <1>3, <1>5
<1>7. TypeOK'
  <2>1. at' \in [Clients -> Steps]
    <3>1. at' = [at EXCEPT ![c] = at'[c]]
      BY <1>1, <1>5
    <3>2. at'[c] \in Steps
      BY <1>6 DEF Steps
    <3>. QED
      BY <3>1, <3>2 DEF IInv, TypeOK
  <2>2. todo' \in [Clients -> SUBSET Roles] /\ job' \in [Clients -> Jobs]
    BY <1>1, <1>3 DEF IInv, TypeOK
  <2>. QED
    BY <2>1, <2>2, <1>2 DEF IInv, TypeOK
<1>8. Stages'
  <2>1. /\ at'[c] = "maps" => j.verb = "init"
        /\ at'[c] = "look" => j.verb = "run"
        /\ at'[c] = "bundle" => j.verb = "bundle"
        /\ at'[c] = "read" => j.verb \in {"list", "results"}
    BY <1>3, <1>5
  <2>. QED
    BY <2>1, <1>4, <1>5, <1>6 DEF IInv, Stages
<1>9. \A n \in Names : experiments[n].by # Nobody => experiments[n].by \in Clients \ {c}
  BY <1>2 DEF IInv, TypeOK, Creators
<1>10. Creators'
  BY <1>2, <1>4, <1>9 DEF IInv, Creators
<1>11. InitUnderWay'
  <2>1. at'[c] = "maps" => job'[c].roles \ todo'[c] = {}
    BY <1>3, <1>5
  <2>. QED
    BY <2>1, <1>2, <1>4 DEF IInv, InitUnderWay
<1>12. WaitsForOwn'
  BY <1>2, <1>4, <1>6 DEF IInv, WaitsForOwn
<1>13. InitBundles'
  BY <1>2, <1>4, <1>9 DEF IInv, InitBundles
<1>14. ReportTrue'
  BY <1>2, <1>4, <1>6 DEF IInv, ReportTrue
<1>. QED
  BY <1>7, <1>8, <1>10, <1>11, <1>12, <1>13, <1>14 DEF IInv

(* The operator and the users change one Experiment.                        *)
LEMMA OperateIInv ==
  ASSUME IInv, NEW n \in Names, Operate(n)
  PROVE  IInv'
<1>1. PICK phase \in {"Running"} \cup Terminal : experiments' = [experiments EXCEPT ![n].phase = phase]
  BY DEF Operate
<1>2. /\ at' = at /\ job' = job /\ todo' = todo /\ exit' = exit /\ configMaps' = configMaps
      /\ deleted' = deleted /\ budget' = budget
      /\ experiments[n].phase \in {"", "Running"}
  BY DEF Operate
<1>3. \A x \in Names : /\ experiments'[x].by = experiments[x].by
                       /\ experiments'[x].phase = IF x = n THEN phase ELSE experiments[x].phase
  BY <1>1 DEF IInv, TypeOK
<1>4. TypeOK'
  <2>1. phase \in Phases
    BY DEF Phases
  <2>2. experiments' \in [Names -> [phase : Phases, by : Clients \cup {Nobody}, spec : BOOLEAN]]
    BY <1>1, <2>1 DEF IInv, TypeOK
  <2>. QED
    BY <1>2, <2>2 DEF IInv, TypeOK
<1>5. Stages' /\ InitUnderWay'
  BY <1>2 DEF IInv, Stages, InitUnderWay
<1>6. \A c \in Clients : job[c].name \in Names
  BY DEF IInv, TypeOK, Jobs
<1>7. WaitsForOwn' /\ InitBundles'
  BY <1>2, <1>3, <1>6 DEF IInv, WaitsForOwn, InitBundles
<1>8. Creators'
  <2>1. phase # "absent"
    BY DEF Terminal
  <2>. QED
    BY <1>2, <1>3, <2>1 DEF IInv, Creators
<1>9. ReportTrue'
  <2>. SUFFICES ASSUME NEW d \in Clients, at[d] = "done", job[d].verb = "run", job[d].full,
                       exit[d] \in {"ok", "failed"}, job[d].name \notin deleted
                PROVE  /\ experiments'[job[d].name].by = d
                       /\ experiments'[job[d].name].phase = IF exit[d] = "ok" THEN "Succeeded" ELSE "Failed"
    BY <1>2 DEF ReportTrue
  <2>1. /\ experiments[job[d].name].by = d
        /\ experiments[job[d].name].phase = IF exit[d] = "ok" THEN "Succeeded" ELSE "Failed"
    BY DEF IInv, ReportTrue
  <2>2. job[d].name # n
    BY <1>2, <2>1
  <2>. QED
    BY <1>3, <1>6, <2>1, <2>2
<1>. QED
  BY <1>4, <1>5, <1>7, <1>8, <1>9 DEF IInv

LEMMA DeleteIInv ==
  ASSUME IInv, NEW n \in Names, DeleteExperiment(n)
  PROVE  IInv'
<1>. USE KubectlAssumption
<1>1. /\ experiments' = [experiments EXCEPT ![n] = NoExperiment] /\ deleted' = deleted \cup {n}
      /\ at' = at /\ job' = job /\ todo' = todo /\ exit' = exit /\ configMaps' = configMaps
      /\ budget' = budget
  BY DEF DeleteExperiment
<1>2. \A x \in Names : experiments'[x] = IF x = n THEN NoExperiment ELSE experiments[x]
  BY <1>1 DEF IInv, TypeOK
<1>3. NoExperiment.by = Nobody
  BY DEF NoExperiment
<1>4. TypeOK'
  <2>1. NoExperiment \in [phase : Phases, by : Clients \cup {Nobody}, spec : BOOLEAN]
    BY DEF NoExperiment, Phases
  <2>2. experiments' \in [Names -> [phase : Phases, by : Clients \cup {Nobody}, spec : BOOLEAN]]
    BY <1>1, <2>1 DEF IInv, TypeOK
  <2>. QED
    BY <1>1, <2>2 DEF IInv, TypeOK
<1>5. Stages' /\ InitUnderWay'
  BY <1>1 DEF IInv, Stages, InitUnderWay
<1>6. \A c \in Clients : job[c].name \in Names
  BY DEF IInv, TypeOK, Jobs
<1>7. \A x \in Names : experiments'[x].by # Nobody => x # n /\ experiments'[x] = experiments[x]
  BY <1>2, <1>3
<1>8. Creators' /\ InitBundles'
  <2>1. Creators'
    BY <1>1, <1>7 DEF IInv, Creators
  <2>2. InitBundles'
    BY <1>1, <1>7 DEF IInv, InitBundles
  <2>. QED
    BY <2>1, <2>2
<1>9. WaitsForOwn' /\ ReportTrue'
  BY <1>1, <1>2, <1>6 DEF IInv, WaitsForOwn, ReportTrue
<1>. QED
  BY <1>4, <1>5, <1>8, <1>9 DEF IInv

(* The commands.                                                            *)
LEMMA CommandIInv ==
  ASSUME IInv, NEW c \in Clients, Command(c)
  PROVE  IInv'
<1>. USE KubectlAssumption
<1>1. /\ budget \in Nat /\ exit[c] \in Exits /\ exit \in [Clients -> Exits] /\ at \in [Clients -> Steps]
      /\ at[c] \in Steps /\ job[c].name \in Names /\ job[c].roles \subseteq Roles /\ todo[c] \subseteq Roles
  BY DEF IInv, TypeOK, Jobs
<1>2. {"ok", "error", "timeout", "failed"} \subseteq Exits /\ {"done", "create", "wait", "maps"} \subseteq Steps
  BY DEF Exits, Steps
<1>3. /\ Works => budget' \in Nat
      /\ Breaks => budget' \in Nat
  <2>1. Works => budget' = budget
    BY DEF Works
  <2>2. Breaks => budget > 0 /\ budget' = budget - 1
    BY DEF Breaks
  <2>. QED
    BY <1>1, <2>1, <2>2
<1>4. ASSUME NEW step, Goto(c, step)
      PROVE  at' = [at EXCEPT ![c] = step] /\ exit' = [exit EXCEPT ![c] = exit[c]]
  BY <1>1, <1>4 DEF Goto
<1>5. ASSUME NEW code, Return(c, code)
      PROVE  at' = [at EXCEPT ![c] = "done"] /\ exit' = [exit EXCEPT ![c] = code]
  BY <1>5 DEF Return
<1>6. at[c] \in {"maps", "bundle", "look", "create", "wait", "read"}
  BY DEF Command, InitLocally, InitConfigMap, InitExperiment, Bundle, RunLook, RunCreate, RunPoll,
     RunTimeout, ReadOnly
<1>7. ASSUME NEW code \in {"ok", "error", "timeout", "failed"}, Return(c, code),
             UNCHANGED <<job, todo, experiments, configMaps, deleted>>, budget' \in Nat,
             job[c].verb = "run" /\ job[c].full /\ code \in {"ok", "failed"} =>
               /\ at[c] = "wait"
               /\ experiments[job[c].name].phase = IF code = "ok" THEN "Succeeded" ELSE "Failed"
      PROVE  IInv'
  <2>1. at' = [at EXCEPT ![c] = "done"] /\ exit' = [exit EXCEPT ![c] = code] /\ code \in Exits
    BY <1>2, <1>5, <1>7
  <2>. QED
    BY <1>2, <1>6, <1>7, <2>1, MovesOn
<1>8. CASE InitLocally(c)
  <2>1. job[c].verb # "run" /\ budget' \in Nat
    <3>1. job[c].verb # "run"
      BY <1>8 DEF InitLocally, IInv, Stages
    <3>2. Works \/ Breaks
      BY <1>8 DEF InitLocally
    <3>. QED
      BY <1>3, <3>1, <3>2
  <2>. QED
    BY <1>7, <1>8, <2>1 DEF InitLocally
<1>9. CASE InitConfigMap(c)
  <2>1. job[c].verb # "run" /\ at[c] = "maps" /\ UNCHANGED <<job, experiments, deleted>>
    BY <1>9 DEF InitConfigMap, IInv, Stages
  <2>2. CASE (Works \/ Breaks) /\ Return(c, "error") /\ UNCHANGED <<configMaps, todo>>
    BY <1>3, <1>7, <2>1, <2>2
  <2>3. ASSUME NEW r \in Roles, configMaps[<<job[c].name, r>>] = Nobody, Works,
               ConfigMapAdded(c, <<job[c].name, r>>), Goto(c, "maps"),
               todo' = [todo EXCEPT ![c] = @ \ {r}]
        PROVE  IInv'
    BY <1>1, <1>2, <1>3, <1>4, <2>1, <2>3, MakesConfigMap
  <2>4. ASSUME NEW r \in Roles, configMaps[<<job[c].name, r>>] = Nobody, Breaks,
               ConfigMapAdded(c, <<job[c].name, r>>), Return(c, "error"), UNCHANGED todo
        PROVE  IInv'
    BY <1>1, <1>2, <1>3, <1>5, <2>1, <2>4, MakesConfigMap
  <2>. QED
    BY <1>9, <2>2, <2>3, <2>4 DEF InitConfigMap
<1>10. ASSUME NEW code \in {"ok", "error"}, ~Exists(job[c].name), ExperimentAdded(c, job[c].name),
              Return(c, code), UNCHANGED <<job, todo, configMaps, deleted>>, budget' \in Nat,
              at[c] = "create" \/ (at[c] = "maps" /\ job[c].full /\ todo[c] = {}),
              code = "ok" => job[c].verb # "run" \/ ~job[c].full
       PROVE  IInv'
  <2>1. at' = [at EXCEPT ![c] = "done"] /\ exit' = [exit EXCEPT ![c] = code] /\ code \in Exits
    BY <1>2, <1>5, <1>10
  <2>. QED
    BY <1>10, <2>1, MakesExperiment
<1>11. CASE InitExperiment(c)
  <2>1. /\ job[c].verb # "run" /\ at[c] = "maps" /\ job[c].full /\ todo[c] = {}
        /\ UNCHANGED <<job, todo, configMaps, deleted>>
    BY <1>11 DEF InitExperiment, CreateExperiment, IInv, Stages
  <2>. QED
    BY <1>3, <1>7, <1>10, <1>11, <2>1 DEF InitExperiment, CreateExperiment
<1>12. CASE Bundle(c)
  <2>1. job[c].verb # "run" /\ at[c] = "bundle" /\ UNCHANGED <<job, todo, experiments, deleted>>
    BY <1>12 DEF Bundle, IInv, Stages
  <2>2. CASE UNCHANGED configMaps /\ (Works \/ Breaks) /\ Return(c, "error")
    BY <1>3, <1>7, <2>1, <2>2
  <2>3. ASSUME NEW r \in job[c].roles, configMaps[<<job[c].name, r>>] = Nobody, Works \/ Breaks,
               ConfigMapAdded(c, <<job[c].name, r>>), NEW code \in {"ok", "error"}, Return(c, code)
        PROVE  IInv'
    <3>1. r \in Roles /\ code \in Exits /\ budget' \in Nat
      BY <1>1, <1>2, <1>3, <2>3
    <3>2. at' = [at EXCEPT ![c] = "done"] /\ exit' = [exit EXCEPT ![c] = code]
      BY <1>5, <2>3
    <3>. QED
      BY <1>1, <2>1, <2>3, <3>1, <3>2, MakesConfigMap
  <2>. QED
    BY <1>12, <2>2, <2>3 DEF Bundle
<1>13. CASE RunLook(c)
  <2>1. at[c] = "look" /\ UNCHANGED <<job, todo, experiments, configMaps, deleted>>
    BY <1>13 DEF RunLook
  <2>2. CASE (Works \/ Breaks) /\ Goto(c, "create")
    BY <1>1, <1>2, <1>3, <1>4, <2>1, <2>2, MovesOn
  <2>3. CASE (Works \/ Breaks) /\ Return(c, "error")
    BY <1>3, <1>7, <2>1, <2>3
  <2>. QED
    BY <1>13, <2>2, <2>3 DEF RunLook
<1>14. CASE RunCreate(c)
  <2>1. at[c] = "create" /\ UNCHANGED <<job, todo, configMaps, deleted>>
    BY <1>14 DEF RunCreate, CreateExperiment
  <2>2. CASE UNCHANGED experiments /\ (Works \/ Breaks) /\ Return(c, "error")
    BY <1>3, <1>7, <2>1, <2>2
  <2>3. CASE ~Exists(job[c].name) /\ Works /\ job[c].full /\ Goto(c, "wait") /\ ExperimentAdded(c, job[c].name)
    BY <1>1, <1>2, <1>3, <1>4, <2>1, <2>3, MakesExperiment
  <2>4. CASE ~Exists(job[c].name) /\ Works /\ ~job[c].full /\ Return(c, "ok") /\ ExperimentAdded(c, job[c].name)
    BY <1>3, <1>10, <2>1, <2>4
  <2>5. CASE ~Exists(job[c].name) /\ Breaks /\ Return(c, "error") /\ ExperimentAdded(c, job[c].name)
    BY <1>3, <1>10, <2>1, <2>5
  <2>. QED
    BY <1>14, <2>2, <2>3, <2>4, <2>5 DEF RunCreate, CreateExperiment
<1>15. CASE RunPoll(c)
  <2>1. at[c] = "wait" /\ UNCHANGED <<job, todo, experiments, configMaps, deleted>>
    BY <1>15 DEF RunPoll
  <2>2. CASE (Works \/ Breaks) /\ Return(c, "error")
    BY <1>3, <1>7, <2>1, <2>2
  <2>3. CASE experiments[job[c].name].phase = "Succeeded" /\ Works /\ Return(c, "ok")
    BY <1>3, <1>7, <2>1, <2>3
  <2>4. CASE experiments[job[c].name].phase = "Failed" /\ Works /\ Return(c, "failed")
    BY <1>3, <1>7, <2>1, <2>4
  <2>5. CASE Works /\ Goto(c, "wait")
    BY <1>1, <1>2, <1>3, <1>4, <2>1, <2>5, MovesOn
  <2>. QED
    BY <1>15, <2>2, <2>3, <2>4, <2>5 DEF RunPoll
<1>16. CASE RunTimeout(c)
  <2>1. budget' \in Nat
    BY <1>1, <1>16 DEF RunTimeout
  <2>. QED
    BY <1>7, <1>16, <2>1 DEF RunTimeout
<1>17. CASE ReadOnly(c)
  <2>1. job[c].verb # "run" /\ UNCHANGED <<job, todo, experiments, configMaps, deleted>>
    BY <1>17 DEF ReadOnly, IInv, Stages
  <2>2. (Works \/ Breaks) /\ (Return(c, "ok") \/ Return(c, "error"))
    BY <1>17 DEF ReadOnly
  <2>. QED
    BY <1>3, <1>7, <2>1, <2>2
<1>. QED
  BY <1>8, <1>9, <1>11, <1>12, <1>13, <1>14, <1>15, <1>16, <1>17 DEF Command

LEMMA NextIInv == IInv /\ [Next]_vars => IInv'
<1>. SUFFICES ASSUME IInv, [Next]_vars PROVE IInv'
  OBVIOUS
<1>1. ASSUME NEW c \in Clients, Issue(c) PROVE IInv'
  BY <1>1, IssueIInv
<1>2. ASSUME NEW c \in Clients, Command(c) PROVE IInv'
  BY <1>2, CommandIInv
<1>3. ASSUME NEW n \in Names, Operate(n) PROVE IInv'
  BY <1>3, OperateIInv
<1>4. ASSUME NEW n \in Names, DeleteExperiment(n) PROVE IInv'
  BY <1>4, DeleteIInv
<1>5. CASE UNCHANGED vars
  BY <1>5 DEF vars, IInv, TypeOK, Stages, Creators, InitUnderWay, WaitsForOwn, InitBundles, ReportTrue
<1>. QED
  BY <1>1, <1>2, <1>3, <1>4, <1>5 DEF Next, Over

LEMMA InductiveInvariant == Spec => []IInv
  BY InitIInv, NextIInv, PTL DEF Spec

-----------------------------------------------------------------------------
(* Results.                                                                 *)

(* The type invariant: an invocation ends with one of the results that      *)
(* runRun and the other commands return.                                    *)
THEOREM TypeCorrect == Spec => []TypeOK
<1>1. IInv => TypeOK
  BY DEF IInv
<1>. QED
  BY InductiveInvariant, <1>1, PTL

(* runInit creates the Experiment after all its ConfigMaps, and no other    *)
(* invocation takes part in them.  That the Experiment refers to them is    *)
(* not said, for it does not (InitComplete in Kubectl).                     *)
THEOREM InitConfigMapsAreOwn == Spec => []InitBundles
<1>1. IInv => InitBundles
  BY DEF IInv
<1>. QED
  BY InductiveInvariant, <1>1, PTL

(* What runRun reports at the end of its wait is true of the Experiment it  *)
(* created, and stays true.                                                 *)
THEOREM ReportsAreTrue == Spec => []ReportTrue
<1>1. IInv => ReportTrue
  BY DEF IInv
<1>. QED
  BY InductiveInvariant, <1>1, PTL

=============================================================================
