---------------------------- MODULE NifiOperator ----------------------------
(***************************************************************************)
(* The reconcile loop of the operator for one NifiCluster:                 *)
(*   internal/controller/nificluster_controller.go   Reconcile             *)
(*   internal/controller/cluster/cluster.go          RegisterResources     *)
(*   internal/controller/node/role.go                RegisterResources     *)
(* together with the parts of its environment it depends on: the API       *)
(* server's objects, the watch that feeds the work queue, the garbage      *)
(* collector, the Job controller, the users who edit things, and restarts. *)
(*                                                                         *)
(* One reconciliation is a sequence of steps, because each read or write   *)
(* of the API server can interleave with the environment:                  *)
(*   StartReconcile            reads the NifiCluster from the cache,       *)
(*   RegisterRoleGroup         once per role group, in any order (the      *)
(*                             loop ranges over a Go map), reads the       *)
(*                             AuthenticationClass,                        *)
(*   FinishRegistration        reads it again for the reporting task,      *)
(*   one step per resource     builds it (the ConfigMap reads the class    *)
(*                             once more) and creates or updates it,       *)
(*   EndReconcile.                                                         *)
(***************************************************************************)
EXTENDS ReportingTask

CONSTANTS
    Specs,         \* the specs a user may write
    InitClasses,   \* the initial AuthenticationClass objects
    InitGrants,    \* what the operator's ClusterRole may grant at first
    NewProviders,  \* the providers an AuthenticationClass may change to
    Disturbances,  \* which disturbances may happen (see Disturb)
    MaxDisturb     \* how many of them, in total

(***************************************************************************)
(* Resources of the API server that permissions are about.  MarkerGrants   *)
(* is what the markers of NifiClusterReconciler ask for (and the role that *)
(* is generated from them grants), ChartGrants what the ClusterRole of the *)
(* Helm chart grants.                                                      *)
(***************************************************************************)
ApiResources == {"ServiceAccount", "ConfigMap", "Secret", "Service", "StatefulSet",
                 "Job", "Lease", "Role", "RoleBinding"}
MarkerGrants == ApiResources
ChartGrants == {"ServiceAccount", "ConfigMap", "Secret", "Service", "StatefulSet"}

ASSUME OperatorAssumption ==
    /\ Specs \subseteq NifiClusterSpec
    /\ InitClasses \subseteq [AuthClasses -> Providers]
    /\ InitGrants \subseteq SUBSET ApiResources
    /\ NewProviders \subseteq Providers
    /\ MaxDisturb \in Nat

VARIABLES
    cr,         \* the NifiCluster on the API server, or None
    seen,       \* the NifiCluster in the informer's cache
    queued,     \* a request is in the work queue or waits for its backoff
    pc,         \* "idle", "register" or "run"
    inst,       \* the NifiCluster this reconciliation works on
    todo,       \* role groups not registered yet
    resources,  \* registered resource reconcilers, in the order they run
    objects,    \* the objects on the API server
    classes,    \* the AuthenticationClass objects on the API server
    granted,    \* the resources the operator's ClusterRole grants
    uid,        \* uid of the latest NifiCluster
    budget      \* disturbances left

local == <<pc, inst, todo, resources>>
vars == <<cr, seen, queued, local, objects, classes, granted, uid, budget>>

-----------------------------------------------------------------------------
(***************************************************************************)
(* Objects.  A key is a kind and a name; an object has the uid of its      *)
(* owner (0 when a user made it) and a body.                               *)
(***************************************************************************)

\* No object.
None == [absent |-> TRUE]

RbacKinds == {"ServiceAccount", "Role", "RoleBinding"}
GroupKinds == {"ConfigMap", "StatefulSet", "Service"}
SecretKinds == {"AdminSecret", "SensitiveKey"}

Key == (RbacKinds \cup SecretKinds \cup {"ReportingService"}) \X {"cluster"}
         \cup GroupKinds \X RoleGroups
         \cup {"Job"} \X V1Versions

KeyOf(kind) == <<kind, "cluster">>
SensitiveKey == KeyOf("SensitiveKey")
AdminSecret == KeyOf("AdminSecret")

\* A NifiCluster.
Instance == [uid: Nat, spec: Specs]

\* The authenticators that can be captured.
ClassMaps == [AuthClasses -> Providers]
Views == {GetAuthentication(s.authentication, cls) : s \in Specs, cls \in ClassMaps}
           \cup {NoAuthentication}

\* The git-sync resources that can be captured.
NoGitSync == GitSyncResources(<< >>, << >>, << >>)
GitViews == {NoGitSync} \cup UNION {NewGitSyncResources(s.gitSync) : s \in Specs}

\* A registered reconciler: the object it manages, and the authenticator and the
\* git-sync resources that were captured when it was constructed.
Entry == [key: Key, auth: Views, git: GitViews]

\* The name of the pods' Role, created and bound by registerRBACResources.
NifiRoleName == "nifi"

\* What the builder of entry e produces for a spec and the current classes.
Body(e, spec, cls) ==
    LET kind == e.key[1]
    IN  CASE kind = "ServiceAccount" -> NifiServiceAccountName
          [] kind = "Role" -> {"leases", "configmaps"}
          [] kind = "RoleBinding" -> [subject |-> NifiServiceAccountName,
                                      role    |-> NifiRoleName]
          [] kind = "ConfigMap" ->
                NifiConfigMap(spec, e.auth, GetAuthentication(spec.authentication, cls))
          [] kind = "StatefulSet" -> NifiStatefulSet(spec, e.key[2], e.auth, e.git)
          [] kind = "Service" -> NodeService
          [] kind = "ReportingService" -> ReportingTaskService(spec)
          [] kind = "Job" -> ReportingTaskJob(spec, e.auth)

\* The builder returns an error or panics.
BuildFails(e, spec, cls) ==
    LET kind == e.key[1]
    IN  \/ kind = "ConfigMap"
           /\ ConfigMapBuildFails(GetAuthentication(spec.authentication, cls))
        \/ kind = "StatefulSet" /\ StatefulSetBuildFails(e.auth)
        \/ kind = "Job" /\ JobBuildFails(e.auth)

\* Variant with a defect: the owner reference is not set.
DesiredObjectUnowned(e, i, cls) == [owner |-> 0, body |-> Body(e, i.spec, cls)]

\* Variant with a defect: an object that exists loses its owner reference.
DesiredObjectOwnedOnce(e, i, cls) ==
    [owner |-> IF objects[e.key] = None THEN i.uid ELSE 0, body |-> Body(e, i.spec, cls)]

\* The object with its owner reference (OwnerReference: instance).
DesiredObject(e, i, cls) == [owner |-> i.uid, body |-> Body(e, i.spec, cls)]

-----------------------------------------------------------------------------
(***************************************************************************)
(* Registration lists                                                      *)
(***************************************************************************)
Plain(kind, name) == [key |-> <<kind, name>>, auth |-> NoAuthentication, git |-> NoGitSync]
WithAuth(kind, name, auth) == [key |-> <<kind, name>>, auth |-> auth, git |-> NoGitSync]
WithGit(kind, name, auth, git) == [key |-> <<kind, name>>, auth |-> auth, git |-> git]

registerRBACResources ==
    << Plain("ServiceAccount", "cluster"), Plain("Role", "cluster"),
       Plain("RoleBinding", "cluster") >>

\* The admin secret is registered for LDAP only.
AdminSecretResources(auth) ==
    IF auth.type = "ldap" THEN << Plain("AdminSecret", "cluster") >> ELSE << >>

\* Variant with a defect: the StatefulSet is registered first.
RoleGroupResourcesSwapped(g, auth, git) ==
    << WithGit("StatefulSet", g, auth, git), WithAuth("ConfigMap", g, auth),
       Plain("Service", g) >> \o AdminSecretResources(auth)

RoleGroupResources(g, auth, git) ==
    << WithAuth("ConfigMap", g, auth), WithGit("StatefulSet", g, auth, git),
       Plain("Service", g) >> \o AdminSecretResources(auth)

\* The loop over auth.Authenticators dereferences a nil Authentication.
RoleGroupRegistrationFails(auth) == Unusable(auth) \/ auth.type = "none"

sensitiveKeyReconciler == << Plain("SensitiveKey", "cluster") >>

ReportingTaskResources(spec, auth) ==
    IF WantsReportingTask(spec)
    THEN << Plain("ReportingService", "cluster"), WithAuth("Job", spec.version, auth) >>
    ELSE << >>

ReportingTaskRegistrationFails(spec, auth) ==
    WantsReportingTask(spec) /\ (Unusable(auth) \/ spec.groups = {})
-----------------------------------------------------------------------------
(***************************************************************************)
(* Reconcile                                                               *)
(***************************************************************************)

EndCall == /\ pc' = "idle"
           /\ inst' = None
           /\ todo' = {}
           /\ resources' = << >>

\* Variant with a defect: the error is logged and dropped.
ErrorDropped == EndCall /\ UNCHANGED queued

\* An error, or a panic recovered by the controller: the request is put back
\* with a backoff.
RequeueWithError == EndCall /\ queued' = TRUE

IgnoreDeleted ==
    /\ pc = "idle" /\ queued /\ seen = None
    /\ queued' = FALSE
    /\ UNCHANGED <<cr, seen, local, objects, classes, granted, uid, budget>>

StartReconcile ==
    /\ pc = "idle" /\ queued /\ seen # None
    /\ queued' = FALSE
    /\ pc' = "register"
    /\ inst' = seen
    /\ todo' = seen.spec.groups
    /\ resources' = registerRBACResources
    /\ UNCHANGED <<cr, seen, objects, classes, granted, uid, budget>>

CurrentAuth == GetAuthentication(inst.spec.authentication, classes)

RegisterRoleGroup(g) ==
    /\ pc = "register" /\ g \in todo
    /\ ~RoleGroupRegistrationFails(CurrentAuth)
    /\ todo' = todo \ {g}
    /\ \E git \in NewGitSyncResources(inst.spec.gitSync) :
            resources' = resources \o RoleGroupResources(g, CurrentAuth, git)
    /\ UNCHANGED <<cr, seen, queued, pc, inst, objects, classes, granted, uid, budget>>

RegisterRoleGroupError ==
    /\ pc = "register" /\ todo # {}
    /\ RoleGroupRegistrationFails(CurrentAuth)
    /\ RequeueWithError
    /\ UNCHANGED <<cr, seen, objects, classes, granted, uid, budget>>

\* The sensitive key and the reporting task, then Run, which returns at once
\* when reconciliation is paused.
FinishRegistration ==
    /\ pc = "register" /\ todo = {}
    /\ ~ReportingTaskRegistrationFails(inst.spec, CurrentAuth)
    /\ IF inst.spec.paused
       THEN EndCall
       ELSE /\ pc' = "run"
            /\ resources' = resources \o sensitiveKeyReconciler
                              \o ReportingTaskResources(inst.spec, CurrentAuth)
            /\ UNCHANGED <<inst, todo>>
    /\ UNCHANGED <<cr, seen, queued, objects, classes, granted, uid, budget>>

FinishRegistrationError ==
    /\ pc = "register" /\ todo = {}
    /\ ReportingTaskRegistrationFails(inst.spec, CurrentAuth)
    /\ RequeueWithError
    /\ UNCHANGED <<cr, seen, objects, classes, granted, uid, budget>>

-----------------------------------------------------------------------------
(***************************************************************************)
(* Run: the registered reconcilers in order.                               *)
(***************************************************************************)
Current == Head(resources)
Stored  == objects[Current.key]
IsSecret == Current.key[1] \in SecretKinds

\* A generated secret holds a random key, which differs from a stored one.
RandomKey == IF Stored # None /\ Stored.body = "key" THEN "other key" ELSE "key"

Desired == IF IsSecret THEN [owner |-> inst.uid, body |-> RandomKey]
                       ELSE DesiredObject(Current, inst, classes)

\* The ClusterRole lets the operator read and write objects of a kind.  A Role may
\* only grant what its author holds.
Permitted(kind) ==
    CASE kind \in SecretKinds -> "Secret" \in granted
      [] kind = "ReportingService" -> "Service" \in granted
      [] kind = "Role" -> {"Role", "Lease", "ConfigMap"} \subseteq granted
      [] OTHER -> kind \in granted

Running == pc = "run" /\ resources # << >> /\ Permitted(Current.key[1])

\* The API server refuses the call.
Forbidden ==
    /\ pc = "run" /\ resources # << >>
    /\ ~Permitted(Current.key[1])
    /\ RequeueWithError
    /\ UNCHANGED <<cr, seen, objects, classes, granted, uid, budget>>

\* The stored admin secret lacks the item of the admin user.
AdminItemMissing == Current.key = AdminSecret /\ Stored.body = "no item"

NextResource == /\ resources' = Tail(resources)
                /\ UNCHANGED <<queued, pc, inst, todo>>

\* Reconcile of the admin secret and of the sensitive key: an existing secret
\* is left alone, but an admin secret without the admin's item is an error.
SkipExistingSecret ==
    /\ Running /\ IsSecret /\ Stored # None
    /\ ~AdminItemMissing
    /\ NextResource
    /\ UNCHANGED <<cr, seen, objects, classes, granted, uid, budget>>

\* Variant with a defect: a secret that exists is an error.
AdminSecretExistsError ==
    /\ Running /\ Current.key = AdminSecret /\ Stored # None
    /\ RequeueWithError
    /\ UNCHANGED <<cr, seen, objects, classes, granted, uid, budget>>

AdminItemError ==
    /\ Running /\ Current.key = AdminSecret /\ Stored # None
    /\ AdminItemMissing
    /\ RequeueWithError
    /\ UNCHANGED <<cr, seen, objects, classes, granted, uid, budget>>

\* The key is missing and must not be generated.
MissingKeyError ==
    /\ Running /\ Current.key = SensitiveKey
    /\ Stored = None /\ ~inst.spec.autoGenerate
    /\ RequeueWithError
    /\ UNCHANGED <<cr, seen, objects, classes, granted, uid, budget>>

BuildError ==
    /\ Running /\ BuildFails(Current, inst.spec, classes)
    /\ RequeueWithError
    /\ UNCHANGED <<cr, seen, objects, classes, granted, uid, budget>>

\* Variant with a defect: an object that exists is taken to be up to date.
UpToDateIfPresent ==
    /\ Running /\ ~IsSecret /\ Stored # None
    /\ NextResource
    /\ UNCHANGED <<cr, seen, objects, classes, granted, uid, budget>>

UpToDate ==
    /\ Running /\ ~IsSecret
    /\ ~BuildFails(Current, inst.spec, classes)
    /\ Stored = Desired
    /\ NextResource
    /\ UNCHANGED <<cr, seen, objects, classes, granted, uid, budget>>

\* The template of a Job is immutable: the API server rejects the update.
JobUpdateRejected ==
    /\ Running /\ Current.key[1] = "Job"
    /\ ~BuildFails(Current, inst.spec, classes)
    /\ Stored # None /\ Stored.body # Desired.body
    /\ RequeueWithError
    /\ UNCHANGED <<cr, seen, objects, classes, granted, uid, budget>>

\* Variant with a defect: a secret is written like any other object.
MayWriteAnything ==
    /\ Stored # Desired
    /\ Current.key[1] = "Job" /\ Stored # None => Stored.body = Desired.body

\* The builder's object may be written: it is absent, or differs and can change.
MayWrite ==
    IF IsSecret
    THEN Stored = None /\ (Current.key = SensitiveKey => inst.spec.autoGenerate)
    ELSE /\ Stored # Desired
         /\ Current.key[1] = "Job" /\ Stored # None => Stored.body = Desired.body

\* CreateOrUpdate writes the object.  The library then goes on with the next
\* resource or ends the call and asks for a requeue: both are allowed.
WriteResource ==
    /\ Running
    /\ ~BuildFails(Current, inst.spec, classes)
    /\ MayWrite
    /\ objects' = [objects EXCEPT ![Current.key] = Desired]
    /\ \/ NextResource
       \/ EndCall /\ queued' = TRUE
    /\ UNCHANGED <<cr, seen, classes, granted, uid, budget>>

\* All resources are reconciled.  The readiness check that follows writes
\* nothing; it may ask for a requeue.
EndReconcile ==
    /\ pc = "run" /\ resources = << >>
    /\ EndCall
    /\ queued' \in {queued, TRUE}
    /\ UNCHANGED <<cr, seen, objects, classes, granted, uid, budget>>

Reconcile ==
    \/ IgnoreDeleted
    \/ StartReconcile
    \/ \E g \in RoleGroups : RegisterRoleGroup(g)
    \/ RegisterRoleGroupError
    \/ FinishRegistration
    \/ FinishRegistrationError
    \/ Forbidden
    \/ SkipExistingSecret
    \/ AdminItemError
    \/ MissingKeyError
    \/ BuildError
    \/ UpToDate
    \/ JobUpdateRejected
    \/ WriteResource
    \/ EndReconcile

-----------------------------------------------------------------------------
(***************************************************************************)
(* The machinery around the controller                                     *)
(***************************************************************************)

\* The watch on NifiCluster (the only one SetupWithManager asks for) brings the
\* cache up to date and enqueues a request.
WatchEvent ==
    /\ seen # cr
    /\ seen' = cr
    /\ queued' = TRUE
    /\ UNCHANGED <<cr, local, objects, classes, granted, uid, budget>>

\* Variant with a defect: the periodic resync is switched off.
ResyncOff == FALSE

\* The informer's periodic resync enqueues what the cache holds.
Resync ==
    /\ seen # None /\ ~queued
    /\ queued' = TRUE
    /\ UNCHANGED <<cr, seen, local, objects, classes, granted, uid, budget>>

\* The garbage collector removes an object whose owner is gone.
GarbageCollect(k) ==
    /\ objects[k] # None /\ objects[k].owner # 0
    /\ ~(cr # None /\ cr.uid = objects[k].owner)
    /\ objects' = [objects EXCEPT ![k] = None]
    /\ UNCHANGED <<cr, seen, queued, local, classes, granted, uid, budget>>

\* A Job ends (its retries are limited) and is removed after its TTL.
JobExpires(v) ==
    /\ objects[<<"Job", v>>] # None
    /\ objects' = [objects EXCEPT ![<<"Job", v>>] = None]
    /\ UNCHANGED <<cr, seen, queued, local, classes, granted, uid, budget>>

-----------------------------------------------------------------------------
(***************************************************************************)
(* Disturbances, each of a named kind and limited by the budget            *)
(***************************************************************************)
Disturb(kind) == /\ kind \in Disturbances
                 /\ budget > 0
                 /\ budget' = budget - 1

EditSpec(s) ==
    /\ Disturb("edit")
    /\ cr # None /\ cr.spec # s
    /\ cr' = [cr EXCEPT !.spec = s]
    /\ UNCHANGED <<seen, queued, local, objects, classes, granted, uid>>

DeleteCluster ==
    /\ Disturb("delete")
    /\ cr # None
    /\ cr' = None
    /\ UNCHANGED <<seen, queued, local, objects, classes, granted, uid>>

CreateCluster(s) ==
    /\ Disturb("delete")
    /\ cr = None
    /\ uid' = uid + 1
    /\ cr' = [uid |-> uid + 1, spec |-> s]
    /\ UNCHANGED <<seen, queued, local, objects, classes, granted>>

EditClass(c, p) ==
    /\ Disturb("class")
    /\ classes[c] # p
    /\ classes' = [classes EXCEPT ![c] = p]
    /\ UNCHANGED <<cr, seen, queued, local, objects, granted, uid>>

\* An administrator updates the operator's ClusterRole to what its markers ask for.
UpdateGrants ==
    /\ Disturb("grant")
    /\ granted # MarkerGrants
    /\ granted' = MarkerGrants
    /\ UNCHANGED <<cr, seen, queued, local, objects, classes, uid>>

\* Someone else deletes an object the operator wrote.
DeleteObject(k) ==
    /\ Disturb("drift")
    /\ objects[k] # None
    /\ objects' = [objects EXCEPT ![k] = None]
    /\ UNCHANGED <<cr, seen, queued, local, classes, granted, uid>>

\* A user provides the sensitive key.
ProvideKey ==
    /\ Disturb("key")
    /\ objects[SensitiveKey] = None
    /\ objects' = [objects EXCEPT ![SensitiveKey] = [owner |-> 0, body |-> "key"]]
    /\ UNCHANGED <<cr, seen, queued, local, classes, granted, uid>>

\* A user makes an admin secret without the item of the admin user.
ProvideAdminSecret ==
    /\ Disturb("admin")
    /\ objects[AdminSecret] = None
    /\ objects' = [objects EXCEPT ![AdminSecret] = [owner |-> 0, body |-> "no item"]]
    /\ UNCHANGED <<cr, seen, queued, local, classes, granted, uid>>

\* A call to the API server fails.
ApiError ==
    /\ Disturb("api")
    /\ pc # "idle"
    /\ RequeueWithError
    /\ UNCHANGED <<cr, seen, objects, classes, granted, uid>>

\* The operator restarts: the queue is lost, the cache lists the NifiClusters.
Restart ==
    /\ Disturb("restart")
    /\ EndCall
    /\ seen' = cr
    /\ queued' = (cr # None)
    /\ UNCHANGED <<cr, objects, classes, granted, uid>>

Environment ==
    \/ \E s \in Specs : EditSpec(s) \/ CreateCluster(s)
    \/ DeleteCluster
    \/ \E c \in AuthClasses, p \in NewProviders : EditClass(c, p)
    \/ UpdateGrants
    \/ \E k \in Key : DeleteObject(k)
    \/ ProvideKey
    \/ ProvideAdminSecret
    \/ ApiError
    \/ Restart

Init ==
    /\ cr \in [uid: {1}, spec: Specs]
    /\ seen = None
    /\ queued = FALSE
    /\ pc = "idle"
    /\ inst = None
    /\ todo = {}
    /\ resources = << >>
    /\ objects = [k \in Key |-> None]
    /\ classes \in InitClasses
    /\ granted \in InitGrants
    /\ uid = 1
    /\ budget = MaxDisturb

Next ==
    \/ Reconcile
    \/ WatchEvent
    \/ Resync
    \/ \E k \in Key : GarbageCollect(k)
    \/ \E v \in V1Versions : JobExpires(v)
    \/ Environment

Spec == Init /\ [][Next]_vars

(***************************************************************************)
(* Fairness: the controller's worker, its informer and the controllers of  *)
(* the cluster keep running; users and failures are never forced.          *)
(***************************************************************************)
Fairness ==
    /\ WF_vars(Reconcile)
    /\ WF_vars(WatchEvent)
    /\ WF_vars(Resync)
    /\ WF_vars(\E k \in Key : GarbageCollect(k))
    /\ WF_vars(\E v \in V1Versions : JobExpires(v))

FairSpec == Spec /\ Fairness

-----------------------------------------------------------------------------
(***************************************************************************)
(* What the operator should achieve                                        *)
(***************************************************************************)
EntriesIn(seq) == {seq[i] : i \in 1..Len(seq)}

\* The entries a reconciliation of spec may register when every read of the
\* AuthenticationClass returns auth.
WantedEntries(spec, auth) ==
    EntriesIn(registerRBACResources)
      \cup EntriesIn(sensitiveKeyReconciler)
      \cup EntriesIn(ReportingTaskResources(spec, auth))
      \cup (UNION {EntriesIn(RoleGroupResources(g, auth, git)) :
                     g \in spec.groups, git \in NewGitSyncResources(spec.gitSync)})

\* A Job may have run and expired; a secret with its item counts as it is.
Matches(e) ==
    CASE e.key[1] \in SecretKinds ->
            objects[e.key] # None /\ objects[e.key].body # "no item"
      [] e.key[1] = "Job" -> objects[e.key] \in {None, DesiredObject(e, cr, classes)}
      [] OTHER -> objects[e.key] = DesiredObject(e, cr, classes)

ClusterAuth == GetAuthentication(cr.spec.authentication, classes)

\* Every object matches one of its entries (which differ in the order of the
\* options of git-sync).
Converged ==
    LET wanted == WantedEntries(cr.spec, ClusterAuth)
    IN  \A e \in wanted : \E f \in wanted : f.key = e.key /\ Matches(f)

\* The controller has nothing left to do: no request is queued or running and
\* its cache holds the latest NifiCluster.
Quiescent == pc = "idle" /\ ~queued /\ seen = cr /\ cr # None /\ ~cr.spec.paused

-----------------------------------------------------------------------------
(***************************************************************************)
(* Properties                                                              *)
(***************************************************************************)

\* Type correctness.  Every stored object carries the owner reference of a
\* NifiCluster that exists or existed (only a secret may come from a user); a call
\* holds a NifiCluster exactly while it runs; the registered entries hold an
\* authenticator that NewAuthentication can return.
TypeOK ==
    /\ cr \in Instance \cup {None}
    /\ seen \in Instance \cup {None}
    /\ inst \in Instance \cup {None}
    /\ \A i \in {cr, seen, inst} : i # None => i.uid \in 1..uid
    /\ queued \in BOOLEAN
    /\ pc \in {"idle", "register", "run"}
    /\ (pc = "idle") <=> (inst = None)
    /\ todo \in SUBSET RoleGroups
    /\ resources \in Seq(Entry)
    /\ classes \in ClassMaps
    /\ granted \subseteq ApiResources
    /\ uid \in Nat
    /\ budget \in Nat
    /\ DOMAIN objects = Key
    /\ \A k \in Key : objects[k] # None =>
            objects[k].owner \in (IF k[1] \in SecretKinds THEN 0..uid ELSE 1..uid)

\* When the operator has come to rest, the cluster is what its spec asks for.
\* Every edit, restart, failed call and early end of a run must leave a queued
\* request behind (Reconcile returns the error or a requeue), whatever the order
\* in which the role groups were registered.
QuiescentConverged == Quiescent => Converged

\* A StatefulSet never exists before what its pods need to start and to elect a
\* leader: its ConfigMap, and the ServiceAccount it names, bound to a Role for
\* leases and ConfigMaps (NifiServiceAccountName: "Must match the name created
\* by cluster.registerRBACResources()").
PodsHavePrerequisites ==
    \A g \in RoleGroups :
        LET sts == objects[<<"StatefulSet", g>>]
            sa  == objects[KeyOf("ServiceAccount")]
            rb  == objects[KeyOf("RoleBinding")]
            rl  == objects[KeyOf("Role")]
        IN  sts # None =>
                /\ objects[<<"ConfigMap", g>>] # None
                /\ sa # None /\ sa.body = sts.body.serviceAccount
                /\ rl # None /\ {"leases", "configmaps"} \subseteq rl.body
                /\ rb # None /\ rb.body.subject = sa.body /\ rb.body.role = NifiRoleName

\* The ConfigMap and the StatefulSet of every role group fit together: every
\* variable the templates read is in the prepare container's environment or
\* exported by its script, gomplate finds and parses every file it renders (except
\* with LDAP, whose provider has actions gomplate cannot parse), every mount of
\* NiFi and of the git-sync containers has its volume, the cluster state provider
\* that nifi.properties names is defined in state-management.xml and the probes use
\* a port NiFi listens on.  (NifiPods looks at the TLS key stores, which no volume
\* has.)
PodsFit ==
    \A g \in cr.spec.groups :
        LET cm  == objects[<<"ConfigMap", g>>].body
            sts == objects[<<"StatefulSet", g>>].body
        IN  /\ TemplateVariables(cm) \subseteq sts.env \cup sts.prepare.exports
            /\ ClusterAuth.type # "ldap" => Renders(cm, sts.prepare)
            /\ {m[1] : m \in sts.mounts} \subseteq {v[1] : v \in sts.volumes}
            /\ sts.git.mounts \subseteq sts.git.volumes
            /\ \A i \in 1..Len(cr.spec.gitSync) :
                    {sts.git.inits[i].mount, sts.git.sidecars[i].mount}
                        \subseteq sts.git.volumes
            /\ cm.properties.stateProvider = cm.stateManagement.id
            /\ sts.probe \in cm.properties.web

\* The operator comes to rest only when its ConfigMaps and StatefulSets fit together.
PodsCanStart == Quiescent => PodsFit

\* The reporting-task Service leads to a NiFi pod that is meant to run
\* and to a port its web server listens on.  A Job that exists uses that port and
\* finds the files it reads ("Add password argument only when authentication is
\* configured and provides credentials", buildContainer), except with LDAP, where
\* nothing is mounted for the password file.
\* With TLS, nifi.web.proxy.host allows it ("NiFi validates the Host header against
\* nifi.web.proxy.host, so we must allow that FQDN here", getNifiProperties).
ReportingTaskFits ==
    WantsReportingTask(cr.spec) =>
        LET svc == objects[KeyOf("ReportingService")].body
            sts == objects[<<"StatefulSet", svc.selector>>]
            cm  == objects[<<"ConfigMap", svc.selector>>].body
            job == objects[<<"Job", cr.spec.version>>]
        IN  /\ sts # None
            /\ (\E g \in cr.spec.groups : objects[<<"StatefulSet", g>>].body.replicas > 0)
                 => sts.body.replicas > 0
            /\ svc.port \in cm.properties.web
            /\ EnableTls(cr.spec) => svc.port \in cm.properties.proxyHost
            /\ job # None =>
                 /\ job.body.port = svc.port
                 /\ ClusterAuth.type # "ldap" =>
                        job.body.reads \subseteq {m[2] : m \in job.body.mounts}

\* The operator comes to rest only when its reporting task can reach NiFi.
ReportingTaskReachesNifi == Quiescent => ReportingTaskFits

\* The operator can make progress with the current spec and classes: every
\* registration and build succeeds and the sensitive key is there or generated.
Reconcilable ==
    /\ cr # None /\ ~cr.spec.paused
    /\ cr.spec.groups # {} => ~RoleGroupRegistrationFails(ClusterAuth)
    /\ ~ReportingTaskRegistrationFails(cr.spec, ClusterAuth)
    /\ \A e \in WantedEntries(cr.spec, ClusterAuth) :
            ~BuildFails(e, cr.spec, classes) /\ Permitted(e.key[1])
    /\ cr.spec.autoGenerate \/ objects[SensitiveKey] # None
    /\ ClusterAuth.type = "ldap" /\ objects[AdminSecret] # None
         => objects[AdminSecret].body # "no item"

\* Once disturbances stop, a cluster the operator can reconcile becomes and stays
\* what its spec asks for: deleted objects come back, a changed
\* AuthenticationClass reaches every object, a torn read of it is repaired, a key
\* secret collected with an earlier NifiCluster is generated again.
EventuallyConverged == <>[](Reconcilable => Converged)

\* Once disturbances stop, no StatefulSet is written any more, although every resync
\* builds it again: rebuilding from the same spec and classes gives the same object
\* ("Sort the rolegroups to avoid random sorting and therefore unnecessary
\* reconciles", service.go).  Each rewrite would restart every pod.  It holds as
\* long as no git-sync entry has two user options, whose order is random.
StatefulSetsSettle ==
    <>[][\A g \in RoleGroups :
            UNCHANGED objects[<<"StatefulSet", g>>]]_vars

\* The sensitive-properties key is written once, also across deletion and
\* re-creation of the NifiCluster, with reconciliations of either in flight: a key
\* that exists, generated or provided, is never replaced ("already exists, skipping
\* reconciliation").  NiFi cannot read its flow with another key.
KeyStore == INSTANCE WriteOnceSecret
                WITH secret       <- objects[SensitiveKey],
                     Keys         <- [owner: Nat, body: {"key", "other key"}],
                     NoKey        <- None,
                     AutoGenerate <- TRUE
KeyWrittenOnce == KeyStore!Safe

\* The cluster is what its spec asks for and the controller has seen that spec: a
\* running call works on it and holds what it wants, and no wanted object waits for
\* the garbage collector.
Steady ==
    LET wanted == WantedEntries(cr.spec, ClusterAuth)
    IN  /\ cr # None /\ seen = cr
        /\ pc # "idle" => inst = cr /\ EntriesIn(resources) \subseteq wanted
        /\ Converged
        /\ \A e \in wanted : objects[e.key] # None => objects[e.key].owner \in {0, cr.uid}

\* A converged cluster stays converged, and calls that rebuild everything (on every
\* resync, after errors and early ends) rewrite nothing: no step but a disturbance
\* changes a wanted object.  Exceptions are Jobs, which expire and come back, and
\* StatefulSets with a git-sync entry of two user options, whose order is random.
\* This is what makes EventuallyConverged and StatefulSetsSettle last.
SteadyStays ==
    [][Steady /\ budget' = budget =>
         /\ Steady'
         /\ \A e \in WantedEntries(cr.spec, ClusterAuth) :
               \/ UNCHANGED objects[e.key]
               \/ e.key[1] = "Job"
               \/ e.key[1] = "StatefulSet"
                    /\ \E i \in DOMAIN cr.spec.gitSync :
                          \E a, b \in UserOptions(cr.spec.gitSync[i]) : a # b]_vars

\* Objects pass from a NifiCluster to its successor and never back: a call in flight
\* for a NifiCluster that was deleted and created again does not take an object from
\* the new one, which the garbage collector would then remove.
OwnersMoveForward ==
    [][\A k \in Key : objects[k] # None /\ objects'[k] # None =>
          objects'[k].owner >= objects[k].owner]_vars

\* Once the NifiCluster is deleted for good, everything the operator created for
\* it goes away, including what a reconciliation in flight creates afterwards
\* (every object carries the owner reference of the instance it was built for);
\* only a secret that a user made stays.
DeletedClusterIsCleaned ==
    (<>[](cr = None)) =>
        <>[](\A k \in Key : objects[k] # None => k[1] \in SecretKinds /\ objects[k].owner = 0)

-----------------------------------------------------------------------------
(***************************************************************************)
(* Statements of the API documentation and of comments which the code does *)
(* not meet; each is refuted by a run of its own.                          *)
(***************************************************************************)

\* The admin-password secret that the OIDC authenticator's volume names is one the
\* operator generates (AdminSecretReconciler: "Secret not found, create it"): at
\* rest it exists.  It is registered for LDAP, which does not mount it.
MountedAdminSecretExists ==
    Quiescent =>
        \A g \in cr.spec.groups :
            (\E v \in objects[<<"StatefulSet", g>>].body.volumes :
                v[2] = OidcAdminPasswordSecret)
              => objects[KeyOf("AdminSecret")] # None

PodsDeployed ==
    \A g \in RoleGroups :
        cr # None /\ g \in cr.spec.groups => objects[<<"StatefulSet", g>>] # None

\* Authentication is optional ("+kubebuilder:validation:Optional"): a NifiCluster
\* without it gets its StatefulSets.  Registration dereferences the nil
\* Authentication and is retried for ever.
AuthenticationIsOptional == <>PodsDeployed

\* The Helm chart ("This chart bootstraps an Apache Hadoop Nifi Operator deployment")
\* installs an operator that can do its work: a NifiCluster gets its StatefulSets.
\* The chart's ClusterRole lacks four of the resources the markers of
\* NifiClusterReconciler ask for, two of which every reconciliation writes first.
ChartGrantsSuffice == <>PodsDeployed

=============================================================================
