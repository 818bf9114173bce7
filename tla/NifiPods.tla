------------------------------ MODULE NifiPods ------------------------------
(***************************************************************************)
(* The operator together with the pods that run what it wrote.  The pods   *)
(* are started by Kubernetes (external) from the StatefulSet and the       *)
(* ConfigMap of their role group: each role group has one pod, the others  *)
(* being alike.                                                            *)
(*                                                                         *)
(* A pod runs its init containers in order, first the one that renders the *)
(* configuration and then the ones that fetch the git repositories, and    *)
(* then NiFi beside the git-sync sidecars.  Its configuration directory    *)
(* and the repositories' contents are in volumes that live as long as the  *)
(* pod.  A pod is replaced when the template of its StatefulSet changes,   *)
(* and only then: a changed ConfigMap alone replaces no pod.               *)
(***************************************************************************)
EXTENDS NifiOperator

CONSTANTS
    Repositories,    \* the positions in the list of git repositories
    CredentialItems  \* the items of the credentials secret that users made

ASSUME PodsAssumption == \A s \in Specs : 1..Len(s.gitSync) \subseteq Repositories

VARIABLES
    pods,   \* per role group: its pod, or None
    heads   \* per repository: its latest revision, from 1

podVars == <<pods, heads>>
operatorVars == <<cr, seen, queued, local, objects, classes, granted, uid>>
allVars == <<vars, podVars>>

-----------------------------------------------------------------------------
\* The part of a StatefulSet whose change replaces the pods.
Template(sts) == [sts EXCEPT !.replicas = 0]

StatefulSetOf(g) == objects[<<"StatefulSet", g>>]
ConfigMapOf(g) == objects[<<"ConfigMap", g>>]

\* The StatefulSet of g asks for pods.
WantsPods(g) == StatefulSetOf(g) # None /\ StatefulSetOf(g).body.replicas > 0

\* A new pod: no init container is done, the volumes are empty.
NewPod(sts) ==
    [template |-> Template(sts), done |-> 0, running |-> FALSE, config |-> None,
     content |-> [i \in sts.git.volumes |-> 0]]

Outdated(g) == ~WantsPods(g) \/ pods[g].template # Template(StatefulSetOf(g).body)

\* The secrets behind the pod's volumes exist (a user's are there).
VolumesAvailable(template) ==
    (\E v \in template.volumes : v[2] = OidcAdminPasswordSecret)
        => objects[AdminSecret] # None

\* The items that a git-sync container takes from the credentials secret exist.
CredentialsAvailable(container) == {e[2] : e \in container.env} \subseteq CredentialItems

PodStep == UNCHANGED <<vars, heads>>

CreatePod(g) ==
    /\ pods[g] = None /\ WantsPods(g)
    /\ pods' = [pods EXCEPT ![g] = NewPod(StatefulSetOf(g).body)]
    /\ PodStep

ReplacePod(g) ==
    /\ pods[g] # None /\ Outdated(g)
    /\ pods' = [pods EXCEPT ![g] = None]
    /\ PodStep

\* The prepare container.  A variable that is not set is rendered as an empty text,
\* a template that gomplate cannot render fails the container, which is retried.
Prepare(g) ==
    /\ pods[g] # None /\ pods[g].done = 0
    /\ ConfigMapOf(g) # None /\ VolumesAvailable(pods[g].template)
    /\ LET cm == ConfigMapOf(g).body
           t  == pods[g].template
       IN  /\ Renders(cm, t.prepare)
           /\ pods' = [pods EXCEPT ![g].done = 1,
                                   ![g].config = [from |-> cm,
                                                  unset |-> TemplateVariables(cm)
                                                     \ (t.env \cup t.prepare.exports)]]
    /\ PodStep

\* The init container of the next repository fetches it.  It ends in one-time mode
\* only; otherwise it goes on fetching.
FetchFirst(g) ==
    /\ pods[g] # None
    /\ pods[g].done \in DOMAIN pods[g].template.git.inits
    /\ LET i == pods[g].done
           c == pods[g].template.git.inits[i]
       IN  /\ CredentialsAvailable(c)
           /\ pods' = [pods EXCEPT ![g].content[c.mount] = heads[i],
                                   ![g].done = IF OneTimeMode(c.args) = "true"
                                               THEN @ + 1 ELSE @]
    /\ PodStep

\* Every init container is done.
Initialised(g) ==
    pods[g] # None /\ pods[g].done = Len(pods[g].template.git.inits) + 1

\* NiFi starts.  It ends at once when a key store it should open is not mounted.
StartNifi(g) ==
    /\ Initialised(g) /\ ~pods[g].running
    /\ pods[g].config.from.properties.keyStores
          \subseteq {m[2] : m \in pods[g].template.mounts}
    /\ pods' = [pods EXCEPT ![g].running = TRUE]
    /\ PodStep

\* A sidecar fetches a new revision and moves its link.  (In one-time mode it would
\* end and be restarted.)
Fetch(g, i) ==
    /\ Initialised(g) /\ i \in DOMAIN pods[g].template.git.sidecars
    /\ LET c == pods[g].template.git.sidecars[i]
       IN  /\ CredentialsAvailable(c)
           /\ pods[g].content[c.mount] # heads[i]
           /\ pods' = [pods EXCEPT ![g].content[c.mount] = heads[i]]
    /\ PodStep

\* NiFi ends, or its liveness probe fails: the container is started again.
NifiCrashes(g) ==
    /\ Disturb("crash")
    /\ pods[g] # None /\ pods[g].running
    /\ pods' = [pods EXCEPT ![g].running = FALSE]
    /\ UNCHANGED <<operatorVars, heads>>

\* The pod is evicted or its node fails.
Evict(g) ==
    /\ Disturb("evict")
    /\ pods[g] # None
    /\ pods' = [pods EXCEPT ![g] = None]
    /\ UNCHANGED <<operatorVars, heads>>

\* Somebody pushes to a repository.
Push(i) ==
    /\ Disturb("push")
    /\ heads' = [heads EXCEPT ![i] = @ + 1]
    /\ UNCHANGED <<operatorVars, pods>>

Kubelet(g) ==
    \/ CreatePod(g) \/ ReplacePod(g) \/ Prepare(g) \/ FetchFirst(g) \/ StartNifi(g)

PodsInit ==
    /\ Init
    /\ pods = [g \in RoleGroups |-> None]
    /\ heads = [i \in Repositories |-> 1]

PodsNext ==
    \/ Next /\ UNCHANGED podVars
    \/ \E g \in RoleGroups : Kubelet(g) \/ NifiCrashes(g) \/ Evict(g)
    \/ \E g \in RoleGroups, i \in Repositories : Fetch(g, i)
    \/ \E i \in Repositories : Push(i)

PodsSpec == PodsInit /\ [][PodsNext]_allVars

\* Kubernetes goes on with every pod, a failing container is retried and in the end
\* reaches its repository.
PodsFairness ==
    /\ Fairness
    /\ \A g \in RoleGroups : WF_allVars(Kubelet(g))
    /\ \A g \in RoleGroups, i \in Repositories : WF_allVars(Fetch(g, i))

\* The last edit has been carried out: the operator rests, no pod waits for its
\* replacement.
Settled == Quiescent /\ \A g \in RoleGroups : pods[g] # None => ~Outdated(g)

\* Users edit the NifiCluster only then.  When a spec is changed and changed back
\* before the StatefulSet controller replaces a pod that started in between, the
\* pod's template is the present one again and its configuration is not.
PatientNext == PodsNext /\ (cr # None /\ cr' # cr => Settled)

PatientSpec == PodsInit /\ [][PatientNext]_allVars
FairPatientSpec == PatientSpec /\ PodsFairness

-----------------------------------------------------------------------------
(***************************************************************************)
(* Properties                                                              *)
(***************************************************************************)

\* "Add git-sync init containers so content is available before NiFi starts"
\* (StatefulSetBuilder.Build): NiFi never runs, after whatever replacements,
\* evictions and crashes, unless its configuration is rendered and every repository
\* it mounts has been fetched into the volume.
ContentBeforeNifi ==
    \A g \in RoleGroups :
        pods[g] # None /\ pods[g].running =>
            /\ pods[g].config # None
            /\ \A i \in pods[g].template.git.mounts : pods[g].content[i] > 0

\* As long as a pod lives, the contents of a repository in its volume never go back:
\* the init container, the sidecar and their restarts fetch the latest revision, and
\* no two repositories share a volume.
ContentMovesForward ==
    [][\A g \in RoleGroups :
          pods[g] # None /\ pods'[g] # None =>
              \A i \in DOMAIN pods[g].content : pods'[g].content[i] >= pods[g].content[i]]_allVars

\* Two ConfigMaps differ in nifi.web.proxy.host at most.
SameButProxyHost(a, b) ==
    [a EXCEPT !.properties.proxyHost = {}] = [b EXCEPT !.properties.proxyHost = {}]

\* When the last edit has been carried out, a pod that has rendered its configuration
\* found every variable the templates read, and the configuration is the present one
\* up to nifi.web.proxy.host, also in role groups that the spec no longer has.  A pod
\* that starts between the write of the ConfigMap and the write of the StatefulSet
\* renders the one with the environment of the other; it is replaced, because the
\* StatefulSet is written last (RegisterResourceWithRoleGroup) and tells apart
\* whatever else the ConfigMap depends on.
SettledPodsAreConfigured ==
    Settled =>
        \A g \in RoleGroups : pods[g] # None /\ pods[g].config # None =>
            /\ pods[g].config.unset = {}
            /\ SameButProxyHost(pods[g].config.from, ConfigMapOf(g).body)

\* The pods of the NifiCluster can start: no TLS (no volume has the key stores), a
\* static user (LDAP's provider cannot be rendered, OIDC's volume has no secret), no
\* option that overrides the init containers' one-time mode, the credentials that
\* git-sync takes, and at most one user option (the order of two is random, and
\* the pods would be replaced with every change of it).
Runnable ==
    /\ Reconcilable
    /\ ~EnableTls(cr.spec)
    /\ ClusterAuth.type = "static"
    /\ \A i \in DOMAIN cr.spec.gitSync : Cardinality(UserOptions(cr.spec.gitSync[i])) <= 1
    /\ \A git \in NewGitSyncResources(cr.spec.gitSync) : \A i \in 1..Len(git.inits) :
          OneTimeMode(git.inits[i].args) = "true" /\ CredentialsAvailable(git.inits[i])

\* Once disturbances stop, and edits waited for each other, NiFi runs in every pod with
\* the present template and the present configuration, rendered with every variable
\* it reads.  A pod that starts between the write of the ConfigMap and the write of
\* the StatefulSet renders the one with the environment of the other; it is
\* replaced, because the StatefulSet is written last.  This is about edits that
\* change the template too (see RunningNifiAllowsReportingHost for another one).
RunningConfigIsCurrent ==
    <>[](Runnable =>
           \A g \in cr.spec.groups : WantsPods(g) =>
               /\ pods[g] # None /\ pods[g].running /\ ~Outdated(g)
               /\ pods[g].config = [from |-> ConfigMapOf(g).body, unset |-> {}])

\* "Sidecar containers providing continuous git synchronization" (GitSyncResources):
\* every pushed revision reaches the volume of a pod that goes on running.
ContentFollowsRepository ==
    \A g \in RoleGroups, i \in Repositories :
        <>[](pods[g] # None /\ pods[g].running /\ i \in pods[g].template.git.mounts /\ Runnable
               => pods[g].content[i] = heads[i])

-----------------------------------------------------------------------------
\* "NiFi validates the Host header against nifi.web.proxy.host, so we must allow that
\* FQDN here" (getNifiProperties): once the reporting task is enabled, the running
\* NiFi allows the host its Job connects to.  Refuted: enabling it on a running
\* cluster changes the ConfigMap and leaves the StatefulSet as it is, so the pods go
\* on with the configuration they rendered when they started.
RunningNifiAllowsReportingHost ==
    <>[](Runnable /\ WantsReportingTask(cr.spec) =>
           \A g \in cr.spec.groups :
               pods[g] # None /\ pods[g].running =>
                   GetPort("https") \in pods[g].config.from.properties.proxyHost)

=============================================================================
