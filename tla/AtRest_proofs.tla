---------------------------- MODULE AtRest_proofs ----------------------------
(***************************************************************************)
(* What convergence means for the objects themselves: at rest, the         *)
(* ConfigMap and the StatefulSet of a role group fit together, and the     *)
(* reporting task reaches NiFi.  Both rest on Convergence_proofs and on    *)
(* one more fact, that a call which got as far as to write did not fail to *)
(* register.                                                               *)
(***************************************************************************)
EXTENDS Convergence_proofs, WellFoundedInduction

\* Registration succeeds for the NifiCluster i, given the classes.
UsableFor(i, cls) ==
    LET auth == GetAuthentication(i.spec.authentication, cls)
    IN  /\ i.spec.groups # {} =>
              ~RoleGroupRegistrationFails(auth) /\ NewGitSyncResources(i.spec.gitSync) # {}
        /\ ~ReportingTaskRegistrationFails(i.spec, auth)

\* A call that has registered a role group could do so, and one that runs could
\* register everything.
CallUsable ==
    /\ pc = "register" =>
            \/ todo = inst.spec.groups
            \/ /\ ~RoleGroupRegistrationFails(CurrentAuth)
               /\ NewGitSyncResources(inst.spec.gitSync) # {}
    /\ pc = "run" => UsableFor(inst, classes)

\* The inductive invariant: the same of the last call, when it has come to its end.
UsableInv ==
    /\ CallUsable
    /\ pc = "idle" /\ ~queued /\ seen # None /\ ~seen.spec.paused => UsableFor(seen, classes)

-----------------------------------------------------------------------------
\* A set of role groups that is not empty has a first one.
LEMMA FirstOfGroups ==
    ASSUME NEW S, S \subseteq Nat, S # {}
    PROVE  Min(S) \in S
  <1>. DEFINE R == OpToRel(<, Nat)
  <1>1. IsWellFoundedOn(R, Nat)
    BY NatLessThanWellFounded, Zenon
  <1>2. \A x, y \in Nat : <<y, x>> \notin R => x =< y
    BY DEF OpToRel
  <1>. HIDE DEF R
  <1>3. PICK x \in S : \A y \in S : ~(<<y, x>> \in R)
    BY <1>1, WFMin, Zenon
  <1>4. \A y \in S : x =< y
    BY <1>2, <1>3, Zenon
  <1>. QED
    BY <1>3, <1>4, Zenon DEF Min

\* What the steps of a call do to its own part.
LEMMA CallUsableStep ==
    ASSUME CallUsable, classes' = classes,
           \/ UNCHANGED <<pc, inst, todo, resources>>
           \/ EndCall
           \/ StartReconcile
           \/ \E g \in RoleGroups : RegisterRoleGroup(g)
           \/ FinishRegistration
           \/ NextResource
    PROVE  CallUsable'
  <1>1. CASE UNCHANGED <<pc, inst, todo>>
    <2>1. CurrentAuth' = CurrentAuth
      BY <1>1 DEF CurrentAuth
    <2>. QED
      BY <1>1, <2>1 DEF CallUsable
  <1>2. CASE EndCall
    BY <1>2 DEF EndCall, CallUsable
  <1>3. CASE StartReconcile
    BY <1>3 DEF StartReconcile, CallUsable
  <1>4. ASSUME NEW g \in RoleGroups, RegisterRoleGroup(g) PROVE CallUsable'
    <2>1. /\ pc' = "register" /\ ~RoleGroupRegistrationFails(CurrentAuth) /\ inst' = inst
          /\ NewGitSyncResources(inst.spec.gitSync) # {}
      BY <1>4 DEF RegisterRoleGroup
    <2>2. CurrentAuth' = CurrentAuth
      BY <2>1 DEF CurrentAuth
    <2>. QED
      BY <2>1, <2>2 DEF CallUsable
  <1>5. CASE FinishRegistration /\ ~inst.spec.paused
    <2>1. pc' = "run" /\ inst' = inst
      BY <1>5 DEF FinishRegistration
    <2>2. UsableFor(inst, classes)
      BY <1>5 DEF FinishRegistration, CallUsable, UsableFor, CurrentAuth
    <2>. QED
      BY <2>1, <2>2 DEF CallUsable
  <1>6. CASE FinishRegistration /\ inst.spec.paused
    BY <1>6 DEF FinishRegistration, EndCall, CallUsable
  <1>. QED
    BY <1>1, <1>2, <1>3, <1>4, <1>5, <1>6 DEF NextResource

\* The steps keep the invariant.
LEMMA UsableStep ==
    ASSUME OnlyWatchedChanges, TypeOK, ConvInv, UsableInv, [Next]_vars
    PROVE  UsableInv'
  <1>1. classes' = classes /\ SteadyInv
    BY SteadyStep DEF ConvInv
  <1>2. CASE UNCHANGED <<pc, inst, todo, resources>>
               /\ (queued' = TRUE \/ UNCHANGED <<seen, queued>>)
    BY <1>1, <1>2, CallUsableStep DEF UsableInv
  <1>3. CASE EndCall /\ queued' = TRUE
    BY <1>1, <1>3, CallUsableStep DEF UsableInv
  <1>4. CASE IgnoreDeleted
    BY <1>1, <1>4, CallUsableStep DEF IgnoreDeleted, local, UsableInv
  <1>5. CASE \/ StartReconcile
             \/ \E g \in RoleGroups : RegisterRoleGroup(g)
             \/ NextResource /\ (SkipExistingSecret \/ UpToDate \/ WriteResource)
    <2>1. pc' # "idle"
      BY <1>5 DEF StartReconcile, RegisterRoleGroup, NextResource, SkipExistingSecret,
                  UpToDate, WriteResource, Running
    <2>. QED
      BY <1>1, <1>5, <2>1, CallUsableStep DEF UsableInv
  <1>6. CASE FinishRegistration
    <2>1. pc = "register" /\ todo = {} /\ seen' = seen /\ queued' = queued
      BY <1>6 DEF FinishRegistration
    <2>2. CASE inst.spec.paused
      <3>1. pc' = "idle" /\ (~queued => inst = seen)
        BY <1>6, <2>1, <2>2 DEF FinishRegistration, EndCall, ConvInv, CallInv
      <3>. QED
        BY <1>1, <1>6, <2>1, <2>2, <3>1, CallUsableStep DEF UsableInv
    <2>3. CASE ~inst.spec.paused
      <3>1. pc' = "run"
        BY <1>6, <2>3 DEF FinishRegistration
      <3>. QED
        BY <1>1, <1>6, <3>1, CallUsableStep DEF UsableInv
    <2>. QED
      BY <2>2, <2>3
  <1>7. CASE EndReconcile
    <2>1. pc = "run" /\ EndCall /\ pc' = "idle" /\ seen' = seen /\ (~queued' => ~queued)
      BY <1>7, Zenon DEF EndReconcile, EndCall, TypeOK
    <2>2. ~queued => inst = seen
      BY <2>1 DEF ConvInv, CallInv
    <2>3. UsableFor(inst, classes)
      BY <2>1 DEF UsableInv, CallUsable
    <2>. QED
      BY <1>1, <2>1, <2>2, <2>3, CallUsableStep DEF UsableInv
  <1>. QED
    BY <1>1, <1>2, <1>3, <1>4, <1>5, <1>6, <1>7, StepKinds, Zenon

\* Convergence and usability together, in every reachable state.
LEMMA AtRest ==
    ASSUME OnlyWatchedChanges
    PROVE  Spec => [](TypeOK /\ ConvInv /\ UsableInv)
  <1>1. Init => ConvInv /\ UsableInv
    <2>1. Init => UsableInv
      BY DEF Init, CallUsable, UsableInv
    <2>. QED
      BY <2>1, ConvInit
  <1>2. TypeOK /\ ConvInv /\ [Next]_vars => ConvInv'
    BY ConvStep
  <1>3. TypeOK /\ ConvInv /\ UsableInv /\ [Next]_vars => UsableInv'
    BY UsableStep
  <1>. QED
    BY <1>1, <1>2, <1>3, TypeCorrect, PTL DEF Spec

-----------------------------------------------------------------------------
(***************************************************************************)
(* The objects at rest                                                     *)
(***************************************************************************)

\* The wanted entries of a kind.
LEMMA WantedOfKind ==
    ASSUME NEW i \in Instance, NEW cls \in ClassMaps, NEW auth,
           auth = GetAuthentication(i.spec.authentication, cls),
           NEW e \in WantedOf(i, cls), NEW n
    PROVE  /\ e.key = <<"ConfigMap", n>> =>
                n \in i.spec.groups /\ e = WithAuth("ConfigMap", n, auth)
           /\ e.key = <<"StatefulSet", n>> =>
                \E git \in NewGitSyncResources(i.spec.gitSync) :
                    e = WithGit("StatefulSet", n, auth, git)
           /\ e.key = <<"ReportingService", n>> => e = Plain("ReportingService", "cluster")
           /\ e.key = <<"Job", n>> => e = WithAuth("Job", i.spec.version, auth)
  <1>1. CASE e \in EntriesIn(registerRBACResources)
    <2>1. e \in {Plain("ServiceAccount", "cluster"), Plain("Role", "cluster"),
                  Plain("RoleBinding", "cluster")}
      BY <1>1, EntriesOfShortLists DEF registerRBACResources
    <2>2. e.key[1] \in RbacKinds
      BY <2>1 DEF Plain, RbacKinds
    <2>. QED
      BY <2>2 DEF RbacKinds
  <1>2. CASE e \in EntriesIn(sensitiveKeyReconciler)
    <2>1. e = Plain("SensitiveKey", "cluster")
      BY <1>2, EntriesOfShortLists DEF sensitiveKeyReconciler
    <2>2. e.key[1] = "SensitiveKey"
      BY <2>1 DEF Plain
    <2>. QED
      BY <2>2
  <1>3. CASE e \in EntriesIn(ReportingTaskResources(i.spec, auth))
    <2>1. e \in {Plain("ReportingService", "cluster"), WithAuth("Job", i.spec.version, auth)}
      BY <1>3, EntriesOfShortLists DEF ReportingTaskResources
    <2>2. CASE e = Plain("ReportingService", "cluster")
      <3>1. e.key[1] = "ReportingService"
        BY <2>2 DEF Plain
      <3>. QED
        BY <2>2, <3>1
    <2>3. CASE e = WithAuth("Job", i.spec.version, auth)
      <3>1. e.key[1] = "Job"
        BY <2>3 DEF WithAuth
      <3>. QED
        BY <2>3, <3>1
    <2>. QED
      BY <2>1, <2>2, <2>3
  <1>4. ASSUME NEW g \in i.spec.groups, NEW git \in NewGitSyncResources(i.spec.gitSync),
               e \in EntriesIn(RoleGroupResources(g, auth, git))
        PROVE  /\ e.key = <<"ConfigMap", n>> =>
                    n \in i.spec.groups /\ e = WithAuth("ConfigMap", n, auth)
               /\ e.key = <<"StatefulSet", n>> => e = WithGit("StatefulSet", n, auth, git)
               /\ e.key # <<"ReportingService", n>> /\ e.key # <<"Job", n>>
    <2>1. \/ e = WithAuth("ConfigMap", g, auth) \/ e = WithGit("StatefulSet", g, auth, git)
          \/ e = Plain("Service", g) \/ e = Plain("AdminSecret", "cluster")
      BY <1>4, WantedViews, GroupEntries
    <2>2. CASE e = WithAuth("ConfigMap", g, auth)
      <3>1. e.key = <<"ConfigMap", g>>
        BY <2>2 DEF WithAuth
      <3>. QED
        BY <2>2, <3>1
    <2>3. CASE e = WithGit("StatefulSet", g, auth, git)
      <3>1. e.key = <<"StatefulSet", g>>
        BY <2>3 DEF WithGit
      <3>. QED
        BY <2>3, <3>1
    <2>4. CASE e = Plain("Service", g) \/ e = Plain("AdminSecret", "cluster")
      <3>1. e.key[1] \in {"Service", "AdminSecret"}
        BY <2>4 DEF Plain
      <3>. QED
        BY <3>1
    <2>. QED
      BY <2>1, <2>2, <2>3, <2>4
  <1>5. \/ e \in EntriesIn(registerRBACResources)
        \/ e \in EntriesIn(sensitiveKeyReconciler)
        \/ e \in EntriesIn(ReportingTaskResources(i.spec, auth))
        \/ \E g \in i.spec.groups, git \in NewGitSyncResources(i.spec.gitSync) :
              e \in EntriesIn(RoleGroupResources(g, auth, git))
    BY WantedCases, Zenon DEF WantedOf
  <1>. QED
    BY <1>1, <1>2, <1>3, <1>4, <1>5, Zenon

\* The entry of the reporting task's Job.
LEMMA JobEntry ==
    ASSUME NEW i \in Instance, NEW cls \in ClassMaps, NEW auth,
           auth = GetAuthentication(i.spec.authentication, cls),
           NEW e \in WantedOf(i, cls), NEW n, e.key = <<"Job", n>>
    PROVE  e = WithAuth("Job", i.spec.version, auth)
  BY WantedOfKind

\* An entry of these kinds that is done has the object its builder makes.
LEMMA DoneObject ==
    ASSUME NEW k, NEW i, NEW cls, NEW obj, Done(k, i, cls, obj),
           k[1] \in {"ConfigMap", "StatefulSet", "ReportingService"}
    PROVE  \E e \in WantedOf(i, cls) : e.key = k /\ obj = DesiredObject(e, i, cls)
  <1>1. PICK e \in WantedOf(i, cls) : e.key = k /\ MatchedBy(e, i, cls, obj)
    BY DEF Done
  <1>2. e.key[1] \notin SecretKinds /\ e.key[1] # "Job"
    BY <1>1 DEF SecretKinds
  <1>3. obj = DesiredObject(e, i, cls)
    BY <1>1, <1>2 DEF MatchedBy
  <1>. QED
    BY <1>1, <1>3

\* What NewAuthentication can return.
LEMMA AuthTypes ==
    ASSUME NEW a, NEW cls
    PROVE  GetAuthentication(a, cls).type
             \in {"none", "error", "panic", "oidc", "ldap", "static"}
  BY DEF GetAuthentication, NewAuthentication, NoAuthentication, Failure

\* Everything the NifiCluster asks for is there, and it could be registered.
CarriedOut ==
    /\ cr \in Instance /\ classes \in ClassMaps
    /\ UsableFor(cr, classes)
    /\ \A e \in WantedOf(cr, classes) : Done(e.key, cr, classes, objects[e.key])

\* What Quiescent and the invariants say of the operator's own state.
LEMMA RestFacts ==
    ASSUME TypeOK, ConvInv, UsableInv, Quiescent
    PROVE  /\ cr \in Instance /\ classes \in ClassMaps
           /\ UsableFor(cr, classes)
           /\ ClusterAuth = GetAuthentication(cr.spec.authentication, classes)
           /\ \A e \in WantedOf(cr, classes) : Done(e.key, cr, classes, objects[e.key])
  <1>1. pc = "idle" /\ ~queued /\ seen = cr /\ cr # None /\ ~cr.spec.paused
    BY DEF Quiescent
  <1>. QED
    BY <1>1 DEF TypeOK, ConvInv, RestInv, UsableInv, ClusterAuth

\* At rest, everything is there.
LEMMA CarriedOutAtRest ==
    ASSUME TypeOK, ConvInv, UsableInv, Quiescent
    PROVE  CarriedOut
  BY RestFacts DEF CarriedOut

\* Then the objects of a role group.
LEMMA GroupAtRest ==
    ASSUME CarriedOut, NEW g \in cr.spec.groups
    PROVE  /\ objects[<<"ConfigMap", g>>].body = NifiConfigMap(cr.spec, ClusterAuth, ClusterAuth)
           /\ \E git \in NewGitSyncResources(cr.spec.gitSync) :
                 objects[<<"StatefulSet", g>>] =
                    [owner |-> cr.uid, body |-> NifiStatefulSet(cr.spec, g, ClusterAuth, git)]
  <1>1. /\ cr \in Instance /\ classes \in ClassMaps
        /\ ClusterAuth = GetAuthentication(cr.spec.authentication, classes)
        /\ \A e \in WantedOf(cr, classes) : Done(e.key, cr, classes, objects[e.key])
    BY DEF CarriedOut, ClusterAuth
  <1>2. PICK git \in NewGitSyncResources(cr.spec.gitSync) : TRUE
    BY DEF CarriedOut, UsableFor
  <1>3. \A e \in EntriesIn(RoleGroupResources(g, ClusterAuth, git)) :
            e \in WantedOf(cr, classes)
    BY <1>1, <1>2, WantedCases DEF WantedOf
  <1>4. /\ WithAuth("ConfigMap", g, ClusterAuth) \in WantedOf(cr, classes)
        /\ WithGit("StatefulSet", g, ClusterAuth, git) \in WantedOf(cr, classes)
    BY <1>1, <1>2, <1>3, WantedViews, GroupEntries
  <1>5. /\ Done(<<"ConfigMap", g>>, cr, classes, objects[<<"ConfigMap", g>>])
        /\ Done(<<"StatefulSet", g>>, cr, classes, objects[<<"StatefulSet", g>>])
    <2>1. /\ WithAuth("ConfigMap", g, ClusterAuth).key = <<"ConfigMap", g>>
          /\ WithGit("StatefulSet", g, ClusterAuth, git).key = <<"StatefulSet", g>>
      BY DEF WithAuth, WithGit
    <2>. QED
      BY <1>1, <1>4, <2>1
  <1>6. <<"ConfigMap", g>>[1] = "ConfigMap" /\ <<"StatefulSet", g>>[1] = "StatefulSet"
          /\ <<"StatefulSet", g>>[2] = g
    OBVIOUS
  <1>7. objects[<<"ConfigMap", g>>].body = NifiConfigMap(cr.spec, ClusterAuth, ClusterAuth)
    <2>1. PICK e \in WantedOf(cr, classes) :
            /\ e.key = <<"ConfigMap", g>>
            /\ objects[<<"ConfigMap", g>>] = DesiredObject(e, cr, classes)
      BY <1>5, <1>6, DoneObject
    <2>2. e = WithAuth("ConfigMap", g, ClusterAuth)
      BY <1>1, <2>1, WantedOfKind
    <2>3. e.key[1] = "ConfigMap" /\ e.auth = ClusterAuth
      BY <2>2 DEF WithAuth
    <2>4. Body(e, cr.spec, classes) = NifiConfigMap(cr.spec, ClusterAuth, ClusterAuth)
      BY <1>1, <2>3 DEF Body
    <2>. QED
      BY <2>1, <2>4 DEF DesiredObject
  <1>8. \E h \in NewGitSyncResources(cr.spec.gitSync) :
            objects[<<"StatefulSet", g>>] =
                [owner |-> cr.uid, body |-> NifiStatefulSet(cr.spec, g, ClusterAuth, h)]
    <2>1. PICK e \in WantedOf(cr, classes) :
            /\ e.key = <<"StatefulSet", g>>
            /\ objects[<<"StatefulSet", g>>] = DesiredObject(e, cr, classes)
      BY <1>5, <1>6, DoneObject
    <2>2. PICK h \in NewGitSyncResources(cr.spec.gitSync) :
            e = WithGit("StatefulSet", g, ClusterAuth, h)
      BY <1>1, <2>1, WantedOfKind
    <2>3. e.key[1] = "StatefulSet" /\ e.key[2] = g /\ e.auth = ClusterAuth /\ e.git = h
      BY <2>2 DEF WithGit
    <2>4. Body(e, cr.spec, classes) = NifiStatefulSet(cr.spec, g, ClusterAuth, h)
      BY <2>3 DEF Body
    <2>. QED
      BY <2>1, <2>4 DEF DesiredObject
  <1>. QED
    BY <1>7, <1>8

\* The git-sync part mounts the volumes it has.
LEMMA GitFits ==
    ASSUME NEW syncs, NEW git \in NewGitSyncResources(syncs), syncs \in Seq(GitSyncSpec)
    PROVE  /\ git.mounts \subseteq git.volumes
           /\ \A i \in 1..Len(syncs) :
                 {git.inits[i].mount, git.sidecars[i].mount} \subseteq git.volumes
  <1>1. PICK first, second \in ArgOrders(syncs) : git = GitSyncResources(syncs, first, second)
    BY DEF NewGitSyncResources
  <1>2. DOMAIN syncs = 1..Len(syncs)
    OBVIOUS
  <1>3. \A gs, i, m, o : buildGitSyncContainer(gs, i, m, o).mount = i
    BY DEF buildGitSyncContainer
  <1>4. /\ git.volumes = 1..Len(syncs) /\ git.mounts = 1..Len(syncs)
        /\ \A i \in 1..Len(syncs) :
              /\ git.inits[i] = buildGitSyncContainer(syncs[i], i, "true", first[i])
              /\ git.sidecars[i] = buildGitSyncContainer(syncs[i], i, "false", second[i])
    BY <1>1, <1>2 DEF GitSyncResources
  <1>. QED
    BY <1>3, <1>4

\* A ConfigMap and a StatefulSet fit together.
FitTogether(cm, sts, auth, git) ==
    /\ TemplateVariables(cm) \subseteq sts.env \cup sts.prepare.exports
    /\ auth.type # "ldap" => Renders(cm, sts.prepare)
    /\ {m[1] : m \in sts.mounts} \subseteq {v[1] : v \in sts.volumes}
    /\ sts.git = git
    /\ cm.properties.stateProvider = cm.stateManagement.id
    /\ sts.probe \in cm.properties.web

\* Those of one spec do.
LEMMA TemplatesFit ==
    ASSUME NEW spec, NEW g, NEW git, NEW auth, auth.type \in {"oidc", "ldap", "static"},
           NEW cm, cm = NifiConfigMap(spec, auth, auth),
           NEW sts, sts = NifiStatefulSet(spec, g, auth, git)
    PROVE  FitTogether(cm, sts, auth, git)
  <1>1. /\ cm.properties.cluster = ClusterProperties(spec)
        /\ cm.properties.authGetenv = ExtendNifiProperties(auth)
        /\ cm.properties.stateProvider = StateProviderProperty(spec)
        /\ cm.properties.web = WebProperties(spec)
        /\ cm.login = GetLoginIdentityProvider(auth)
        /\ cm.stateManagement = getStateManagementConfig(spec)
    BY DEF NifiConfigMap, getNifiProperties
  <1>2. /\ sts.env = getContainerEnv(spec, auth)
        /\ sts.prepare = getPrepareContainerArgs(auth)
        /\ sts.mounts = getVolumeMounts(auth)
        /\ sts.volumes = getVolumes(auth)
        /\ sts.probe = setupMainContainerProbe(spec)
        /\ sts.git = git
    BY DEF NifiStatefulSet
  <1>3. /\ ClusterProperties(spec).getenv \cup getStateManagementConfig(spec).getenv
              \subseteq {"NODE_ADDRESS"} \cup getContainerEnv(spec, auth)
        /\ ExtendNifiProperties(auth) \subseteq getContainerEnv(spec, auth)
    BY DEF ClusterProperties, getStateManagementConfig, useZooKeeperStateProvider,
           getContainerEnv, ExtendNifiProperties, GetEnvVars
  <1>4. /\ GetLoginIdentityProvider(auth).getenv \subseteq GetInitArgs(auth)
        /\ auth.type # "ldap" => /\ GetLoginIdentityProvider(auth).provider # "none"
                                 /\ GetLoginIdentityProvider(auth).actions = {"getenv"}
    BY DEF GetLoginIdentityProvider, getSingleUserLoginIdentityProvider,
           ldapLoginIdentityProvider, GetInitArgs
  <1>5. /\ getPrepareContainerArgs(auth).exports = {"NODE_ADDRESS"} \cup GetInitArgs(auth)
        /\ getPrepareContainerArgs(auth).renders =
              {"nifi.properties", "login-identity-providers.xml", "state-management.xml"}
    BY DEF getPrepareContainerArgs
  <1>6. TemplateVariables(cm) \subseteq sts.env \cup sts.prepare.exports
    BY <1>1, <1>2, <1>3, <1>4, <1>5 DEF TemplateVariables
  <1>7. auth.type # "ldap" => Renders(cm, sts.prepare)
    BY <1>1, <1>2, <1>4, <1>5 DEF Renders, ConfigMapFiles
  <1>8. {m[1] : m \in sts.mounts} \subseteq {v[1] : v \in sts.volumes}
    <2>1. ASSUME NEW m \in GetVolumeMounts(auth)
          PROVE  \E v \in GetVolumes(auth) : v[1] = m[1]
      <3>1. CASE auth.type = "ldap"
        <4>1. /\ m = <<"bind-credentials", "/kubedoop/secret">>
              /\ <<"bind-credentials", "secret-class">> \in GetVolumes(auth)
          BY <2>1, <3>1 DEF GetVolumeMounts, GetVolumes, ldapVolumeMounts, ldapVolumes
        <4>. QED
          BY <4>1
      <3>2. CASE auth.type = "oidc"
        <4>1. /\ m = <<"admin", "/kubedoop/users">>
              /\ <<"admin", OidcAdminPasswordSecret>> \in GetVolumes(auth)
          BY <2>1, <3>2 DEF GetVolumeMounts, GetVolumes, oidcVolumeMounts, oidcVolumes
        <4>. QED
          BY <4>1
      <3>3. CASE auth.type = "static"
        <4>1. /\ m = <<"admin", "/kubedoop/users">>
              /\ <<"admin", "user-credentials">> \in GetVolumes(auth)
          BY <2>1, <3>3 DEF GetVolumeMounts, GetVolumes, staticVolumeMounts, staticVolumes
        <4>. QED
          BY <4>1
      <3>. QED
        BY <3>1, <3>2, <3>3
    <2>2. \A m \in {<<"nifi-config", "/kubedoop/mount/config">>, <<"empty-dir", "conf">>} :
            \E v \in {<<"nifi-config", "configmap">>, <<"empty-dir", "emptyDir">>} : v[1] = m[1]
      OBVIOUS
    <2>3. \A m \in sts.mounts : \E v \in sts.volumes : v[1] = m[1]
      BY <1>2, <2>1, <2>2, Zenon DEF getVolumeMounts, getVolumes
    <2>. QED
      BY <2>3
  <1>9. cm.properties.stateProvider = cm.stateManagement.id
    BY <1>1 DEF StateProviderProperty, getStateManagementConfig
  <1>10. sts.probe \in cm.properties.web
    BY <1>1, <1>2 DEF WebProperties, setupMainContainerProbe
  <1>. QED
    BY <1>2, <1>6, <1>7, <1>8, <1>9, <1>10, Zenon DEF FitTogether

\* The pods of a cluster that has everything can start.
LEMMA BuiltPodsFit ==
    ASSUME CarriedOut
    PROVE  PodsFit
  <1>. SUFFICES ASSUME NEW g \in cr.spec.groups
                PROVE  LET cm  == objects[<<"ConfigMap", g>>].body
                           sts == objects[<<"StatefulSet", g>>].body
                       IN  /\ TemplateVariables(cm) \subseteq sts.env \cup sts.prepare.exports
                           /\ ClusterAuth.type # "ldap" => Renders(cm, sts.prepare)
                           /\ {m[1] : m \in sts.mounts} \subseteq {v[1] : v \in sts.volumes}
                           /\ sts.git.mounts \subseteq sts.git.volumes
                           /\ \A i \in 1..Len(cr.spec.gitSync) :
                                 {sts.git.inits[i].mount, sts.git.sidecars[i].mount}
                                     \subseteq sts.git.volumes
                           /\ cm.properties.stateProvider = cm.stateManagement.id
                           /\ sts.probe \in cm.properties.web
    BY Zenon DEF PodsFit
  <1>1. PICK git \in NewGitSyncResources(cr.spec.gitSync) :
            objects[<<"StatefulSet", g>>] =
                [owner |-> cr.uid, body |-> NifiStatefulSet(cr.spec, g, ClusterAuth, git)]
    BY GroupAtRest, Zenon
  <1>2. objects[<<"StatefulSet", g>>].body = NifiStatefulSet(cr.spec, g, ClusterAuth, git)
    BY <1>1
  <1>3. objects[<<"ConfigMap", g>>].body = NifiConfigMap(cr.spec, ClusterAuth, ClusterAuth)
    BY GroupAtRest, Zenon
  <1>4. ClusterAuth.type \in {"oidc", "ldap", "static"}
    <2>1. ClusterAuth.type \in {"none", "error", "panic", "oidc", "ldap", "static"}
      BY AuthTypes DEF ClusterAuth
    <2>2. ~RoleGroupRegistrationFails(ClusterAuth)
      BY DEF CarriedOut, UsableFor, ClusterAuth
    <2>. QED
      BY <2>1, <2>2 DEF RoleGroupRegistrationFails, Unusable
  <1>5. cr.spec.gitSync \in Seq(GitSyncSpec)
    <2>1. cr.spec \in NifiClusterSpec
      BY OperatorAssumption DEF CarriedOut, Instance
    <2>. QED
      BY <2>1 DEF NifiClusterSpec
  <1>. DEFINE cm  == objects[<<"ConfigMap", g>>].body
              sts == objects[<<"StatefulSet", g>>].body
  <1>. HIDE DEF cm, sts
  <1>6. cm = NifiConfigMap(cr.spec, ClusterAuth, ClusterAuth)
          /\ sts = NifiStatefulSet(cr.spec, g, ClusterAuth, git)
    BY <1>2, <1>3 DEF cm, sts
  <1>7. /\ TemplateVariables(cm) \subseteq sts.env \cup sts.prepare.exports
        /\ ClusterAuth.type # "ldap" => Renders(cm, sts.prepare)
        /\ {m[1] : m \in sts.mounts} \subseteq {v[1] : v \in sts.volumes}
        /\ sts.git = git
        /\ cm.properties.stateProvider = cm.stateManagement.id
        /\ sts.probe \in cm.properties.web
    <2>1. FitTogether(cm, sts, ClusterAuth, git)
      BY <1>4, <1>6, TemplatesFit
    <2>. QED
      BY <2>1, Zenon DEF FitTogether
  <1>8. /\ sts.git.mounts \subseteq sts.git.volumes
        /\ \A i \in 1..Len(cr.spec.gitSync) :
              {sts.git.inits[i].mount, sts.git.sidecars[i].mount} \subseteq sts.git.volumes
    BY <1>5, <1>7, GitFits
  <1>. QED
    BY <1>7, <1>8, Zenon DEF cm, sts

-----------------------------------------------------------------------------
(***************************************************************************)
(* The reporting task                                                      *)
(***************************************************************************)

\* The pod that the Service selects: of a role group that has replicas if one has.
LEMMA SelectedGroup ==
    ASSUME NEW spec, spec.groups \subseteq Nat, spec.groups # {}
    PROVE  LET sel == getReportingTaskServiceSelectorPod(spec)
           IN  /\ sel \in spec.groups
               /\ (\E g \in spec.groups : spec.replicas[g] > 0) => spec.replicas[sel] > 0
  <1>. DEFINE running == {g \in spec.groups : spec.replicas[g] > 0}
              S == IF running # {} THEN running ELSE spec.groups
  <1>1. S \subseteq Nat /\ S # {} /\ S \subseteq spec.groups
    OBVIOUS
  <1>2. getReportingTaskServiceSelectorPod(spec) = Min(S)
    BY DEF getReportingTaskServiceSelectorPod
  <1>3. (\E g \in spec.groups : spec.replicas[g] > 0) => \A g \in S : spec.replicas[g] > 0
    OBVIOUS
  <1>. HIDE DEF S
  <1>4. Min(S) \in S
    BY <1>1, FirstOfGroups
  <1>. QED
    BY <1>1, <1>2, <1>3, <1>4, Zenon

\* The files the Job reads are mounted, except with LDAP.
LEMMA JobFits ==
    ASSUME NEW spec, NEW auth, auth.type \in {"oidc", "static"}
    PROVE  LET job == ReportingTaskJob(spec, auth)
           IN  job.reads \subseteq {m[2] : m \in job.mounts}
  <1>1. /\ ReportingTaskJob(spec, auth).reads = JobReads(spec, auth)
        /\ ReportingTaskJob(spec, auth).mounts = buildVolumeMounts(spec, auth)
    BY DEF ReportingTaskJob
  <1>2. <<"admin", "/kubedoop/users">> \in buildVolumeMounts(spec, auth)
    BY DEF buildVolumeMounts, GetVolumeMounts, oidcVolumeMounts, staticVolumeMounts
  <1>3. spec.tls = "class" => <<"cert", "/kubedoop/cert">> \in buildVolumeMounts(spec, auth)
    BY DEF buildVolumeMounts
  <1>. DEFINE mounts == buildVolumeMounts(spec, auth)
  <1>4. /\ \E m \in mounts : m[2] = "/kubedoop/users"
        /\ spec.tls = "class" => \E m \in mounts : m[2] = "/kubedoop/cert"
    <2>1. <<"admin", "/kubedoop/users">>[2] = "/kubedoop/users"
            /\ <<"cert", "/kubedoop/cert">>[2] = "/kubedoop/cert"
      OBVIOUS
    <2>. QED
      BY <1>2, <1>3, <2>1
  <1>. HIDE DEF mounts
  <1>5. JobReads(spec, auth) \subseteq {m[2] : m \in mounts}
    BY <1>4 DEF JobReads
  <1>. QED
    BY <1>1, <1>5 DEF mounts

\* The Service and the Job of the reporting task.
LEMMA ReportingAtRest ==
    ASSUME CarriedOut, WantsReportingTask(cr.spec)
    PROVE  /\ objects[KeyOf("ReportingService")].body = ReportingTaskService(cr.spec)
           /\ LET job == objects[<<"Job", cr.spec.version>>]
              IN  job = None \/ job.body = ReportingTaskJob(cr.spec, ClusterAuth)
  <1>1. /\ cr \in Instance /\ classes \in ClassMaps
        /\ ClusterAuth = GetAuthentication(cr.spec.authentication, classes)
        /\ \A e \in WantedOf(cr, classes) : Done(e.key, cr, classes, objects[e.key])
    BY DEF CarriedOut, ClusterAuth
  <1>. DEFINE a == Plain("ReportingService", "cluster")
              b == WithAuth("Job", cr.spec.version, ClusterAuth)
              ka == <<"ReportingService", "cluster">>
              kb == <<"Job", cr.spec.version>>
  <1>2. a \in WantedOf(cr, classes) /\ b \in WantedOf(cr, classes)
    <2>1. EntriesIn(ReportingTaskResources(cr.spec, ClusterAuth)) = {a, b}
      BY EntriesOfShortLists DEF ReportingTaskResources
    <2>. QED
      BY <1>1, <2>1, WantedCases DEF WantedOf
  <1>3. a.key = ka /\ b.key = kb /\ KeyOf("ReportingService") = ka
    BY DEF Plain, WithAuth, KeyOf
  <1>4. Done(ka, cr, classes, objects[ka]) /\ Done(kb, cr, classes, objects[kb])
    BY <1>1, <1>2, <1>3
  <1>5. ka[1] = "ReportingService" /\ kb[1] = "Job"
    OBVIOUS
  <1>6. objects[ka].body = ReportingTaskService(cr.spec)
    <2>1. PICK e \in WantedOf(cr, classes) :
            e.key = ka /\ objects[ka] = DesiredObject(e, cr, classes)
      BY <1>4, <1>5, DoneObject
    <2>2. Body(e, cr.spec, classes) = ReportingTaskService(cr.spec)
      BY <1>5, <2>1 DEF Body
    <2>. QED
      BY <2>1, <2>2 DEF DesiredObject
  <1>7. objects[kb] = None \/ objects[kb].body = ReportingTaskJob(cr.spec, ClusterAuth)
    <2>1. PICK e \in WantedOf(cr, classes) :
            e.key = kb /\ MatchedBy(e, cr, classes, objects[kb])
      BY <1>4 DEF Done
    <2>2. objects[kb] = None \/ objects[kb] = DesiredObject(e, cr, classes)
      BY <1>5, <2>1 DEF MatchedBy, SecretKinds
    <2>3. e.key[1] = "Job" /\ e.auth = ClusterAuth
      <3>1. e = b
        BY <1>1, <2>1, JobEntry
      <3>. QED
        BY <1>5, <2>1, <3>1 DEF WithAuth
    <2>4. Body(e, cr.spec, classes) = ReportingTaskJob(cr.spec, ClusterAuth)
      BY <2>3 DEF Body
    <2>. QED
      BY <2>2, <2>4 DEF DesiredObject
  <1>. QED
    BY <1>3, <1>6, <1>7

\* What the builders give the reporting task.
LEMMA ReportingParts ==
    ASSUME NEW s, NEW a
    PROVE  /\ \A cm : cm = NifiConfigMap(s, a, a) =>
                 /\ cm.properties.web = WebProperties(s)
                 /\ cm.properties.proxyHost = ProxyHostProperty(s)
           /\ \A job : job = ReportingTaskJob(s, a) => job.port = ReportingWebPort(s)
  <1>1. ASSUME NEW cm, cm = NifiConfigMap(s, a, a)
        PROVE  /\ cm.properties.web = WebProperties(s)
               /\ cm.properties.proxyHost = ProxyHostProperty(s)
    BY <1>1 DEF NifiConfigMap, getNifiProperties
  <1>2. ASSUME NEW job, job = ReportingTaskJob(s, a) PROVE job.port = ReportingWebPort(s)
    BY <1>2 DEF ReportingTaskJob
  <1>. QED
    BY <1>1, <1>2, Zenon

\* The reporting task of a cluster that has everything reaches NiFi.
LEMMA BuiltReportingTaskFits ==
    ASSUME CarriedOut
    PROVE  ReportingTaskFits
  <1>. SUFFICES ASSUME WantsReportingTask(cr.spec)
                PROVE  ReportingTaskFits
    BY Zenon DEF ReportingTaskFits
  <1>. DEFINE spec == cr.spec
              sel  == getReportingTaskServiceSelectorPod(spec)
              svc  == objects[KeyOf("ReportingService")].body
              job  == objects[<<"Job", spec.version>>]
              Sts(g) == objects[<<"StatefulSet", g>>]
              cm   == objects[<<"ConfigMap", sel>>].body
  <1>1. cr \in Instance /\ UsableFor(cr, classes)
          /\ ClusterAuth = GetAuthentication(spec.authentication, classes)
    BY DEF CarriedOut, ClusterAuth
  <1>2. spec.groups # {} /\ ~Unusable(ClusterAuth) /\ ClusterAuth.type # "none"
    BY <1>1 DEF UsableFor, ReportingTaskRegistrationFails, RoleGroupRegistrationFails
  <1>3. spec.groups \subseteq Nat
    <2>1. spec \in NifiClusterSpec
      BY <1>1, OperatorAssumption DEF Instance
    <2>. QED
      BY <2>1, NodeAssumption, Zenon DEF NifiClusterSpec
  <1>4. sel \in spec.groups
          /\ ((\E g \in spec.groups : spec.replicas[g] > 0) => spec.replicas[sel] > 0)
    BY <1>2, <1>3, SelectedGroup
  <1>5. svc = ReportingTaskService(spec)
          /\ (job = None \/ job.body = ReportingTaskJob(spec, ClusterAuth))
    BY ReportingAtRest
  <1>6. svc.selector = sel /\ svc.port = ReportingWebPort(spec)
    BY <1>5 DEF ReportingTaskService
  <1>7. \A g \in spec.groups :
            Sts(g) # None /\ Sts(g).body.replicas = IF spec.stopped THEN 0 ELSE spec.replicas[g]
    <2>. SUFFICES ASSUME NEW g \in spec.groups
                  PROVE  Sts(g) # None
                           /\ Sts(g).body.replicas = IF spec.stopped THEN 0 ELSE spec.replicas[g]
      OBVIOUS
    <2>1. PICK git : Sts(g) = [owner |-> cr.uid,
                               body |-> NifiStatefulSet(spec, g, ClusterAuth, git)]
      BY GroupAtRest, Zenon
    <2>. HIDE DEF Sts, spec
    <2>2. Sts(g) # None /\ Sts(g).body = NifiStatefulSet(spec, g, ClusterAuth, git)
      BY <2>1, SomethingIsNotNone
    <2>3. NifiStatefulSet(spec, g, ClusterAuth, git).replicas =
            IF spec.stopped THEN 0 ELSE spec.replicas[g]
      BY DEF NifiStatefulSet
    <2>. QED
      BY <2>2, <2>3
  <1>8. cm = NifiConfigMap(spec, ClusterAuth, ClusterAuth)
    BY <1>4, GroupAtRest, Zenon
  <1>. HIDE DEF job, svc, cm, Sts, sel
  <1>9. cm.properties.web = WebProperties(spec)
          /\ cm.properties.proxyHost = ProxyHostProperty(spec)
    BY <1>8, ReportingParts
  <1>10. ClusterAuth.type # "ldap" => ClusterAuth.type \in {"oidc", "static"}
    BY <1>1, <1>2, AuthTypes DEF Unusable
  <1>11. job # None => /\ job.body.port = svc.port
                       /\ ClusterAuth.type # "ldap" =>
                             job.body.reads \subseteq {m[2] : m \in job.body.mounts}
    <2>. SUFFICES ASSUME job # None
                  PROVE  /\ job.body.port = svc.port
                         /\ ClusterAuth.type # "ldap" =>
                               job.body.reads \subseteq {m[2] : m \in job.body.mounts}
      OBVIOUS
    <2>1. job.body = ReportingTaskJob(spec, ClusterAuth)
      BY <1>5
    <2>2. job.body.port = svc.port
      BY <1>6, <2>1, ReportingParts
    <2>3. ASSUME ClusterAuth.type # "ldap"
          PROVE  job.body.reads \subseteq {m[2] : m \in job.body.mounts}
      <3>1. LET j == ReportingTaskJob(spec, ClusterAuth)
            IN  j.reads \subseteq {m[2] : m \in j.mounts}
        BY <1>10, <2>3, JobFits
      <3>. QED
        BY <2>1, <3>1, Zenon
    <2>. QED
      BY <2>2, <2>3
  <1>12. svc.port \in cm.properties.web
           /\ (EnableTls(spec) => svc.port \in cm.properties.proxyHost)
    BY <1>6, <1>9 DEF WebProperties, ProxyHostProperty, ReportingWebPort, WantsReportingTask
  <1>13. (\E g \in spec.groups : Sts(g).body.replicas > 0) => Sts(sel).body.replicas > 0
    BY <1>4, <1>7
  <1>14. Sts(sel) # None
    BY <1>4, <1>7
  <1>15. objects[<<"StatefulSet", svc.selector>>] = Sts(sel)
           /\ objects[<<"ConfigMap", svc.selector>>].body = cm
    BY <1>6 DEF Sts, cm
  <1>. QED
    BY <1>11, <1>12, <1>13, <1>14, <1>15, Zenon DEF ReportingTaskFits, svc, job, Sts

-----------------------------------------------------------------------------
\* Whatever the spec, when the operator has come to rest the ConfigMap and the
\* StatefulSet that its builders made fit together.
THEOREM PodsStartAtRest ==
    ASSUME OnlyWatchedChanges
    PROVE  Spec => []PodsCanStart
  <1>1. TypeOK /\ ConvInv /\ UsableInv => PodsCanStart
    BY CarriedOutAtRest, BuiltPodsFit DEF PodsCanStart
  <1>. QED
    BY <1>1, AtRest, PTL

\* Whatever the spec, and for any number of role groups, the pod that
\* getReportingTaskServiceSelectorPod picks can serve the reporting task.
THEOREM ReportingTaskWorksAtRest ==
    ASSUME OnlyWatchedChanges
    PROVE  Spec => []ReportingTaskReachesNifi
  <1>1. TypeOK /\ ConvInv /\ UsableInv => ReportingTaskReachesNifi
    BY CarriedOutAtRest, BuiltReportingTaskFits DEF ReportingTaskReachesNifi
  <1>. QED
    BY <1>1, AtRest, PTL

-----------------------------------------------------------------------------
(***************************************************************************)
(* Users who wait.  When an edit finds the last one carried out, the       *)
(* operator is never more than one edit behind.                            *)
(***************************************************************************)

\* Everything the NifiCluster i wants is there.
AllDone(i) == \A e \in WantedOf(i, classes) : Done(e.key, i, classes, objects[e.key])

\* While the cache or the running call are behind, they hold the NifiCluster before
\* the last edit, which was carried out.
BehindInv ==
    /\ seen # None /\ seen # cr => AllDone(seen)
    /\ inst # None /\ inst # cr => AllDone(inst)
    /\ inst # None /\ seen # cr => inst = seen

\* Who holds which NifiCluster: an edit touches neither the cache nor the call, the
\* cache takes the latest one, a call takes the cached one.
LEMMA HolderStep ==
    ASSUME OnlyWatchedChanges, TypeOK, SteadyInv, [Next]_vars
    PROVE  /\ cr' = cr \/ UNCHANGED <<seen, queued, pc, inst, todo, resources, objects>>
           /\ seen' = seen \/ seen' = cr
           /\ \/ inst' = inst \/ inst' = None
              \/ inst' = seen /\ UNCHANGED <<cr, seen, objects>> /\ pc = "idle"
  <1>1. CASE \/ IgnoreDeleted \/ StartReconcile \/ RegisterRoleGroupError
             \/ FinishRegistration \/ FinishRegistrationError \/ Forbidden
             \/ SkipExistingSecret \/ AdminItemError \/ MissingKeyError \/ BuildError
             \/ UpToDate \/ JobUpdateRejected \/ WriteResource \/ EndReconcile
    BY <1>1, Zenon DEF IgnoreDeleted, StartReconcile, RegisterRoleGroupError, FinishRegistration,
         FinishRegistrationError, Forbidden, SkipExistingSecret, AdminItemError,
         MissingKeyError, BuildError, UpToDate, JobUpdateRejected, WriteResource,
         EndReconcile, RequeueWithError, EndCall, NextResource, local
  <1>2. CASE \/ WatchEvent \/ Resync \/ ProvideKey \/ ApiError \/ Restart \/ UpdateGrants
             \/ UNCHANGED vars
             \/ \E g \in RoleGroups : RegisterRoleGroup(g)
             \/ \E k \in Key : GarbageCollect(k) \/ DeleteObject(k)
             \/ \E v \in V1Versions : JobExpires(v)
             \/ \E x \in Specs : EditSpec(x)
    BY <1>2, Zenon DEF WatchEvent, Resync, ProvideKey, ApiError, Restart, UpdateGrants, vars, local,
         RegisterRoleGroup, GarbageCollect, DeleteObject, JobExpires, EditSpec,
         RequeueWithError, EndCall
  <1>3. /\ ~DeleteCluster /\ \A x \in Specs : ~CreateCluster(x)
        /\ \A c \in AuthClasses, p \in NewProviders : ~EditClass(c, p)
        /\ ~ProvideAdminSecret
    BY Zenon DEF OnlyWatchedChanges, DeleteCluster, CreateCluster, EditClass, ProvideAdminSecret,
           Disturb
  <1>. QED
    BY <1>1, <1>2, <1>3, NextCases

\* What a NifiCluster wants stays there as long as no other one is carried out.
LEMMA AllDoneStays ==
    ASSUME OnlyWatchedChanges, TypeOK, ConvInv, [Next]_vars, classes' = classes,
           NEW i \in Instance, AllDone(i), inst # None => inst = i
    PROVE  \A e \in WantedOf(i, classes') : Done(e.key, i, classes', objects'[e.key])
  <1>. SUFFICES ASSUME NEW e \in WantedOf(i, classes)
                PROVE  Done(e.key, i, classes, objects'[e.key])
    OBVIOUS
  <1>1. e.key \in Key /\ Done(e.key, i, classes, objects[e.key])
    BY WantedAreEntries DEF AllDone, TypeOK, Entry
  <1>2. CASE WriteResource /\ Current.key = e.key
    <2>1. pc = "run" /\ inst = i /\ Current \in EntriesIn(resources)
      BY <1>2, EntriesOfTail, RunningType, Zenon DEF WriteResource, Running, TypeOK, Current
    <2>2. Current \in WantedOf(inst, classes)
      BY <2>1 DEF ConvInv, CallInv
    <2>. QED
      BY <1>2, <2>1, <2>2, HeadDone
  <1>3. CASE ~(WriteResource /\ Current.key = e.key)
    BY <1>1, <1>3, DoneStays DEF ConvInv
  <1>. QED
    BY <1>2, <1>3

\* An edit finds the last one carried out; until the next call ends, the NifiCluster
\* before the edit stays carried out.
LEMMA BehindStep ==
    ASSUME OnlyWatchedChanges, TypeOK, ConvInv, UsableInv, BehindInv, [Next]_vars,
           cr' # cr => Quiescent
    PROVE  BehindInv'
  <1>1. classes' = classes /\ cr # None
    BY SteadyStep, Zenon DEF ConvInv, SteadyInv
  <1>2. /\ cr' = cr \/ UNCHANGED <<seen, queued, pc, inst, todo, resources, objects>>
        /\ seen' = seen \/ seen' = cr
        /\ \/ inst' = inst \/ inst' = None
           \/ inst' = seen /\ UNCHANGED <<cr, seen, objects>> /\ pc = "idle"
    BY HolderStep DEF ConvInv
  <1>3. CASE cr' # cr
    <2>1. UNCHANGED <<seen, inst, objects>> /\ seen = cr /\ inst = None
      BY <1>2, <1>3 DEF Quiescent, TypeOK
    <2>2. \A e \in WantedOf(cr, classes) : Done(e.key, cr, classes, objects[e.key])
      BY <1>3, RestFacts
    <2>3. AllDone(seen)'
      BY <1>1, <2>1, <2>2 DEF AllDone
    <2>. QED
      BY <2>1, <2>3 DEF BehindInv
  <1>4. CASE cr' = cr
    <2>1. ASSUME seen' # None, seen' # cr PROVE AllDone(seen)'
      <3>1. seen' = seen /\ AllDone(seen) /\ (inst # None => inst = seen) /\ seen \in Instance
        BY <1>2, <2>1 DEF BehindInv, TypeOK
      <3>2. \A e \in WantedOf(seen, classes') : Done(e.key, seen, classes', objects'[e.key])
        BY <1>1, <3>1, AllDoneStays
      <3>. QED
        BY <3>1, <3>2 DEF AllDone
    <2>2. ASSUME inst' # None, inst' # cr PROVE AllDone(inst)'
      <3>1. CASE inst' = inst
        <4>1. AllDone(inst) /\ inst \in Instance
          BY <2>2, <3>1 DEF BehindInv, TypeOK
        <4>2. \A e \in WantedOf(inst, classes') : Done(e.key, inst, classes', objects'[e.key])
          BY <1>1, <4>1, AllDoneStays
        <4>. QED
          BY <3>1, <4>2 DEF AllDone
      <3>2. CASE inst' = seen /\ UNCHANGED <<cr, seen, objects>>
        <4>1. AllDone(seen)
          BY <2>2, <3>2 DEF BehindInv
        <4>. QED
          BY <1>1, <3>2, <4>1 DEF AllDone
      <3>. QED
        BY <1>2, <2>2, <3>1, <3>2
    <2>3. ASSUME inst' # None, seen' # cr PROVE inst' = seen'
      BY <1>2, <2>3 DEF BehindInv
    <2>. QED
      BY <1>4, <2>1, <2>2, <2>3 DEF BehindInv
  <1>. QED
    BY <1>3, <1>4

=============================================================================
