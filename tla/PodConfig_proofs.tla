-------------------------- MODULE PodConfig_proofs --------------------------
(***************************************************************************)
(* The proof that at rest a pod runs with the present configuration.  A    *)
(* ConfigMap and a template go together when one spec asks for both.  The  *)
(* ConfigMap of a role group always goes with its StatefulSet and its pod, *)
(* or it is the latest one and the StatefulSet is still to be written.     *)
(***************************************************************************)
EXTENDS NifiPods_proofs, AtRest_proofs

\* What spec s asks for, given the classes.
AuthFor(s, cls) == GetAuthentication(s.authentication, cls)
ConfigFor(s, cls) == NifiConfigMap(s, AuthFor(s, cls), AuthFor(s, cls))
TemplateFor(s, cls, t) ==
    \E g \in RoleGroups, git \in GitViews :
        t = Template(NifiStatefulSet(s, g, AuthFor(s, cls), git))

\* One spec asks for both the ConfigMap cm and the template t.
GoTogether(cm, t, cls) == \E s \in Specs : cm = ConfigFor(s, cls) /\ TemplateFor(s, cls, t)

\* The objects that match what the running call wants.
DoneObjects == [k \in Key |-> IF Done(k, inst, classes, objects[k])
                              THEN [owner |-> 0, body |-> 0] ELSE None]

\* cm is the ConfigMap that the spec asks for in role group g.
Latest(g, cm) == g \in cr.spec.groups /\ cm = ConfigFor(cr.spec, classes)

\* The ConfigMap of g is the latest, or goes with the StatefulSet and the pod.
ConfigMapInv(g) ==
    ConfigMapOf(g) # None =>
        \/ Latest(g, ConfigMapOf(g).body)
        \/ /\ StatefulSetOf(g) # None =>
                 GoTogether(ConfigMapOf(g).body, Template(StatefulSetOf(g).body), classes)
           /\ pods[g] # None =>
                 GoTogether(ConfigMapOf(g).body, pods[g].template, classes)

\* A rendered configuration is the latest, or goes with the template of its pod.
RenderedInv(g) ==
    pods[g] # None /\ pods[g].config # None =>
        LET c == pods[g].config
            t == pods[g].template
        IN  /\ ConfigMapOf(g) # None
            /\ c.from.login.actions \subseteq {"getenv"}
            /\ c.unset = TemplateVariables(c.from) \ (t.env \cup t.prepare.exports)
            /\ Latest(g, c.from) \/ GoTogether(c.from, t, classes)

\* The inductive invariant, together with ConvInv, UsableInv and ContentInv.
ConfigInv ==
    /\ BehindInv
    /\ pc # "idle" => Ordered(resources, DoneObjects)
    /\ \A g \in RoleGroups : ConfigMapInv(g) /\ RenderedInv(g)

-----------------------------------------------------------------------------
(***************************************************************************)
(* What the templates of a spec tell about its ConfigMap                   *)
(***************************************************************************)

\* What NifiPods_proofs says about templates, of what a spec asks for.
LEMMA TemplateForTells ==
    ASSUME NEW s, NEW cls, NEW t, TemplateFor(s, cls, t)
    PROVE  /\ Tells(t, s, AuthFor(s, cls))
           /\ TemplateVariables(ConfigFor(s, cls)) \subseteq t.env \cup t.prepare.exports
  <1>1. PICK a : a = AuthFor(s, cls)
    OBVIOUS
  <1>2. a.type \in {"none", "error", "panic", "oidc", "ldap", "static"}
    BY <1>1, AuthTypes DEF AuthFor
  <1>3. PICK g, git : t = Template(NifiStatefulSet(s, g, a, git))
    BY <1>1, Zenon DEF TemplateFor
  <1>4. PICK cm : cm = NifiConfigMap(s, a, a) /\ cm = ConfigFor(s, cls)
    BY <1>1, Zenon DEF ConfigFor
  <1>5. Tells(t, s, a)
    BY <1>2, <1>3, TemplateTellsSpec
  <1>6. TemplateVariables(cm) \subseteq t.env \cup t.prepare.exports
    BY <1>3, <1>4, VariablesFit, Zenon
  <1>. QED
    BY <1>1, <1>4, <1>5, <1>6, Zenon

\* Specs that ask for one template ask for one ConfigMap, but for the proxy host.
LEMMA SameTemplate ==
    ASSUME NEW s1, NEW s2, NEW cls, NEW t,
           TemplateFor(s1, cls, t), TemplateFor(s2, cls, t),
           ConfigFor(s1, cls).login.actions \subseteq {"getenv"}
    PROVE  SameButProxyHost(ConfigFor(s1, cls), ConfigFor(s2, cls))
  <1>1. PICK a1, a2 : a1 = AuthFor(s1, cls) /\ a2 = AuthFor(s2, cls)
    OBVIOUS
  <1>2. /\ a1.type \in {"none", "error", "panic", "oidc", "ldap", "static"}
        /\ a2.type \in {"none", "error", "panic", "oidc", "ldap", "static"}
    BY <1>1, AuthTypes DEF AuthFor
  <1>3. Tells(t, s1, a1) /\ Tells(t, s2, a2)
    BY <1>1, TemplateForTells, Zenon
  <1>4. PICK cm1, cm2 : /\ cm1 = ConfigFor(s1, cls) /\ cm2 = ConfigFor(s2, cls)
                        /\ cm1 = NifiConfigMap(s1, a1, a1) /\ cm2 = NifiConfigMap(s2, a2, a2)
    BY <1>1, Zenon DEF ConfigFor
  <1>5. cm1.login.actions \subseteq {"getenv"}
    BY <1>4
  <1>6. SameButProxyHost(cm1, cm2)
    BY <1>2, <1>3, <1>4, <1>5, TemplateTells, SMTT(30)
  <1>. QED
    BY <1>4, <1>6, Zenon

-----------------------------------------------------------------------------
(***************************************************************************)
(* The operator's steps                                                    *)
(***************************************************************************)

\* The ConfigMap and the StatefulSet that a NifiCluster wants.
LEMMA DoneBodies ==
    ASSUME NEW i \in Instance, NEW cls \in ClassMaps, NEW g \in RoleGroups, NEW obj
    PROVE  /\ Done(<<"ConfigMap", g>>, i, cls, obj) =>
                /\ obj # None /\ obj.body = ConfigFor(i.spec, cls)
                /\ g \in i.spec.groups
           /\ Done(<<"StatefulSet", g>>, i, cls, obj) =>
                obj # None /\ TemplateFor(i.spec, cls, Template(obj.body))
  <1>. DEFINE auth == GetAuthentication(i.spec.authentication, cls)
  <1>1. /\ <<"ConfigMap", g>>[1] = "ConfigMap"
        /\ <<"StatefulSet", g>>[1] = "StatefulSet" /\ <<"StatefulSet", g>>[2] = g
    OBVIOUS
  <1>2. ASSUME Done(<<"ConfigMap", g>>, i, cls, obj)
        PROVE  /\ obj # None /\ obj.body = ConfigFor(i.spec, cls)
               /\ g \in i.spec.groups
    <2>1. PICK e \in WantedOf(i, cls) :
              e.key = <<"ConfigMap", g>> /\ obj = DesiredObject(e, i, cls)
      BY <1>1, <1>2, DoneObject
    <2>2. g \in i.spec.groups /\ e = WithAuth("ConfigMap", g, auth)
      BY <2>1, WantedOfKind
    <2>3. e.key[1] = "ConfigMap" /\ e.auth = auth
      BY <2>2 DEF WithAuth
    <2>4. Body(e, i.spec, cls) = NifiConfigMap(i.spec, auth, auth)
      BY <2>3 DEF Body
    <2>. QED
      BY <2>1, <2>2, <2>4, SomethingIsNotNone DEF DesiredObject, ConfigFor, AuthFor
  <1>3. ASSUME Done(<<"StatefulSet", g>>, i, cls, obj)
        PROVE  obj # None /\ TemplateFor(i.spec, cls, Template(obj.body))
    <2>1. PICK e \in WantedOf(i, cls) :
              e.key = <<"StatefulSet", g>> /\ obj = DesiredObject(e, i, cls)
      BY <1>1, <1>3, DoneObject
    <2>2. PICK git \in NewGitSyncResources(i.spec.gitSync) :
              e = WithGit("StatefulSet", g, auth, git)
      BY <2>1, WantedOfKind
    <2>3. e.key[1] = "StatefulSet" /\ e.key[2] = g /\ e.auth = auth /\ e.git = git
      BY <2>2 DEF WithGit
    <2>4. Body(e, i.spec, cls) = NifiStatefulSet(i.spec, g, auth, git)
      BY <2>3 DEF Body
    <2>5. obj # None /\ obj.body = NifiStatefulSet(i.spec, g, auth, git)
      BY <2>1, <2>4, SomethingIsNotNone DEF DesiredObject
    <2>6. git \in GitViews
      BY WantedViews
    <2>. QED
      BY <2>5, <2>6 DEF TemplateFor, AuthFor
  <1>. QED
    BY <1>2, <1>3

\* The order holds on when more is there.
LEMMA OrderedGrows ==
    ASSUME NEW s, NEW old, NEW new, Ordered(s, old),
           \A k \in Key : old[k] # None => new[k] # None
    PROVE  Ordered(s, new)
  <1>. SUFFICES ASSUME NEW i \in 1..Len(s), NEW g \in RoleGroups,
                       s[i].key = <<"StatefulSet", g>>, NEW p \in Needs(g)
                PROVE  new[p] # None \/ \E j \in 1..(i-1) : s[j].key = p
    BY DEF Ordered
  <1>1. old[p] # None \/ \E j \in 1..(i-1) : s[j].key = p
    BY DEF Ordered
  <1>2. p \in Key
    BY NeedsAreKeys, Zenon
  <1>. QED
    BY <1>1, <1>2

\* The StatefulSet of a role group is registered behind its ConfigMap.
LEMMA RegisterOrdered ==
    ASSUME TypeOK, ConvInv, NEW g \in RoleGroups, RegisterRoleGroup(g), NEW objs,
           Ordered(resources, objs)
    PROVE  Ordered(resources', objs)
  <1>0. PICK git \in NewGitSyncResources(inst.spec.gitSync) :
            resources' = resources \o RoleGroupResources(g, CurrentAuth, git)
    BY DEF RegisterRoleGroup
  <1>. DEFINE t == RoleGroupResources(g, CurrentAuth, git)
  <1>1. resources \in Seq(Entry) /\ pc = "register" /\ resources' = resources \o t
    BY <1>0 DEF RegisterRoleGroup, TypeOK
  <1>2. CurrentAuth \in Views /\ NoAuthentication \in Views /\ git \in GitViews
    BY AuthType, GitType DEF RegisterRoleGroup, TypeOK
  <1>3. t \in Seq(Entry)
    BY <1>2, RegistrationTypes
  <1>4. ASSUME NEW p \in RbacKeys PROVE \E j \in 1..Len(resources) : resources[j].key = p
    <2>1. p \in KeysIn(registerRBACResources)
      BY RbacRegistered DEF KeysIn, EntriesIn
    <2>2. p \in KeysIn(resources)
      BY <1>1, <2>1 DEF ConvInv, RegisterInv
    <2>. QED
      BY <2>2 DEF KeysIn, EntriesIn
  <1>5. ASSUME NEW i \in 1..Len(t), NEW h \in RoleGroups, t[i].key = <<"StatefulSet", h>>,
               NEW p \in Needs(h)
        PROVE  \/ \E j \in 1..Len(resources) : resources[j].key = p
               \/ \E j \in 1..(i-1) : t[j].key = p
    <2>1. h = g /\ i = 2 /\ t[1].key = <<"ConfigMap", g>>
      <3>1. StatefulSetSecond(t, g)
        BY <1>2, RoleGroupOrder, Zenon
      <3>. HIDE DEF t
      <3>. QED
        BY <1>5, <3>1, Zenon DEF StatefulSetSecond
    <2>2. CASE p \in RbacKeys
      BY <2>2, <1>4
    <2>3. CASE p = <<"ConfigMap", g>>
      <3>1. 1 \in 1..(i-1) /\ t[1].key = p
        BY <2>1, <2>3
      <3>. QED
        BY <3>1
    <2>. QED
      BY <2>1, <2>2, <2>3 DEF Needs
  <1>. HIDE DEF t
  <1>. QED
    BY <1>1, <1>3, <1>5, AppendOrdered, Zenon

\* What is registered behind the role groups has no StatefulSet.
LEMMA FinishOrdered ==
    ASSUME TypeOK, FinishRegistration, ~inst.spec.paused, NEW objs, Ordered(resources, objs)
    PROVE  Ordered(resources', objs)
  <1>. DEFINE k == sensitiveKeyReconciler
              t == ReportingTaskResources(inst.spec, CurrentAuth)
  <1>1. resources \in Seq(Entry) /\ resources' = (resources \o k) \o t
    BY DEF FinishRegistration, TypeOK
  <1>2. inst # None /\ inst \in Instance /\ inst.spec \in Specs
    BY DEF FinishRegistration, TypeOK, Instance
  <1>3. k \in Seq(Entry) /\ t \in Seq(Entry)
    BY <1>2, AuthType, RegistrationTypes
  <1>4. \A h \in RoleGroups : /\ \A i \in 1..Len(k) : k[i].key # <<"StatefulSet", h>>
                              /\ \A i \in 1..Len(t) : t[i].key # <<"StatefulSet", h>>
    BY OthersOrdered
  <1>. HIDE DEF k, t
  <1>5. resources \o k \in Seq(Entry)
    BY <1>1, <1>3
  <1>6. Ordered(resources \o k, objs)
    BY <1>1, <1>3, <1>4, AppendOrdered, Zenon
  <1>7. Ordered((resources \o k) \o t, objs)
    BY <1>3, <1>4, <1>5, <1>6, AppendOrdered, Zenon
  <1>. QED
    BY <1>1, <1>7

\* A call comes to a StatefulSet when what its pods need matches.
LEMMA OrderStep ==
    ASSUME OnlyWatchedChanges, TypeOK, ConvInv, [Next]_vars,
           pc # "idle" => Ordered(resources, DoneObjects), pc' # "idle"
    PROVE  Ordered(resources', DoneObjects')
  <1>1. classes' = classes /\ SteadyInv /\ resources \in Seq(Entry)
    BY SteadyStep DEF ConvInv, TypeOK
  <1>2. \A k \in Key : /\ DoneObjects[k] # None => Done(k, inst, classes, objects[k])
                       /\ Done(k, inst, classes, objects[k]) => DoneObjects[k] # None
    BY SomethingIsNotNone DEF DoneObjects
  <1>3. \A k \in Key : Done(k, inst', classes, objects'[k]) => DoneObjects'[k] # None
    BY <1>1, SomethingIsNotNone DEF DoneObjects
  <1>. DEFINE old == DoneObjects
              new == DoneObjects'
  <1>4. ASSUME NEW k \in Key, inst' = inst, ~(WriteResource /\ Current.key = k)
        PROVE  old[k] # None => new[k] # None
    BY <1>1, <1>2, <1>3, <1>4, DoneStays
  <1>5. ASSUME UNCHANGED <<inst, objects>> PROVE new = old
    BY <1>1, <1>5 DEF DoneObjects
  <1>. HIDE DEF old, new
  <1>6. CASE UNCHANGED <<pc, inst, todo, resources>>
    <2>1. \A k \in Key : old[k] # None => new[k] # None
      BY <1>4, <1>6, NoWriteInPlace
    <2>2. Ordered(resources, old)
      BY <1>6 DEF old
    <2>3. Ordered(resources, new)
      BY <2>1, <2>2, OrderedGrows
    <2>. QED
      BY <1>6, <2>3 DEF new
  <1>7. CASE EndCall \/ EndReconcile
    BY <1>7, Zenon DEF EndCall, EndReconcile
  <1>8. CASE StartReconcile
    BY <1>8, RbacRegistered DEF StartReconcile
  <1>9. ASSUME NEW g \in RoleGroups, RegisterRoleGroup(g) PROVE Ordered(resources', new)
    <2>1. Ordered(resources, old) /\ new = old
      BY <1>5, <1>9 DEF RegisterRoleGroup, old
    <2>. QED
      BY <1>9, <2>1, RegisterOrdered
  <1>10. CASE FinishRegistration
    <2>1. ~inst.spec.paused /\ UNCHANGED <<inst, objects>> /\ pc = "register"
      BY <1>10 DEF FinishRegistration, EndCall
    <2>2. Ordered(resources, old) /\ new = old
      BY <1>5, <2>1 DEF old
    <2>3. Ordered(resources', new)
      BY <1>10, <2>1, <2>2, FinishOrdered
    <2>. QED
      BY <2>3 DEF new
  <1>11. CASE NextResource /\ (SkipExistingSecret \/ UpToDate \/ WriteResource)
    <2>1. Running /\ inst' = inst /\ resources' = Tail(resources) /\ pc # "idle"
      BY <1>11 DEF NextResource, SkipExistingSecret, UpToDate, WriteResource, Running
    <2>2. resources # << >> /\ Current.key \in Key /\ Current = Head(resources)
      BY <2>1, RunningType DEF Running, Current
    <2>3. Current \in WantedOf(inst, classes)
      BY <1>1, <2>1, <2>2, EntriesOfTail DEF ConvInv, CallInv
    <2>4. new[Current.key] # None
      BY <1>3, <1>11, <2>1, <2>2, <2>3, HeadDone DEF new
    <2>5. \A k \in Key : old[k] # None => new[k] # None
      BY <1>4, <2>1, <2>4
    <2>6. Ordered(resources, old)
      BY <2>1 DEF old
    <2>7. Ordered(Tail(resources), new)
      BY <1>1, <2>2, <2>4, <2>5, <2>6, TailOrdered, SMTT(30)
    <2>. QED
      BY <2>1, <2>7 DEF new
  <1>. QED
    BY <1>1, <1>6, <1>7, <1>8, <1>9, <1>10, <1>11, StepKinds, Zenon DEF new, IgnoreDeleted, local

\* What a step does to the ConfigMap and the StatefulSet of a role group: a written
\* object is what the running call wants, and a StatefulSet is written when the
\* ConfigMap is what the call wants.
LEMMA GroupStep ==
    ASSUME OnlyWatchedChanges, TypeOK, ConvInv, [Next]_vars,
           pc # "idle" => Ordered(resources, DoneObjects),
           NEW g \in RoleGroups, NEW k, k = <<"ConfigMap", g>>, NEW s, s = <<"StatefulSet", g>>
    PROVE  \/ objects'[k] = objects[k] /\ objects'[s] = objects[s]
           \/ /\ inst \in Instance /\ objects'[s] = objects[s]
              /\ Done(k, inst, classes, objects'[k])
           \/ /\ inst \in Instance /\ objects'[k] = objects[k]
              /\ Done(k, inst, classes, objects[k]) /\ Done(s, inst, classes, objects'[s])
  <1>1. k \in Key /\ s \in Key /\ k # s
    BY Keys DEF GroupKinds
  <1>2. ASSUME NEW x \in {k, s}
        PROVE  objects'[x] = objects[x] \/ (WriteResource /\ Current.key = x)
    <2>1. x[1] # "Job" /\ x # SensitiveKey /\ x # AdminSecret /\ x \in Key
      BY <1>1, SMTT(30) DEF SensitiveKey, AdminSecret, KeyOf
    <2>. QED
      BY <2>1, ObjectStep, OnlyJobsGo, Zenon DEF ConvInv
  <1>3. ASSUME WriteResource
        PROVE  /\ inst \in Instance /\ Done(Current.key, inst, classes, objects'[Current.key])
               /\ pc # "idle" /\ 1 \in 1..Len(resources) /\ resources[1] = Current
    <2>1. Running
      BY <1>3 DEF WriteResource
    <2>2. pc # "idle" /\ resources # << >> /\ resources \in Seq(Entry)
      BY <2>1 DEF Running, TypeOK
    <2>3. Current \in WantedOf(inst, classes)
      BY <2>2, EntriesOfTail DEF ConvInv, CallInv, Current
    <2>4. 1 \in 1..Len(resources) /\ resources[1] = Current
      BY <2>2 DEF Current
    <2>. QED
      BY <1>3, <2>1, <2>2, <2>3, <2>4, HeadDone, RunningType
  <1>4. CASE WriteResource /\ Current.key = s
    <2>1. Ordered(resources, DoneObjects) /\ resources[1].key = s /\ 1 \in 1..Len(resources)
      BY <1>3, <1>4
    <2>2. k \in Needs(g) /\ \A j \in 1..(1-1) : FALSE
      BY DEF Needs
    <2>3. DoneObjects[k] # None
      BY <2>1, <2>2 DEF Ordered
    <2>4. Done(k, inst, classes, objects[k])
      BY <1>1, <2>3 DEF DoneObjects
    <2>. QED
      BY <1>1, <1>2, <1>3, <1>4, <2>4, Zenon
  <1>5. CASE WriteResource /\ Current.key = k
    BY <1>1, <1>2, <1>3, <1>5, Zenon
  <1>. QED
    BY <1>2, <1>4, <1>5, Zenon

\* When the last edit has been carried out, a ConfigMap that is the latest goes with
\* the StatefulSet and the pod.
LEMMA LatestAtRest ==
    ASSUME TypeOK, ConvInv, UsableInv, Settled, NEW g \in RoleGroups, NEW cm, Latest(g, cm)
    PROVE  /\ StatefulSetOf(g) # None
           /\ GoTogether(cm, Template(StatefulSetOf(g).body), classes)
           /\ pods[g] # None => GoTogether(cm, pods[g].template, classes)
  <1>1. Quiescent /\ g \in cr.spec.groups /\ cm = ConfigFor(cr.spec, classes)
    BY DEF Settled, Latest
  <1>2. cr \in Instance /\ classes \in ClassMaps /\ cr.spec \in Specs
    BY <1>1, RestFacts DEF Instance
  <1>3. PICK git \in NewGitSyncResources(cr.spec.gitSync) :
            StatefulSetOf(g) =
                [owner |-> cr.uid, body |-> NifiStatefulSet(cr.spec, g, ClusterAuth, git)]
    BY <1>1, CarriedOutAtRest, GroupAtRest, Zenon DEF StatefulSetOf
  <1>4. git \in GitViews /\ ClusterAuth = AuthFor(cr.spec, classes)
    BY <1>2, WantedViews DEF ClusterAuth, AuthFor
  <1>5. StatefulSetOf(g) # None
          /\ StatefulSetOf(g).body = NifiStatefulSet(cr.spec, g, ClusterAuth, git)
    BY <1>3, SomethingIsNotNone
  <1>6. TemplateFor(cr.spec, classes, Template(StatefulSetOf(g).body))
    BY <1>4, <1>5 DEF TemplateFor
  <1>7. GoTogether(cm, Template(StatefulSetOf(g).body), classes)
    BY <1>1, <1>2, <1>6 DEF GoTogether
  <1>8. pods[g] # None => pods[g].template = Template(StatefulSetOf(g).body)
    BY DEF Settled, Outdated
  <1>. QED
    BY <1>5, <1>7, <1>8, Zenon

\* Steps of the operator and of its users.
LEMMA OperatorKeepsConfig ==
    ASSUME OnlyWatchedChanges, TypeOK, ConvInv, UsableInv, ConfigInv, [Next]_vars,
           pods' = pods, cr' # cr => Settled, NEW g \in RoleGroups
    PROVE  ConfigMapInv(g)' /\ RenderedInv(g)'
  <1>1. classes' = classes /\ classes \in ClassMaps /\ ConfigMapInv(g) /\ RenderedInv(g)
    BY SteadyStep DEF ConvInv, TypeOK, ConfigInv
  <1>2. CASE cr' # cr
    <2>1. UNCHANGED <<objects, pods, classes>>
      BY <1>1, <1>2, HolderStep DEF ConvInv
    <2>2. \A cm : Latest(g, cm) =>
              /\ StatefulSetOf(g) # None
              /\ GoTogether(cm, Template(StatefulSetOf(g).body), classes)
              /\ pods[g] # None => GoTogether(cm, pods[g].template, classes)
      BY <1>2, LatestAtRest, Zenon
    <2>3. ConfigMapInv(g)'
      BY <1>1, <2>1, <2>2, Zenon DEF ConfigMapInv, ConfigMapOf, StatefulSetOf
    <2>4. RenderedInv(g)'
      BY <1>1, <2>1, <2>2, Zenon DEF RenderedInv, ConfigMapOf
    <2>. QED
      BY <2>3, <2>4
  <1>3. CASE cr' = cr
    <2>0. /\ \A cm : Latest(g, cm) => Latest(g, cm)'
          /\ pc # "idle" => Ordered(resources, DoneObjects)
      BY <1>1, <1>3 DEF Latest, ConfigInv
    <2>. DEFINE k == <<"ConfigMap", g>>
                s == <<"StatefulSet", g>>
    <2>1. CASE objects'[k] = objects[k] /\ objects'[s] = objects[s]
      <3>1. ConfigMapOf(g)' = ConfigMapOf(g) /\ StatefulSetOf(g)' = StatefulSetOf(g)
        BY <2>1 DEF ConfigMapOf, StatefulSetOf
      <3>2. ConfigMapInv(g)'
        BY <1>1, <2>0, <3>1, Zenon DEF ConfigMapInv
      <3>3. RenderedInv(g)'
        BY <1>1, <2>0, <3>1, Zenon DEF RenderedInv
      <3>. QED
        BY <3>2, <3>3
    <2>2. CASE /\ inst \in Instance /\ objects'[s] = objects[s]
               /\ Done(k, inst, classes, objects'[k])
      <3>1. /\ ConfigMapOf(g)' # None /\ ConfigMapOf(g)'.body = ConfigFor(inst.spec, classes)
            /\ g \in inst.spec.groups /\ StatefulSetOf(g)' = StatefulSetOf(g)
        BY <1>1, <2>2, DoneBodies, Zenon DEF ConfigMapOf, StatefulSetOf
      <3>2. RenderedInv(g)'
        BY <1>1, <2>0, <3>1, Zenon DEF RenderedInv
      <3>3. CASE inst = cr
        <4>1. Latest(g, ConfigMapOf(g).body)'
          BY <1>1, <1>3, <3>1, <3>3 DEF Latest
        <4>. QED
          BY <3>2, <4>1 DEF ConfigMapInv
      <3>4. CASE inst # cr
        <4>1. PICK e \in WantedOf(inst, classes) : e.key = k
          BY <2>2 DEF Done
        <4>2. Done(k, inst, classes, objects[k])
          BY <2>2, <3>4, <4>1, SomethingIsNotNone, Zenon DEF ConfigInv, BehindInv, AllDone
        <4>3. ConfigMapOf(g) # None /\ ConfigMapOf(g)'.body = ConfigMapOf(g).body
          <5>1. objects[k] # None /\ objects[k].body = ConfigFor(inst.spec, classes)
            BY <1>1, <2>2, <4>2, DoneBodies, Zenon
          <5>. QED
            BY <3>1, <5>1, Zenon DEF ConfigMapOf
        <4>4. ConfigMapInv(g)'
          BY <1>1, <2>0, <3>1, <4>3, Zenon DEF ConfigMapInv
        <4>. QED
          BY <3>2, <4>4
      <3>. QED
        BY <3>3, <3>4
    <2>3. CASE /\ inst \in Instance /\ objects'[k] = objects[k]
               /\ Done(k, inst, classes, objects[k]) /\ Done(s, inst, classes, objects'[s])
      <3>1. /\ ConfigMapOf(g)' = ConfigMapOf(g) /\ ConfigMapOf(g) # None
            /\ ConfigMapOf(g).body = ConfigFor(inst.spec, classes) /\ g \in inst.spec.groups
        BY <1>1, <2>3, DoneBodies, Zenon DEF ConfigMapOf
      <3>2. /\ StatefulSetOf(g)' # None
            /\ TemplateFor(inst.spec, classes, Template(StatefulSetOf(g)'.body))
        BY <1>1, <2>3, DoneBodies, Zenon DEF StatefulSetOf
      <3>3. GoTogether(ConfigMapOf(g).body, Template(StatefulSetOf(g)'.body), classes)
        BY <2>3, <3>1, <3>2 DEF GoTogether, Instance
      <3>4. RenderedInv(g)'
        BY <1>1, <2>0, <3>1, Zenon DEF RenderedInv
      <3>5. ConfigMapInv(g)'
        BY <1>1, <2>0, <3>1, <3>3, Zenon DEF ConfigMapInv
      <3>. QED
        BY <3>4, <3>5
    <2>. HIDE DEF k, s
    <2>. QED
      BY <2>0, <2>1, <2>2, <2>3, GroupStep, Zenon DEF k, s
  <1>. QED
    BY <1>2, <1>3

-----------------------------------------------------------------------------
(***************************************************************************)
(* The pods' steps                                                         *)
(***************************************************************************)

\* Steps of the pods.
LEMMA PodsKeepConfig ==
    ASSUME ContentInv, ConfigInv, UNCHANGED operatorVars, NEW g \in RoleGroups,
           \/ \E h \in RoleGroups : Kubelet(h) \/ NifiCrashes(h) \/ Evict(h)
           \/ \E h \in RoleGroups, i \in Repositories : Fetch(h, i)
           \/ \E i \in Repositories : Push(i)
    PROVE  ConfigMapInv(g)' /\ RenderedInv(g)'
  <1>1. /\ ConfigMapOf(g)' = ConfigMapOf(g) /\ StatefulSetOf(g)' = StatefulSetOf(g)
        /\ classes' = classes /\ \A cm : Latest(g, cm) => Latest(g, cm)'
        /\ ConfigMapInv(g) /\ RenderedInv(g)
    BY Zenon DEF operatorVars, ConfigMapOf, StatefulSetOf, Latest, ConfigInv
  <1>2. CASE pods'[g] = None
    BY <1>1, <1>2, Zenon DEF ConfigMapInv, RenderedInv
  <1>3. CASE /\ pods[g] # None /\ pods'[g].template = pods[g].template
             /\ pods'[g].config = pods[g].config
    BY <1>1, <1>3, Zenon DEF ConfigMapInv, RenderedInv
  <1>4. CASE /\ StatefulSetOf(g) # None
             /\ pods'[g].template = Template(StatefulSetOf(g).body)
             /\ pods'[g].config = None
    BY <1>1, <1>4, Zenon DEF ConfigMapInv, RenderedInv
  <1>5. CASE /\ pods[g] # None /\ pods'[g].template = pods[g].template
             /\ ConfigMapOf(g) # None
             /\ Renders(ConfigMapOf(g).body, pods[g].template.prepare)
             /\ pods'[g].config = Rendered(ConfigMapOf(g).body, pods[g].template)
    <2>1. ConfigMapInv(g)'
      BY <1>1, <1>5, Zenon DEF ConfigMapInv
    <2>. DEFINE cm == ConfigMapOf(g).body
                t == pods[g].template
    <2>2. /\ pods'[g].config.from = cm /\ cm.login.actions \subseteq {"getenv"}
          /\ pods'[g].config.unset = TemplateVariables(cm) \ (t.env \cup t.prepare.exports)
      <3>1. cm.login.actions \subseteq {"getenv"}
        BY <1>5, RenderedParts, Zenon
      <3>2. Rendered(cm, t).from = cm
        BY RenderedParts, Zenon
      <3>3. Rendered(cm, t).unset = TemplateVariables(cm) \ (t.env \cup t.prepare.exports)
        BY RenderedParts, Zenon
      <3>. HIDE DEF cm, t
      <3>4. pods'[g].config = Rendered(cm, t)
        BY <1>5, Zenon DEF cm, t
      <3>. QED
        BY <3>1, <3>2, <3>3, <3>4, Zenon
    <2>3. Latest(g, cm)' \/ GoTogether(cm, t, classes)
      BY <1>1, <1>5, Zenon DEF ConfigMapInv
    <2>. QED
      BY <1>1, <1>5, <2>1, <2>2, <2>3, Zenon DEF RenderedInv
  <1>. QED
    BY <1>2, <1>3, <1>4, <1>5, PodCases, Zenon

-----------------------------------------------------------------------------
(***************************************************************************)
(* The theorem                                                             *)
(***************************************************************************)

\* The inductive step.
LEMMA ConfigStep ==
    ASSUME OnlyWatchedChanges, TypeOK, ContentInv, ConvInv, UsableInv, ConfigInv,
           [PatientNext]_allVars
    PROVE  ConvInv' /\ UsableInv' /\ ConfigInv'
  <1>1. CASE [Next]_vars /\ UNCHANGED podVars
    <2>1. pods' = pods /\ (cr' # cr => Settled) /\ (cr' # cr => Quiescent)
      BY <1>1, Zenon DEF podVars, PatientNext, allVars, vars, ConvInv, SteadyInv, Settled
    <2>2. ConvInv' /\ UsableInv'
      BY <1>1, ConvStep, UsableStep
    <2>3. BehindInv'
      BY <1>1, <2>1, BehindStep DEF ConfigInv
    <2>4. pc' # "idle" => Ordered(resources', DoneObjects')
      BY <1>1, OrderStep DEF ConfigInv
    <2>5. \A g \in RoleGroups : ConfigMapInv(g)' /\ RenderedInv(g)'
      BY <1>1, <2>1, OperatorKeepsConfig
    <2>. QED
      BY <2>2, <2>3, <2>4, <2>5 DEF ConfigInv
  <1>2. CASE \/ \E h \in RoleGroups : Kubelet(h) \/ NifiCrashes(h) \/ Evict(h)
             \/ \E h \in RoleGroups, i \in Repositories : Fetch(h, i)
             \/ \E i \in Repositories : Push(i)
    <2>1. UNCHANGED operatorVars
      BY <1>2, Zenon DEF Kubelet, CreatePod, ReplacePod, Prepare, FetchFirst, StartNifi, Fetch,
             NifiCrashes, Evict, Push, PodStep, vars, operatorVars
    <2>2. \A g \in RoleGroups : ConfigMapInv(g)' /\ RenderedInv(g)'
      BY <1>2, <2>1, PodsKeepConfig
    <2>3. UNCHANGED <<cr, seen, queued, pc, inst, todo, resources, objects, classes, uid>>
      BY <2>1 DEF operatorVars, local
    <2>4. ConvInv'
      BY <2>3, Zenon DEF ConvInv, SteadyInv, CallInv, RegisterInv, RunInv, RestInv, CurrentAuth
    <2>5. UsableInv'
      BY <2>3, SMTT(30) DEF UsableInv, CallUsable, CurrentAuth
    <2>6. BehindInv'
      BY <2>3 DEF ConfigInv, BehindInv, AllDone
    <2>7. DoneObjects' = DoneObjects
      BY <2>3 DEF DoneObjects
    <2>8. pc' # "idle" => Ordered(resources', DoneObjects')
      BY <2>3, <2>7 DEF ConfigInv
    <2>. QED
      BY <2>2, <2>4, <2>5, <2>6, <2>8 DEF ConfigInv
  <1>. QED
    BY <1>1, <1>2 DEF PatientNext, PodsNext, allVars

\* The invariants give the property.
LEMMA ConfiguredAtRest ==
    ASSUME TypeOK, ConvInv, UsableInv, ConfigInv
    PROVE  SettledPodsAreConfigured
  <1>. SUFFICES ASSUME Settled, NEW g \in RoleGroups, pods[g] # None, pods[g].config # None
                PROVE  /\ pods[g].config.unset = {}
                       /\ SameButProxyHost(pods[g].config.from, ConfigMapOf(g).body)
    BY DEF SettledPodsAreConfigured
  <1>. DEFINE c == pods[g].config
              t == pods[g].template
              cm == ConfigMapOf(g).body
  <1>1. /\ ConfigMapOf(g) # None /\ c.from.login.actions \subseteq {"getenv"}
        /\ c.unset = TemplateVariables(c.from) \ (t.env \cup t.prepare.exports)
        /\ Latest(g, c.from) \/ GoTogether(c.from, t, classes)
    BY Zenon DEF ConfigInv, RenderedInv
  <1>2. Latest(g, cm) \/ GoTogether(cm, t, classes)
    BY <1>1, Zenon DEF ConfigInv, ConfigMapInv
  <1>3. \A x : Latest(g, x) => GoTogether(x, t, classes)
    BY LatestAtRest
  <1>4. PICK s1 \in Specs : c.from = ConfigFor(s1, classes) /\ TemplateFor(s1, classes, t)
    BY <1>1, <1>3 DEF GoTogether
  <1>5. PICK s2 \in Specs : cm = ConfigFor(s2, classes) /\ TemplateFor(s2, classes, t)
    BY <1>2, <1>3 DEF GoTogether
  <1>. HIDE DEF c, t, cm
  <1>6. TemplateVariables(c.from) \subseteq t.env \cup t.prepare.exports
    BY <1>4, TemplateForTells
  <1>7. SameButProxyHost(c.from, cm)
    <2>1. ConfigFor(s1, classes).login.actions \subseteq {"getenv"}
      BY <1>1, <1>4
    <2>2. SameButProxyHost(ConfigFor(s1, classes), ConfigFor(s2, classes))
      BY <1>4, <1>5, <2>1, SameTemplate, Zenon
    <2>. QED
      BY <1>4, <1>5, <2>2
  <1>8. c.unset = {}
    BY <1>1, <1>6, Zenon
  <1>. QED
    BY <1>7, <1>8 DEF c, cm

\* For any role groups, specs, options and repositories, as long as only the
\* NifiCluster and the pods are disturbed and each edit waits until the last one has
\* been carried out: whatever the order of reconciliation and pod starts, at rest no
\* pod holds a configuration rendered from an earlier ConfigMap, except for
\* nifi.web.proxy.host, or without a variable it reads.
THEOREM PodsAreConfiguredAtRest ==
    ASSUME OnlyWatchedChanges
    PROVE  PatientSpec => []SettledPodsAreConfigured
  <1>1. PodsInit => PodsInit /\ ConvInv /\ UsableInv /\ ConfigInv
    <2>. SUFFICES ASSUME PodsInit PROVE ConvInv /\ UsableInv /\ ConfigInv
      OBVIOUS
    <2>1. Init
      BY DEF PodsInit
    <2>2. \A g \in RoleGroups : ConfigMapOf(g) = None /\ pods[g] = None
      BY <2>1, Keys, Zenon DEF PodsInit, Init, ConfigMapOf, GroupKinds
    <2>3. pc = "idle" /\ seen = None /\ inst = None
      BY <2>1 DEF Init
    <2>4. UsableInv
      BY <2>3 DEF UsableInv, CallUsable
    <2>5. ConfigInv
      BY <2>2, <2>3, Zenon DEF ConfigInv, BehindInv, ConfigMapInv, RenderedInv
    <2>. QED
      BY <2>1, <2>4, <2>5, ConvInit
  <1>2. [PatientNext]_allVars => [PodsNext]_allVars
    BY DEF PatientNext
  <1>3. /\ TypeOK /\ ContentInv /\ ConvInv /\ UsableInv /\ ConfigInv
        /\ [PatientNext]_allVars
        => ConvInv' /\ UsableInv' /\ ConfigInv'
    BY ConfigStep
  <1>4. TypeOK /\ ConvInv /\ UsableInv /\ ConfigInv => SettledPodsAreConfigured
    BY ConfiguredAtRest
  <1>. QED
    BY <1>1, <1>2, <1>3, <1>4, ContentAlways, PTL DEF PatientSpec, PodsSpec

=============================================================================
