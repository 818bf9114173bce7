------------------------- MODULE NifiOperator_proofs -------------------------
(***************************************************************************)
(* Proofs about NifiOperator, for any role groups, versions, specs,        *)
(* AuthenticationClasses, disturbances and bound on their number.          *)
(***************************************************************************)
EXTENDS NifiOperator, TLAPS

-----------------------------------------------------------------------------
(***************************************************************************)
(* Facts about the definitions                                             *)
(***************************************************************************)

\* The elements of a concatenation.
LEMMA Concatenation ==
    ASSUME NEW S, NEW s \in Seq(S), NEW t \in Seq(S)
    PROVE  /\ Len(s) \in Nat /\ Len(t) \in Nat /\ Len(s \o t) = Len(s) + Len(t)
           /\ \A x \in 1..Len(s) : (s \o t)[x] = s[x]
           /\ \A x \in 1..Len(t) : (s \o t)[Len(s) + x] = t[x]
  OBVIOUS

\* The elements of a list of three followed by another list.
LEMMA ThreeAndMore ==
    ASSUME NEW S, NEW a \in S, NEW b \in S, NEW c \in S, NEW u \in Seq(S)
    PROVE  /\ Len(<<a, b, c>> \o u) = 3 + Len(u)
           /\ (<<a, b, c>> \o u)[1] = a
           /\ (<<a, b, c>> \o u)[2] = b
           /\ (<<a, b, c>> \o u)[3] = c
           /\ \A x \in 1..Len(u) : (<<a, b, c>> \o u)[3 + x] = u[x]
  <1>. DEFINE t == <<a, b, c>>
  <1>1. t \in Seq(S) /\ Len(t) = 3 /\ t[1] = a /\ t[2] = b /\ t[3] = c
    OBVIOUS
  <1>. HIDE DEF t
  <1>2. /\ Len(t \o u) = Len(t) + Len(u)
        /\ \A x \in 1..Len(t) : (t \o u)[x] = t[x]
        /\ \A x \in 1..Len(u) : (t \o u)[Len(t) + x] = u[x]
    <2>1. t \in Seq(S)
      BY <1>1
    <2>. QED
      BY <2>1, Concatenation
  <1>3. 1 \in 1..Len(t) /\ 2 \in 1..Len(t) /\ 3 \in 1..Len(t)
    BY <1>1
  <1>4. /\ Len(t \o u) = 3 + Len(u)
        /\ (t \o u)[1] = a /\ (t \o u)[2] = b /\ (t \o u)[3] = c
    BY <1>1, <1>2, <1>3
  <1>5. \A x \in 1..Len(u) : (t \o u)[3 + x] = u[x]
    BY <1>1, <1>2
  <1>. QED
    BY <1>4, <1>5 DEF t

\* No NifiCluster and no object the operator builds is None.
LEMMA SomethingIsNotNone ==
    /\ \A i \in Instance : i # None
    /\ \A o, b : [owner |-> o, body |-> b] # None
  BY DEF Instance, None

\* The keys of the registered resources.
LEMMA Keys ==
    /\ \A kind \in RbacKinds \cup SecretKinds \cup {"ReportingService"} :
            <<kind, "cluster">> \in Key
    /\ \A kind \in GroupKinds, g \in RoleGroups : <<kind, g>> \in Key
    /\ \A v \in V1Versions : <<"Job", v>> \in Key
  BY DEF Key

\* What the reads of the AuthenticationClass return can be captured.
LEMMA AuthType ==
    ASSUME TypeOK, inst # None
    PROVE  CurrentAuth \in Views /\ NoAuthentication \in Views
  BY DEF TypeOK, Instance, CurrentAuth, Views

\* So can the git-sync resources.
LEMMA GitType ==
    ASSUME TypeOK, inst # None
    PROVE  NewGitSyncResources(inst.spec.gitSync) \subseteq GitViews
  BY DEF TypeOK, Instance, GitViews

\* Every registration list is a list of entries.
LEMMA RegistrationTypes ==
    ASSUME NoAuthentication \in Views
    PROVE  /\ registerRBACResources \in Seq(Entry)
           /\ sensitiveKeyReconciler \in Seq(Entry)
           /\ \A g \in RoleGroups, auth \in Views, git \in GitViews :
                  RoleGroupResources(g, auth, git) \in Seq(Entry)
           /\ \A spec \in Specs, auth \in Views :
                  ReportingTaskResources(spec, auth) \in Seq(Entry)
  <1>1. \A kind \in RbacKinds \cup SecretKinds \cup {"ReportingService"} :
            Plain(kind, "cluster") \in Entry
    BY Keys DEF Plain, Entry, GitViews
  <1>2. \A kind \in GroupKinds, g \in RoleGroups, auth \in Views, git \in GitViews :
            /\ WithAuth(kind, g, auth) \in Entry
            /\ WithGit(kind, g, auth, git) \in Entry
            /\ Plain(kind, g) \in Entry
    BY Keys DEF Plain, WithAuth, WithGit, Entry, GitViews
  <1>3. registerRBACResources \in Seq(Entry) /\ sensitiveKeyReconciler \in Seq(Entry)
    BY <1>1 DEF registerRBACResources, sensitiveKeyReconciler, RbacKinds, SecretKinds
  <1>4. ASSUME NEW g \in RoleGroups, NEW auth \in Views, NEW git \in GitViews
        PROVE  RoleGroupResources(g, auth, git) \in Seq(Entry)
    <2>1. AdminSecretResources(auth) \in Seq(Entry)
      BY <1>1 DEF AdminSecretResources, SecretKinds
    <2>2. << WithAuth("ConfigMap", g, auth), WithGit("StatefulSet", g, auth, git),
             Plain("Service", g) >> \in Seq(Entry)
      BY <1>2 DEF GroupKinds
    <2>. QED
      BY <2>1, <2>2 DEF RoleGroupResources
  <1>5. ASSUME NEW spec \in Specs, NEW auth \in Views
        PROVE  ReportingTaskResources(spec, auth) \in Seq(Entry)
    <2>1. CASE WantsReportingTask(spec)
      <3>1. WithAuth("Job", spec.version, auth) \in Entry
        BY <2>1, Keys DEF WantsReportingTask, IsV1, WithAuth, Entry, GitViews
      <3>. QED
        BY <2>1, <3>1, <1>1 DEF ReportingTaskResources
    <2>2. CASE ~WantsReportingTask(spec)
      BY <2>2 DEF ReportingTaskResources
    <2>. QED
      BY <2>1, <2>2
  <1>. QED
    BY <1>3, <1>4, <1>5

-----------------------------------------------------------------------------
(***************************************************************************)
(* Type correctness                                                        *)
(***************************************************************************)

\* One step of the specification, split into its actions.
LEMMA NextCases ==
    ASSUME Next
    PROVE  \/ IgnoreDeleted \/ StartReconcile \/ RegisterRoleGroupError
           \/ FinishRegistration \/ FinishRegistrationError
           \/ Forbidden \/ SkipExistingSecret \/ AdminItemError \/ MissingKeyError \/ BuildError
           \/ UpToDate \/ JobUpdateRejected \/ WriteResource \/ EndReconcile
           \/ WatchEvent \/ Resync
           \/ DeleteCluster \/ ProvideKey \/ ProvideAdminSecret \/ ApiError \/ Restart
           \/ UpdateGrants
           \/ \E g \in RoleGroups : RegisterRoleGroup(g)
           \/ \E k \in Key : GarbageCollect(k) \/ DeleteObject(k)
           \/ \E v \in V1Versions : JobExpires(v)
           \/ \E x \in Specs : EditSpec(x) \/ CreateCluster(x)
           \/ \E c \in AuthClasses, p \in NewProviders : EditClass(c, p)
  BY DEF Next, Reconcile, Environment

\* A disturbance uses up budget.
LEMMA DisturbType ==
    ASSUME TypeOK, NEW kind, Disturb(kind)
    PROVE  budget' \in Nat
  BY DEF TypeOK, Disturb

\* Steps that end the call leave its local state typed.
LEMMA EndCallType ==
    ASSUME EndCall
    PROVE  /\ pc' = "idle" /\ inst' = None
           /\ todo' \in SUBSET RoleGroups
           /\ resources' \in Seq(Entry)
  BY DEF EndCall

\* The head of the registered resources names an object, the tail is typed.
LEMMA RunningType ==
    ASSUME TypeOK, Running
    PROVE  /\ inst \in Instance /\ inst # None /\ inst.uid \in 1..uid
           /\ Current \in Entry
           /\ Current.key \in Key
           /\ Tail(resources) \in Seq(Entry)
  <1>1. inst # None
    BY DEF TypeOK, Running
  <1>2. inst \in Instance /\ inst.uid \in 1..uid
    BY <1>1 DEF TypeOK
  <1>3. Current \in Entry /\ Tail(resources) \in Seq(Entry)
    BY DEF TypeOK, Running, Current
  <1>. QED
    BY <1>1, <1>2, <1>3 DEF Entry

\* A step that ends the call or goes on to the next resource and writes nothing.
LEMMA ReadOnlyStepType ==
    ASSUME TypeOK, Running, EndCall \/ NextResource,
           queued' \in BOOLEAN,
           UNCHANGED <<cr, seen, objects, classes, granted, uid, budget>>
    PROVE  TypeOK'
  <1>1. CASE EndCall
    BY <1>1, EndCallType DEF TypeOK
  <1>2. CASE NextResource
    BY <1>2, RunningType DEF NextResource, TypeOK
  <1>. QED
    BY <1>1, <1>2

\* Writing the object of the current entry keeps the objects typed.
LEMMA WriteType ==
    ASSUME TypeOK, Running,
           objects' = [objects EXCEPT ![Current.key] = Desired]
    PROVE  /\ DOMAIN objects' = Key
           /\ \A k \in Key : objects'[k] # None =>
                 objects'[k].owner \in (IF k[1] \in SecretKinds THEN 0..uid ELSE 1..uid)
  <1>1. Desired.owner \in 1..uid /\ Desired.owner \in 0..uid
    BY RunningType DEF Desired, DesiredObject, TypeOK
  <1>. QED
    BY <1>1, RunningType DEF TypeOK

\* Removing an object keeps the objects typed.
LEMMA RemoveType ==
    ASSUME TypeOK, NEW k \in Key, objects' = [objects EXCEPT ![k] = None]
    PROVE  /\ DOMAIN objects' = Key
           /\ \A x \in Key : objects'[x] # None =>
                 objects'[x].owner \in (IF x[1] \in SecretKinds THEN 0..uid ELSE 1..uid)
  BY DEF TypeOK

\* What a step may do to an object: write what the current reconciler wants, remove
\* it, or make a user's secret where there was none.
LEMMA ObjectStep ==
    ASSUME TypeOK, [Next]_vars, NEW k \in Key
    PROVE  \/ objects'[k] = objects[k]
           \/ WriteResource /\ Current.key = k /\ objects'[k] = Desired
           \/ /\ objects[k] # None /\ objects'[k] = None
              /\ GarbageCollect(k) \/ DeleteObject(k) \/ k[1] = "Job"
           \/ k = SensitiveKey /\ ProvideKey /\ objects[k] = None
                /\ objects'[k] = [owner |-> 0, body |-> "key"]
           \/ k = AdminSecret /\ ProvideAdminSecret /\ objects[k] = None
                /\ objects'[k] = [owner |-> 0, body |-> "no item"]
  <1>1. DOMAIN objects = Key
    BY DEF TypeOK
  <1>2. CASE UNCHANGED objects
    BY <1>2
  <1>3. CASE WriteResource
    <2>1. objects' = [objects EXCEPT ![Current.key] = Desired]
      BY <1>3 DEF WriteResource
    <2>. QED
      BY <1>1, <1>3, <2>1
  <1>4. CASE \E x \in Key : GarbageCollect(x) \/ DeleteObject(x)
    <2>1. PICK x \in Key : /\ objects[x] # None /\ objects' = [objects EXCEPT ![x] = None]
                           /\ GarbageCollect(x) \/ DeleteObject(x)
      BY <1>4 DEF GarbageCollect, DeleteObject
    <2>. QED
      BY <1>1, <2>1
  <1>5. CASE \E v \in V1Versions : JobExpires(v)
    <2>1. PICK v : /\ objects[<<"Job", v>>] # None
                   /\ objects' = [objects EXCEPT ![<<"Job", v>>] = None]
      BY <1>5 DEF JobExpires
    <2>2. <<"Job", v>>[1] = "Job"
      OBVIOUS
    <2>. QED
      BY <1>1, <2>1, <2>2
  <1>6. CASE ProvideKey
    <2>1. /\ objects[SensitiveKey] = None
          /\ objects' = [objects EXCEPT ![SensitiveKey] = [owner |-> 0, body |-> "key"]]
      BY <1>6 DEF ProvideKey
    <2>. QED
      BY <1>1, <1>6, <2>1
  <1>7. CASE ProvideAdminSecret
    <2>1. /\ objects[AdminSecret] = None
          /\ objects' = [objects EXCEPT ![AdminSecret] = [owner |-> 0, body |-> "no item"]]
      BY <1>7 DEF ProvideAdminSecret
    <2>. QED
      BY <1>1, <1>7, <2>1
  <1>8. CASE \/ IgnoreDeleted \/ StartReconcile \/ RegisterRoleGroupError
             \/ FinishRegistration \/ FinishRegistrationError \/ Forbidden
             \/ SkipExistingSecret \/ AdminItemError \/ MissingKeyError \/ BuildError
             \/ UpToDate \/ JobUpdateRejected \/ EndReconcile \/ WatchEvent \/ Resync
    BY <1>2, <1>8 DEF IgnoreDeleted, StartReconcile, RegisterRoleGroupError,
         FinishRegistration, FinishRegistrationError, Forbidden, SkipExistingSecret,
         AdminItemError, MissingKeyError, BuildError, UpToDate, JobUpdateRejected,
         EndReconcile, WatchEvent, Resync
  <1>9. CASE \/ DeleteCluster \/ UpdateGrants \/ ApiError \/ Restart \/ UNCHANGED vars
             \/ \E h \in RoleGroups : RegisterRoleGroup(h)
             \/ \E x \in Specs : EditSpec(x) \/ CreateCluster(x)
             \/ \E c \in AuthClasses, p \in NewProviders : EditClass(c, p)
    BY <1>2, <1>9 DEF DeleteCluster, UpdateGrants, ApiError, Restart, vars,
                      RegisterRoleGroup, EditSpec, CreateCluster, EditClass
  <1>. QED
    BY <1>3, <1>4, <1>5, <1>6, <1>7, <1>8, <1>9, NextCases

\* The initial states are well typed.
LEMMA TypeInit == Init => TypeOK
  <1>. SUFFICES ASSUME Init PROVE TypeOK
    OBVIOUS
  <1>1. cr \in Instance /\ cr.uid = 1
    BY DEF Init, Instance
  <1>2. DOMAIN objects = Key /\ \A k \in Key : objects[k] = None
    BY DEF Init
  <1>3. classes \in ClassMaps /\ resources \in Seq(Entry)
    BY OperatorAssumption DEF Init, ClassMaps
  <1>6. granted \subseteq ApiResources
    BY OperatorAssumption DEF Init
  <1>4. \A i \in {cr, seen, inst} : i # None => i.uid \in 1..uid
    BY <1>1 DEF Init
  <1>5. uid \in Nat /\ budget \in Nat /\ queued \in BOOLEAN /\ pc = "idle" /\ inst = None
          /\ seen = None /\ todo = {}
    BY OperatorAssumption DEF Init
  <1>. QED
    BY <1>1, <1>2, <1>3, <1>4, <1>5, <1>6 DEF TypeOK

\* Every step keeps them so.
LEMMA TypeStep ==
    ASSUME TypeOK, [Next]_vars
    PROVE  TypeOK'
  <1>1. CASE IgnoreDeleted
    BY <1>1 DEF IgnoreDeleted, local, TypeOK
  <1>2. CASE StartReconcile
    <2>1. seen \in Instance /\ seen # None /\ seen.spec \in NifiClusterSpec
      BY <1>2, OperatorAssumption DEF StartReconcile, TypeOK, Instance
    <2>2. seen.spec.groups \in SUBSET RoleGroups
      BY <2>1 DEF NifiClusterSpec
    <2>3. registerRBACResources \in Seq(Entry)
      BY RegistrationTypes DEF Views
    <2>. QED
      BY <1>2, <2>1, <2>2, <2>3 DEF StartReconcile, TypeOK
  <1>3. ASSUME NEW g \in RoleGroups, RegisterRoleGroup(g) PROVE TypeOK'
    <2>1. inst # None
      BY <1>3 DEF RegisterRoleGroup, TypeOK
    <2>2. \A git \in NewGitSyncResources(inst.spec.gitSync) :
              RoleGroupResources(g, CurrentAuth, git) \in Seq(Entry)
      BY <2>1, AuthType, GitType, RegistrationTypes
    <2>3. resources' \in Seq(Entry)
      BY <1>3, <2>2 DEF RegisterRoleGroup, TypeOK
    <2>. QED
      BY <1>3, <2>3 DEF RegisterRoleGroup, TypeOK
  <1>4. CASE RegisterRoleGroupError \/ FinishRegistrationError \/ Forbidden \/ ApiError
    <2>1. EndCall /\ queued' = TRUE /\ UNCHANGED <<cr, seen, objects, classes, granted, uid>>
      BY <1>4 DEF RegisterRoleGroupError, FinishRegistrationError, Forbidden, ApiError,
                  RequeueWithError
    <2>2. budget' \in Nat
      BY <1>4, DisturbType DEF RegisterRoleGroupError, FinishRegistrationError, Forbidden,
                               ApiError, TypeOK
    <2>. QED
      BY <2>1, <2>2, EndCallType DEF TypeOK
  <1>5. CASE FinishRegistration
    <2>1. CASE inst.spec.paused
      BY <1>5, <2>1, EndCallType DEF FinishRegistration, TypeOK
    <2>2. CASE ~inst.spec.paused
      <3>1. inst # None /\ inst \in Instance /\ inst.spec \in Specs
        BY <1>5 DEF FinishRegistration, TypeOK, Instance
      <3>2. /\ sensitiveKeyReconciler \in Seq(Entry)
            /\ ReportingTaskResources(inst.spec, CurrentAuth) \in Seq(Entry)
        BY <3>1, AuthType, RegistrationTypes
      <3>3. resources' \in Seq(Entry)
        <4>1. resources \in Seq(Entry)
          BY DEF TypeOK
        <4>2. resources' = resources \o sensitiveKeyReconciler
                             \o ReportingTaskResources(inst.spec, CurrentAuth)
          BY <1>5, <2>2 DEF FinishRegistration
        <4>. QED
          BY <4>1, <4>2, <3>2
      <3>. QED
        BY <1>5, <2>2, <3>1, <3>3 DEF FinishRegistration, TypeOK
    <2>. QED
      BY <2>1, <2>2
  <1>6. CASE SkipExistingSecret \/ UpToDate
    BY <1>6, ReadOnlyStepType DEF SkipExistingSecret, UpToDate, NextResource, TypeOK
  <1>7. CASE AdminItemError \/ MissingKeyError \/ BuildError \/ JobUpdateRejected
    BY <1>7, ReadOnlyStepType DEF AdminItemError, MissingKeyError, BuildError,
                                  JobUpdateRejected, RequeueWithError
  <1>8. CASE WriteResource
    <2>1. CASE EndCall /\ queued' = TRUE
      BY <1>8, <2>1, WriteType, EndCallType DEF WriteResource, TypeOK
    <2>2. CASE NextResource
      BY <1>8, <2>2, WriteType, RunningType DEF WriteResource, NextResource, TypeOK
    <2>. QED
      BY <1>8, <2>1, <2>2 DEF WriteResource
  <1>9. CASE EndReconcile
    BY <1>9, EndCallType DEF EndReconcile, TypeOK
  <1>10. CASE WatchEvent \/ Resync
    BY <1>10 DEF WatchEvent, Resync, local, TypeOK
  <1>11. ASSUME NEW k \in Key, GarbageCollect(k) \/ DeleteObject(k) PROVE TypeOK'
    <2>1. budget' \in Nat
      BY <1>11, DisturbType DEF GarbageCollect, DeleteObject, TypeOK
    <2>2. /\ objects' = [objects EXCEPT ![k] = None]
          /\ UNCHANGED <<cr, seen, queued, pc, inst, todo, resources, classes, granted, uid>>
      BY <1>11 DEF GarbageCollect, DeleteObject, local
    <2>. QED
      BY <2>1, <2>2, RemoveType DEF TypeOK
  <1>12. ASSUME NEW v \in V1Versions, JobExpires(v) PROVE TypeOK'
    BY <1>12, Keys, RemoveType DEF JobExpires, local, TypeOK
  <1>13. ASSUME NEW x \in Specs, EditSpec(x) PROVE TypeOK'
    <2>1. cr' \in Instance /\ cr'.uid = cr.uid
      BY <1>13 DEF EditSpec, TypeOK, Instance
    <2>. QED
      BY <1>13, <2>1 DEF EditSpec, Disturb, local, TypeOK
  <1>14. ASSUME NEW x \in Specs, CreateCluster(x) PROVE TypeOK'
    <2>1. cr' \in Instance /\ cr'.uid = uid' /\ uid' = uid + 1 /\ uid \in Nat
      BY <1>14 DEF CreateCluster, TypeOK, Instance
    <2>2. 0..uid \subseteq 0..uid' /\ 1..uid \subseteq 1..uid' /\ uid' \in 1..uid'
      BY <2>1
    <2>3. /\ UNCHANGED <<seen, queued, pc, inst, todo, resources, objects, classes, granted>>
          /\ budget' \in Nat
      BY <1>14, DisturbType DEF CreateCluster, local
    <2>4. \A i \in {cr, seen, inst}' : i # None => i.uid \in 1..uid'
      BY <2>1, <2>2, <2>3 DEF TypeOK
    <2>5. \A k \in Key : objects'[k] # None =>
            objects'[k].owner \in (IF k[1] \in SecretKinds THEN 0..uid' ELSE 1..uid')
      BY <2>2, <2>3 DEF TypeOK
    <2>. QED
      BY <2>1, <2>3, <2>4, <2>5 DEF TypeOK
  <1>15. CASE DeleteCluster
    BY <1>15 DEF DeleteCluster, Disturb, local, TypeOK
  <1>16. ASSUME NEW c \in AuthClasses, NEW p \in NewProviders, EditClass(c, p)
         PROVE  TypeOK'
    BY <1>16, OperatorAssumption DEF EditClass, Disturb, local, ClassMaps, TypeOK
  <1>17. CASE ProvideKey \/ ProvideAdminSecret
    <2>1. budget' \in Nat /\ uid \in Nat
      BY <1>17, DisturbType DEF ProvideKey, ProvideAdminSecret, TypeOK
    <2>2. 0 \in 0..uid
      BY <2>1
    <2>3. SensitiveKey[1] \in SecretKinds /\ AdminSecret[1] \in SecretKinds
      BY DEF SensitiveKey, AdminSecret, KeyOf, SecretKinds
    <2>4. PICK k \in {SensitiveKey, AdminSecret}, b \in {"key", "no item"} :
              /\ objects' = [objects EXCEPT ![k] = [owner |-> 0, body |-> b]]
              /\ UNCHANGED <<cr, seen, queued, pc, inst, todo, resources, classes, granted, uid>>
      BY <1>17 DEF ProvideKey, ProvideAdminSecret, local
    <2>5. k[1] \in SecretKinds
      BY <2>3, <2>4
    <2>. QED
      BY <2>1, <2>2, <2>4, <2>5 DEF TypeOK
  <1>18. CASE Restart
    BY <1>18, EndCallType DEF Restart, Disturb, TypeOK
  <1>19. CASE UpdateGrants
    BY <1>19 DEF UpdateGrants, Disturb, local, MarkerGrants, TypeOK
  <1>20. CASE UNCHANGED vars
    BY <1>20 DEF vars, local, TypeOK
  <1>. QED
    BY <1>1, <1>2, <1>3, <1>4, <1>5, <1>6, <1>7, <1>8, <1>9, <1>10, <1>11, <1>12,
       <1>13, <1>14, <1>15, <1>16, <1>17, <1>18, <1>20, <1>19, NextCases

\* Every reachable state is well typed: in particular every object is owned by a
\* NifiCluster that exists or existed, which is what its garbage collection needs.
THEOREM TypeCorrect == Spec => []TypeOK
  <1>1. TypeOK /\ [Next]_vars => TypeOK'
    BY TypeStep
  <1>. QED
    BY <1>1, TypeInit, PTL DEF Spec

=============================================================================
