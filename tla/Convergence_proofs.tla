------------------------- MODULE Convergence_proofs -------------------------
(***************************************************************************)
(* The proof that the operator comes to rest only when the objects are     *)
(* what the spec asks for.  A call keeps account of every wanted object:   *)
(* it is still in the list of reconcilers to run, or it matches.  A call   *)
(* that ends early leaves a request behind.  When a NifiCluster newer than *)
(* the one the call works on arrives, so does a request.                   *)
(***************************************************************************)
EXTENDS NifiOperator_proofs

\* Nobody deletes objects or the NifiCluster, edits AuthenticationClasses or makes
\* an incomplete admin secret: none of these is an event on the NifiCluster.
OnlyWatchedChanges ==
    /\ "drift" \notin Disturbances /\ "delete" \notin Disturbances
    /\ "class" \notin Disturbances /\ "admin" \notin Disturbances

\* The entries wanted for the NifiCluster i, given the classes.
WantedOf(i, cls) == WantedEntries(i.spec, GetAuthentication(i.spec.authentication, cls))

\* The object obj is what entry e asks for on behalf of i.
MatchedBy(e, i, cls, obj) ==
    CASE e.key[1] \in SecretKinds -> obj # None
      [] e.key[1] = "Job" -> obj = None \/ obj = DesiredObject(e, i, cls)
      [] OTHER -> obj = DesiredObject(e, i, cls)

\* The object obj under key k matches one of the entries for k.
Done(k, i, cls, obj) == \E e \in WantedOf(i, cls) : e.key = k /\ MatchedBy(e, i, cls, obj)

KeysIn(s) == {e.key : e \in EntriesIn(s)}

\* The keys of a role group's resources.
GroupKeys(g, auth) ==
    {<<kind, g>> : kind \in GroupKinds}
      \cup {k \in {AdminSecret} : auth.type = "ldap"}

\* The running call works on what is wanted, and on the latest NifiCluster unless a
\* request waits.
CallInv ==
    pc # "idle" =>
        /\ todo \subseteq inst.spec.groups
        /\ EntriesIn(resources) \subseteq WantedOf(inst, classes)
        /\ ~queued => inst = seen

\* Everything of the role groups registered so far is in the list.
RegisterInv ==
    pc = "register" =>
        /\ KeysIn(registerRBACResources) \subseteq KeysIn(resources)
        /\ \A g \in inst.spec.groups \ todo :
                GroupKeys(g, CurrentAuth) \subseteq KeysIn(resources)

\* Every wanted object is still to come or matches.
RunInv ==
    pc = "run" =>
        \A e \in WantedOf(inst, classes) :
            e.key \in KeysIn(resources) \/ Done(e.key, inst, classes, objects[e.key])

\* Between calls, without a request, everything matches the cached NifiCluster.
RestInv ==
    pc = "idle" /\ ~queued /\ seen # None /\ ~seen.spec.paused =>
        \A e \in WantedOf(seen, classes) : Done(e.key, seen, classes, objects[e.key])

\* There is one NifiCluster, and every secret has its item.
SteadyInv ==
    /\ cr # None /\ uid = 1
    /\ \A k \in Key : k[1] \in SecretKinds /\ objects[k] # None => objects[k].body # "no item"

\* The inductive invariant.
ConvInv == SteadyInv /\ CallInv /\ RegisterInv /\ RunInv /\ RestInv

-----------------------------------------------------------------------------
(***************************************************************************)
(* Lists of entries as sets                                                *)
(***************************************************************************)

\* The entries of a concatenation.
LEMMA EntriesOfConcatenation ==
    ASSUME NEW S, NEW s \in Seq(S), NEW t \in Seq(S)
    PROVE  EntriesIn(s \o t) = EntriesIn(s) \cup EntriesIn(t)
  <1>1. /\ Len(s) \in Nat /\ Len(t) \in Nat /\ Len(s \o t) = Len(s) + Len(t)
        /\ \A x \in 1..Len(s) : (s \o t)[x] = s[x]
        /\ \A x \in 1..Len(t) : (s \o t)[Len(s) + x] = t[x]
    BY Concatenation
  <1>2. ASSUME NEW x \in 1..Len(s \o t)
        PROVE  (s \o t)[x] \in EntriesIn(s) \cup EntriesIn(t)
    <2>1. CASE x \in 1..Len(s)
      BY <1>1, <2>1 DEF EntriesIn
    <2>2. CASE x \notin 1..Len(s)
      <3>1. x - Len(s) \in 1..Len(t) /\ Len(s) + (x - Len(s)) = x
        BY <1>1, <2>2
      <3>. QED
        BY <1>1, <3>1 DEF EntriesIn
    <2>. QED
      BY <2>1, <2>2
  <1>3. \A x \in 1..Len(s) : x \in 1..Len(s \o t)
    BY <1>1
  <1>4. \A x \in 1..Len(t) : Len(s) + x \in 1..Len(s \o t)
    BY <1>1
  <1>5. EntriesIn(s) \subseteq EntriesIn(s \o t)
    BY <1>1, <1>3 DEF EntriesIn
  <1>6. EntriesIn(t) \subseteq EntriesIn(s \o t)
    <2>. SUFFICES ASSUME NEW x \in 1..Len(t) PROVE t[x] \in EntriesIn(s \o t)
      BY DEF EntriesIn
    <2>1. Len(s) + x \in 1..Len(s \o t) /\ (s \o t)[Len(s) + x] = t[x]
      BY <1>1, <1>4
    <2>. QED
      BY <2>1 DEF EntriesIn
  <1>7. EntriesIn(s \o t) \subseteq EntriesIn(s) \cup EntriesIn(t)
    BY <1>2 DEF EntriesIn
  <1>. QED
    BY <1>5, <1>6, <1>7

\* The entries of a list are its head and those of its tail.
LEMMA EntriesOfTail ==
    ASSUME NEW S, NEW s \in Seq(S), s # << >>
    PROVE  EntriesIn(s) = {Head(s)} \cup EntriesIn(Tail(s))
  <1>1. /\ Len(s) \in Nat /\ Len(s) > 0 /\ Len(Tail(s)) = Len(s) - 1
        /\ Head(s) = s[1]
        /\ \A x \in 1..Len(Tail(s)) : Tail(s)[x] = s[x+1]
    OBVIOUS
  <1>2. \A x \in 1..Len(s) : x = 1 \/ (x - 1 \in 1..Len(Tail(s)) /\ x = (x - 1) + 1)
    BY <1>1
  <1>3. \A x \in 1..Len(Tail(s)) : x + 1 \in 1..Len(s)
    BY <1>1
  <1>4. 1 \in 1..Len(s)
    BY <1>1
  <1>5. ASSUME NEW x \in 1..Len(s) PROVE s[x] \in {Head(s)} \cup EntriesIn(Tail(s))
    <2>1. CASE x = 1
      BY <1>1, <2>1
    <2>2. CASE x # 1
      <3>1. x - 1 \in 1..Len(Tail(s)) /\ Tail(s)[x - 1] = s[x]
        BY <1>1, <1>2, <2>2
      <3>. QED
        BY <3>1 DEF EntriesIn
    <2>. QED
      BY <2>1, <2>2
  <1>6. Head(s) \in EntriesIn(s)
    BY <1>1, <1>4 DEF EntriesIn
  <1>7. ASSUME NEW x \in 1..Len(Tail(s)) PROVE Tail(s)[x] \in EntriesIn(s)
    BY <1>1, <1>3 DEF EntriesIn
  <1>. QED
    BY <1>5, <1>6, <1>7 DEF EntriesIn

\* The entries of short lists.
LEMMA EntriesOfShortLists ==
    /\ EntriesIn(<< >>) = {}
    /\ \A a : EntriesIn(<<a>>) = {a}
    /\ \A a, b : EntriesIn(<<a, b>>) = {a, b}
    /\ \A a, b, c : EntriesIn(<<a, b, c>>) = {a, b, c}
  <1>1. 1..0 = {} /\ 1..1 = {1} /\ 1..2 = {1, 2} /\ 1..3 = {1, 2, 3}
    OBVIOUS
  <1>2. EntriesIn(<< >>) = {}
    BY DEF EntriesIn
  <1>3. \A a : EntriesIn(<<a>>) = {a}
    BY <1>1 DEF EntriesIn
  <1>4. \A a, b : EntriesIn(<<a, b>>) = {a, b}
    BY <1>1 DEF EntriesIn
  <1>5. \A a, b, c : EntriesIn(<<a, b, c>>) = {a, b, c}
    BY <1>1 DEF EntriesIn
  <1>. QED
    BY <1>2, <1>3, <1>4, <1>5

-----------------------------------------------------------------------------
(***************************************************************************)
(* The wanted entries                                                      *)
(***************************************************************************)

\* What can be read on behalf of a NifiCluster.
LEMMA WantedViews ==
    ASSUME NEW i \in Instance, NEW cls \in ClassMaps
    PROVE  /\ i.spec \in Specs /\ i.spec.groups \subseteq RoleGroups
           /\ GetAuthentication(i.spec.authentication, cls) \in Views
           /\ NoAuthentication \in Views
           /\ NewGitSyncResources(i.spec.gitSync) \subseteq GitViews
  <1>1. i.spec \in Specs
    BY DEF Instance
  <1>2. i.spec.groups \subseteq RoleGroups
    BY <1>1, OperatorAssumption DEF NifiClusterSpec
  <1>. QED
    BY <1>1, <1>2 DEF Views, GitViews

\* The parts of the wanted entries.
LEMMA WantedCases ==
    ASSUME NEW spec, NEW auth, NEW e
    PROVE  e \in WantedEntries(spec, auth) <=>
             \/ e \in EntriesIn(registerRBACResources)
             \/ e \in EntriesIn(sensitiveKeyReconciler)
             \/ e \in EntriesIn(ReportingTaskResources(spec, auth))
             \/ \E g \in spec.groups, git \in NewGitSyncResources(spec.gitSync) :
                   e \in EntriesIn(RoleGroupResources(g, auth, git))
  <1>. DEFINE F(g, git) == EntriesIn(RoleGroupResources(g, auth, git))
              Groups == UNION {F(g, git) : g \in spec.groups,
                                           git \in NewGitSyncResources(spec.gitSync)}
  <1>1. WantedEntries(spec, auth) =
            EntriesIn(registerRBACResources) \cup EntriesIn(sensitiveKeyReconciler)
              \cup EntriesIn(ReportingTaskResources(spec, auth)) \cup Groups
    BY DEF WantedEntries
  <1>. HIDE DEF F
  <1>2. e \in Groups <=> \E g \in spec.groups, git \in NewGitSyncResources(spec.gitSync) :
                            e \in F(g, git)
    OBVIOUS
  <1>. HIDE DEF Groups
  <1>. QED
    BY <1>1, <1>2 DEF F

\* The wanted entries are entries.
LEMMA WantedAreEntries ==
    ASSUME NEW i \in Instance, NEW cls \in ClassMaps
    PROVE  WantedOf(i, cls) \subseteq Entry
  <1>. DEFINE auth == GetAuthentication(i.spec.authentication, cls)
  <1>1. \A s \in Seq(Entry) : EntriesIn(s) \subseteq Entry
    BY DEF EntriesIn
  <1>2. i.spec \in Specs /\ i.spec.groups \subseteq RoleGroups /\ auth \in Views
          /\ NoAuthentication \in Views /\ NewGitSyncResources(i.spec.gitSync) \subseteq GitViews
    BY WantedViews
  <1>. HIDE DEF auth
  <1>3. /\ registerRBACResources \in Seq(Entry) /\ sensitiveKeyReconciler \in Seq(Entry)
        /\ ReportingTaskResources(i.spec, auth) \in Seq(Entry)
        /\ \A g \in i.spec.groups, git \in NewGitSyncResources(i.spec.gitSync) :
              RoleGroupResources(g, auth, git) \in Seq(Entry)
    BY <1>2, RegistrationTypes
  <1>4. WantedEntries(i.spec, auth) \subseteq Entry
    BY <1>1, <1>3, WantedCases
  <1>. QED
    BY <1>4 DEF WantedOf, auth

\* A role group's resources are its ConfigMap, StatefulSet and Service, and for LDAP
\* the admin secret.
LEMMA GroupEntries ==
    ASSUME NEW g \in RoleGroups, NEW auth \in Views, NEW git \in GitViews,
           NoAuthentication \in Views
    PROVE  EntriesIn(RoleGroupResources(g, auth, git)) =
             {WithAuth("ConfigMap", g, auth), WithGit("StatefulSet", g, auth, git),
              Plain("Service", g)}
               \cup {e \in {Plain("AdminSecret", "cluster")} : auth.type = "ldap"}
  <1>. DEFINE a == WithAuth("ConfigMap", g, auth)
              b == WithGit("StatefulSet", g, auth, git)
              c == Plain("Service", g)
              t == <<a, b, c>>
              u == AdminSecretResources(auth)
  <1>1. a \in Entry /\ b \in Entry /\ c \in Entry
    BY Keys DEF WithAuth, WithGit, Plain, Entry, GroupKinds, GitViews
  <1>2. Plain("AdminSecret", "cluster") \in Entry
    BY Keys DEF Plain, Entry, SecretKinds, GitViews
  <1>3. /\ auth.type = "ldap" => EntriesIn(u) = {Plain("AdminSecret", "cluster")}
        /\ auth.type # "ldap" => EntriesIn(u) = {}
        /\ u \in Seq(Entry)
    BY <1>2, EntriesOfShortLists DEF AdminSecretResources
  <1>. HIDE DEF a, b, c, u
  <1>4. t \in Seq(Entry)
    BY <1>1
  <1>5. EntriesIn(t) = {a, b, c}
    BY EntriesOfShortLists
  <1>6. RoleGroupResources(g, auth, git) = t \o u
    BY DEF RoleGroupResources, a, b, c, u
  <1>. HIDE DEF t
  <1>7. EntriesIn(t \o u) = EntriesIn(t) \cup EntriesIn(u)
    BY <1>3, <1>4, EntriesOfConcatenation
  <1>. QED
    BY <1>3, <1>5, <1>6, <1>7 DEF a, b, c

\* Their keys.
LEMMA KeysOfGroup ==
    ASSUME NEW g \in RoleGroups, NEW auth \in Views, NEW git \in GitViews,
           NoAuthentication \in Views
    PROVE  KeysIn(RoleGroupResources(g, auth, git)) = GroupKeys(g, auth)
  <1>. DEFINE a == WithAuth("ConfigMap", g, auth)
              b == WithGit("StatefulSet", g, auth, git)
              c == Plain("Service", g)
              d == Plain("AdminSecret", "cluster")
  <1>1. a.key = <<"ConfigMap", g>> /\ b.key = <<"StatefulSet", g>> /\ c.key = <<"Service", g>>
          /\ d.key = AdminSecret
    BY DEF WithAuth, WithGit, Plain, AdminSecret, KeyOf
  <1>2. EntriesIn(RoleGroupResources(g, auth, git)) =
            {a, b, c} \cup {e \in {d} : auth.type = "ldap"}
    BY GroupEntries
  <1>. HIDE DEF a, b, c, d
  <1>. QED
    BY <1>1, <1>2 DEF KeysIn, GroupKeys, GroupKinds

\* The wanted keys.
LEMMA WantedKeys ==
    ASSUME NEW i \in Instance, NEW cls \in ClassMaps, NEW e \in WantedOf(i, cls)
    PROVE  \/ e.key \in KeysIn(registerRBACResources)
           \/ e.key \in KeysIn(sensitiveKeyReconciler)
           \/ e.key \in KeysIn(ReportingTaskResources(i.spec,
                             GetAuthentication(i.spec.authentication, cls)))
           \/ \E g \in i.spec.groups :
                 e.key \in GroupKeys(g, GetAuthentication(i.spec.authentication, cls))
  <1>. DEFINE auth == GetAuthentication(i.spec.authentication, cls)
  <1>1. CASE \/ e \in EntriesIn(registerRBACResources)
             \/ e \in EntriesIn(sensitiveKeyReconciler)
             \/ e \in EntriesIn(ReportingTaskResources(i.spec, auth))
    BY <1>1 DEF KeysIn
  <1>2. ASSUME NEW g \in i.spec.groups, NEW git \in NewGitSyncResources(i.spec.gitSync),
               e \in EntriesIn(RoleGroupResources(g, auth, git))
        PROVE  e.key \in GroupKeys(g, auth)
    <2>1. e.key \in KeysIn(RoleGroupResources(g, auth, git))
      BY <1>2 DEF KeysIn
    <2>. QED
      BY <2>1, WantedViews, KeysOfGroup
  <1>. QED
    BY <1>1, <1>2, WantedCases DEF WantedOf

-----------------------------------------------------------------------------
(***************************************************************************)
(* Objects that match stay, and the head of the list comes to match        *)
(***************************************************************************)

\* The cases of MatchedBy.
LEMMA MatchedByCases ==
    ASSUME NEW e, NEW i, NEW cls, NEW obj
    PROVE  /\ e.key[1] \in SecretKinds => (MatchedBy(e, i, cls, obj) = (obj # None))
           /\ e.key[1] = "Job" => (MatchedBy(e, i, cls, obj) =
                                     (obj = None \/ obj = DesiredObject(e, i, cls)))
           /\ obj = DesiredObject(e, i, cls) => MatchedBy(e, i, cls, obj)
  <1>1. DesiredObject(e, i, cls) # None
    BY SomethingIsNotNone DEF DesiredObject
  <1>2. CASE e.key[1] \in SecretKinds
    <2>1. e.key[1] # "Job"
      BY <1>2 DEF SecretKinds
    <2>2. MatchedBy(e, i, cls, obj) = (obj # None)
      BY <1>2, <2>1 DEF MatchedBy
    <2>. QED
      BY <1>1, <2>1, <2>2, Zenon
  <1>3. CASE e.key[1] = "Job"
    <2>1. e.key[1] \notin SecretKinds
      BY <1>3 DEF SecretKinds
    <2>2. MatchedBy(e, i, cls, obj) = (obj = None \/ obj = DesiredObject(e, i, cls))
      BY <1>3, <2>1 DEF MatchedBy
    <2>. QED
      BY <2>1, <2>2, Zenon
  <1>4. CASE e.key[1] \notin SecretKinds /\ e.key[1] # "Job"
    BY <1>4 DEF MatchedBy
  <1>. QED
    BY <1>2, <1>3, <1>4

\* Nobody but the Job controller removes an object.
LEMMA OnlyJobsGo ==
    ASSUME OnlyWatchedChanges, TypeOK, SteadyInv, NEW k \in Key
    PROVE  ~GarbageCollect(k) /\ ~DeleteObject(k) /\ ~ProvideAdminSecret
  <1>1. ~DeleteObject(k) /\ ~ProvideAdminSecret
    BY Zenon DEF DeleteObject, ProvideAdminSecret, Disturb, OnlyWatchedChanges
  <1>2. ASSUME GarbageCollect(k) PROVE FALSE
    <2>1. uid = 1 /\ cr # None
      BY Zenon DEF SteadyInv
    <2>2. objects[k] # None /\ objects[k].owner # 0
      BY <1>2 DEF GarbageCollect
    <2>3. objects[k].owner \in (IF k[1] \in SecretKinds THEN 0..uid ELSE 1..uid)
      BY <2>2 DEF TypeOK
    <2>4. cr.uid \in 1..uid
      BY <2>1 DEF TypeOK
    <2>5. objects[k].owner = 1 /\ cr.uid = 1
      BY <2>1, <2>2, <2>3, <2>4
    <2>. QED
      BY <1>2, <2>1, <2>5 DEF GarbageCollect
  <1>. QED
    BY <1>1, <1>2

\* An object that matches goes on matching, unless the call writes it.
LEMMA DoneStays ==
    ASSUME OnlyWatchedChanges, TypeOK, SteadyInv, [Next]_vars, NEW i, NEW k \in Key,
           ~(WriteResource /\ Current.key = k), Done(k, i, classes, objects[k])
    PROVE  Done(k, i, classes, objects'[k])
  <1>1. PICK e \in WantedOf(i, classes) : e.key = k /\ MatchedBy(e, i, classes, objects[k])
    BY DEF Done
  <1>2. \/ objects'[k] = objects[k]
        \/ objects'[k] = None /\ k[1] = "Job"
        \/ k = SensitiveKey /\ objects[k] = None
    BY ObjectStep, OnlyJobsGo, Zenon
  <1>3. CASE objects'[k] = objects[k]
    BY <1>3
  <1>4. CASE objects'[k] = None /\ k[1] = "Job"
    <2>1. MatchedBy(e, i, classes, objects'[k])
      BY <1>1, <1>4, MatchedByCases
    <2>. QED
      BY <1>1, <2>1 DEF Done
  <1>5. CASE k = SensitiveKey /\ objects[k] = None
    <2>1. k[1] \in SecretKinds
      BY <1>5 DEF SensitiveKey, KeyOf, SecretKinds
    <2>. QED
      BY <1>1, <1>5, <2>1, MatchedByCases, Zenon
  <1>. QED
    BY <1>2, <1>3, <1>4, <1>5

\* After the step of a reconciler its object matches.
LEMMA HeadDone ==
    ASSUME TypeOK, Current \in WantedOf(inst, classes),
           SkipExistingSecret \/ UpToDate \/ WriteResource
    PROVE  Done(Current.key, inst, classes, objects'[Current.key])
  <1>. SUFFICES MatchedBy(Current, inst, classes, objects'[Current.key])
    BY DEF Done
  <1>0. Running /\ Current.key \in Key
    BY RunningType DEF SkipExistingSecret, UpToDate, WriteResource
  <1>1. CASE SkipExistingSecret
    <2>1. Current.key[1] \in SecretKinds /\ objects'[Current.key] # None
      BY <1>1 DEF SkipExistingSecret, IsSecret, Stored
    <2>. QED
      BY <2>1, MatchedByCases, Zenon
  <1>2. CASE UpToDate
    <2>1. objects'[Current.key] = DesiredObject(Current, inst, classes)
      BY <1>2 DEF UpToDate, Stored, Desired
    <2>. QED
      BY <2>1, MatchedByCases
  <1>3. CASE WriteResource
    <2>1. objects'[Current.key] = Desired
      BY <1>0, <1>3 DEF WriteResource, TypeOK
    <2>2. CASE IsSecret
      <3>1. Current.key[1] \in SecretKinds /\ Desired # None
        BY <2>2, SomethingIsNotNone DEF IsSecret, Desired
      <3>. QED
        BY <2>1, <3>1, MatchedByCases, Zenon
    <2>3. CASE ~IsSecret
      BY <2>1, <2>3, MatchedByCases DEF Desired
    <2>. QED
      BY <2>2, <2>3
  <1>. QED
    BY <1>1, <1>2, <1>3

-----------------------------------------------------------------------------
(***************************************************************************)
(* The steps                                                               *)
(***************************************************************************)

\* What stays in every step.
LEMMA SteadyStep ==
    ASSUME OnlyWatchedChanges, TypeOK, SteadyInv, [Next]_vars
    PROVE  SteadyInv' /\ classes' = classes
  <1>1. /\ ~DeleteCluster /\ \A x \in Specs : ~CreateCluster(x)
        /\ \A c \in AuthClasses, p \in NewProviders : ~EditClass(c, p)
        /\ ~ProvideAdminSecret
    BY Zenon DEF OnlyWatchedChanges, DeleteCluster, CreateCluster, EditClass, ProvideAdminSecret,
           Disturb
  <1>2. classes' = classes /\ uid' = uid /\ (cr' = cr \/ \E x \in Specs : EditSpec(x))
    <2>1. CASE \/ IgnoreDeleted \/ StartReconcile \/ RegisterRoleGroupError
               \/ FinishRegistration \/ FinishRegistrationError \/ Forbidden
               \/ SkipExistingSecret \/ AdminItemError \/ MissingKeyError \/ BuildError
               \/ UpToDate \/ JobUpdateRejected \/ WriteResource \/ EndReconcile
      BY <2>1, Zenon DEF IgnoreDeleted, StartReconcile, RegisterRoleGroupError, FinishRegistration,
           FinishRegistrationError, Forbidden, SkipExistingSecret, AdminItemError,
           MissingKeyError, BuildError, UpToDate, JobUpdateRejected, WriteResource,
           EndReconcile
    <2>2. CASE \/ WatchEvent \/ Resync \/ ProvideKey \/ ApiError \/ Restart \/ UpdateGrants
               \/ UNCHANGED vars
               \/ \E g \in RoleGroups : RegisterRoleGroup(g)
               \/ \E k \in Key : GarbageCollect(k) \/ DeleteObject(k)
               \/ \E v \in V1Versions : JobExpires(v)
               \/ \E x \in Specs : EditSpec(x)
      BY <2>2, Zenon DEF WatchEvent, Resync, ProvideKey, ApiError, Restart, UpdateGrants, vars,
           RegisterRoleGroup, GarbageCollect, DeleteObject, JobExpires, EditSpec
    <2>. QED
      BY <1>1, <2>1, <2>2, NextCases
  <1>3. cr' # None
    <2>1. ASSUME NEW x \in Specs, EditSpec(x) PROVE cr' # None
      <3>1. cr \in Instance /\ cr' = [cr EXCEPT !.spec = x]
        BY <2>1 DEF EditSpec, TypeOK
      <3>2. cr' \in Instance
        BY <3>1 DEF Instance
      <3>. QED
        BY <3>2, SomethingIsNotNone
    <2>. QED
      BY <1>2, <2>1, Zenon DEF SteadyInv
  <1>4. ASSUME NEW k \in Key, k[1] \in SecretKinds, objects'[k] # None
        PROVE  objects'[k].body # "no item"
    <2>1. CASE objects'[k] = objects[k]
      BY <1>4, <2>1, Zenon DEF SteadyInv
    <2>2. CASE WriteResource /\ Current.key = k /\ objects'[k] = Desired
      <3>1. Desired = [owner |-> inst.uid, body |-> RandomKey]
        BY <1>4, <2>2 DEF Desired, IsSecret
      <3>2. RandomKey # "no item"
        BY DEF RandomKey
      <3>3. Desired.body = RandomKey
        BY <3>1
      <3>4. objects'[k] = Desired
        BY <2>2
      <3>. QED
        BY <3>2, <3>3, <3>4, Zenon
    <2>3. CASE objects'[k] = [owner |-> 0, body |-> "key"]
      BY <2>3
    <2>4. \/ objects'[k] = objects[k]
          \/ WriteResource /\ Current.key = k /\ objects'[k] = Desired
          \/ objects'[k] = None
          \/ objects'[k] = [owner |-> 0, body |-> "key"]
          \/ ProvideAdminSecret
      BY ObjectStep, Zenon
    <2>. QED
      BY <1>1, <1>4, <2>1, <2>2, <2>3, <2>4, Zenon
  <1>. QED
    BY <1>2, <1>3, <1>4, Zenon DEF SteadyInv

\* What a step does to the call, the cache and the queue.
LEMMA StepKinds ==
    ASSUME OnlyWatchedChanges, TypeOK, SteadyInv, [Next]_vars
    PROVE  \/ UNCHANGED <<seen, queued, pc, inst, todo, resources>>
           \/ UNCHANGED <<pc, inst, todo, resources>> /\ queued' = TRUE
           \/ EndCall /\ queued' = TRUE
           \/ IgnoreDeleted
           \/ StartReconcile
           \/ \E g \in RoleGroups : RegisterRoleGroup(g)
           \/ FinishRegistration
           \/ EndReconcile
           \/ NextResource /\ seen' = seen
                /\ (SkipExistingSecret \/ UpToDate \/ WriteResource)
  <1>1. CASE \/ RegisterRoleGroupError \/ FinishRegistrationError \/ Forbidden
             \/ AdminItemError \/ MissingKeyError \/ BuildError \/ JobUpdateRejected
             \/ ApiError
    BY <1>1 DEF RegisterRoleGroupError, FinishRegistrationError, Forbidden, AdminItemError,
         MissingKeyError, BuildError, JobUpdateRejected, ApiError, RequeueWithError
  <1>2. CASE Restart
    BY <1>2, Zenon DEF Restart, SteadyInv
  <1>3. CASE SkipExistingSecret \/ UpToDate \/ WriteResource
    BY <1>3 DEF SkipExistingSecret, UpToDate, WriteResource
  <1>4. CASE WatchEvent \/ Resync
    BY <1>4 DEF WatchEvent, Resync, local
  <1>5. CASE \/ ProvideKey \/ UpdateGrants \/ UNCHANGED vars
             \/ \E k \in Key : GarbageCollect(k) \/ DeleteObject(k)
             \/ \E v \in V1Versions : JobExpires(v)
             \/ \E x \in Specs : EditSpec(x)
    BY <1>5, Zenon DEF ProvideKey, UpdateGrants, vars, local, GarbageCollect, DeleteObject,
         JobExpires, EditSpec
  <1>6. /\ ~DeleteCluster /\ \A x \in Specs : ~CreateCluster(x)
        /\ \A c \in AuthClasses, p \in NewProviders : ~EditClass(c, p)
        /\ ~ProvideAdminSecret
    BY Zenon DEF OnlyWatchedChanges, DeleteCluster, CreateCluster, EditClass, ProvideAdminSecret,
           Disturb
  <1>. QED
    BY <1>1, <1>2, <1>3, <1>4, <1>5, <1>6, NextCases, Zenon

\* A step that leaves the call where it is writes nothing.
LEMMA NoWriteInPlace ==
    ASSUME TypeOK, UNCHANGED <<pc, inst, todo, resources>>
    PROVE  ~WriteResource
  <1>. SUFFICES ASSUME WriteResource PROVE FALSE
    OBVIOUS
  <1>1. pc = "run" /\ resources # << >> /\ resources \in Seq(Entry)
    BY DEF WriteResource, Running, TypeOK
  <1>2. pc' = "idle" \/ resources' = Tail(resources)
    BY DEF WriteResource, NextResource, EndCall
  <1>3. Len(Tail(resources)) # Len(resources)
    BY <1>1
  <1>. QED
    BY <1>1, <1>2, <1>3, Zenon

\* The call reads the NifiCluster and starts its list.
LEMMA StartStep ==
    ASSUME TypeOK, classes' = classes, StartReconcile
    PROVE  CallInv' /\ RegisterInv' /\ RunInv' /\ RestInv'
  <1>1. /\ pc' = "register" /\ inst' = seen /\ seen' = seen /\ todo' = seen.spec.groups
        /\ resources' = registerRBACResources
    BY DEF StartReconcile
  <1>2. EntriesIn(registerRBACResources) \subseteq WantedOf(seen, classes)
    BY WantedCases DEF WantedOf
  <1>3. CallInv'
    BY <1>1, <1>2 DEF CallInv
  <1>4. RegisterInv'
    BY <1>1 DEF RegisterInv
  <1>. QED
    BY <1>1, <1>3, <1>4 DEF RunInv, RestInv

\* A role group adds its resources to the list.
LEMMA RegisterStep ==
    ASSUME TypeOK, CallInv, RegisterInv, classes' = classes,
           NEW g \in RoleGroups, RegisterRoleGroup(g)
    PROVE  CallInv' /\ RegisterInv' /\ RunInv' /\ RestInv'
  <1>1. PICK git \in NewGitSyncResources(inst.spec.gitSync) :
            resources' = resources \o RoleGroupResources(g, CurrentAuth, git)
    BY DEF RegisterRoleGroup
  <1>2. /\ pc = "register" /\ g \in todo /\ todo' = todo \ {g}
        /\ pc' = pc /\ inst' = inst /\ seen' = seen /\ queued' = queued
    BY DEF RegisterRoleGroup
  <1>3. inst # None /\ inst \in Instance /\ resources \in Seq(Entry) /\ classes \in ClassMaps
    BY <1>2 DEF TypeOK
  <1>4. CurrentAuth \in Views /\ NoAuthentication \in Views /\ git \in GitViews
    BY <1>1, <1>3, AuthType, GitType
  <1>. DEFINE t == RoleGroupResources(g, CurrentAuth, git)
  <1>5. t \in Seq(Entry)
    BY <1>4, RegistrationTypes
  <1>6. KeysIn(t) = GroupKeys(g, CurrentAuth)
    BY <1>4, KeysOfGroup
  <1>7. EntriesIn(t) \subseteq WantedOf(inst, classes)
    <2>1. g \in inst.spec.groups
      BY <1>2 DEF CallInv
    <2>. QED
      BY <1>1, <2>1, WantedCases DEF WantedOf, CurrentAuth
  <1>. HIDE DEF t
  <1>8. EntriesIn(resources') = EntriesIn(resources) \cup EntriesIn(t)
    BY <1>1, <1>3, <1>5, EntriesOfConcatenation DEF t
  <1>9. KeysIn(resources') = KeysIn(resources) \cup KeysIn(t)
    BY <1>8 DEF KeysIn
  <1>10. CallInv'
    BY <1>2, <1>7, <1>8 DEF CallInv
  <1>11. RegisterInv'
    <2>1. CurrentAuth' = CurrentAuth
      BY <1>2 DEF CurrentAuth
    <2>2. \A h \in inst.spec.groups \ todo' :
              GroupKeys(h, CurrentAuth) \subseteq KeysIn(resources')
      BY <1>2, <1>6, <1>9 DEF RegisterInv
    <2>3. KeysIn(registerRBACResources) \subseteq KeysIn(resources')
      BY <1>2, <1>9 DEF RegisterInv
    <2>. QED
      BY <1>2, <2>1, <2>2, <2>3 DEF RegisterInv
  <1>. QED
    BY <1>2, <1>10, <1>11 DEF RunInv, RestInv

\* When the list is complete, everything wanted is in it.
LEMMA FinishStep ==
    ASSUME TypeOK, CallInv, RegisterInv, classes' = classes, FinishRegistration
    PROVE  /\ CallInv' /\ RegisterInv' /\ RunInv' /\ RestInv'
           /\ pc' = "run" =>
                 \A e \in WantedOf(inst, classes) : e.key \in KeysIn(resources')
  <1>1. pc = "register" /\ todo = {} /\ seen' = seen /\ queued' = queued
    BY DEF FinishRegistration
  <1>2. inst # None /\ inst \in Instance /\ resources \in Seq(Entry) /\ classes \in ClassMaps
    BY <1>1 DEF TypeOK
  <1>3. CASE inst.spec.paused
    <2>1. EndCall
      BY <1>3 DEF FinishRegistration
    <2>2. ~queued => inst = seen
      BY <1>1 DEF CallInv
    <2>3. pc' = "idle"
      BY <2>1 DEF EndCall
    <2>. QED
      BY <1>1, <1>3, <2>2, <2>3 DEF CallInv, RegisterInv, RunInv, RestInv
  <1>4. CASE ~inst.spec.paused
    <2>. DEFINE u == ReportingTaskResources(inst.spec, CurrentAuth)
    <2>1. /\ pc' = "run" /\ inst' = inst /\ todo' = todo
          /\ resources' = resources \o sensitiveKeyReconciler \o u
      BY <1>4 DEF FinishRegistration
    <2>2. sensitiveKeyReconciler \in Seq(Entry) /\ u \in Seq(Entry)
      <3>1. inst.spec \in Specs
        BY <1>2 DEF Instance
      <3>. QED
        BY <1>2, <3>1, AuthType, RegistrationTypes
    <2>3. EntriesIn(u) \subseteq WantedOf(inst, classes)
            /\ EntriesIn(sensitiveKeyReconciler) \subseteq WantedOf(inst, classes)
      BY WantedCases DEF WantedOf, CurrentAuth
    <2>4. \A e \in WantedOf(inst, classes) :
            \/ e.key \in KeysIn(registerRBACResources)
            \/ e.key \in KeysIn(sensitiveKeyReconciler)
            \/ e.key \in KeysIn(u)
            \/ \E g \in inst.spec.groups : e.key \in GroupKeys(g, CurrentAuth)
      BY <1>2, WantedKeys DEF CurrentAuth
    <2>. HIDE DEF u
    <2>5. EntriesIn(resources') =
            EntriesIn(resources) \cup EntriesIn(sensitiveKeyReconciler) \cup EntriesIn(u)
      <3>1. resources \o sensitiveKeyReconciler \in Seq(Entry)
        BY <1>2, <2>2
      <3>2. EntriesIn(resources \o sensitiveKeyReconciler) =
              EntriesIn(resources) \cup EntriesIn(sensitiveKeyReconciler)
        BY <1>2, <2>2, EntriesOfConcatenation
      <3>3. \A s \in Seq(Entry) : EntriesIn(s \o u) = EntriesIn(s) \cup EntriesIn(u)
        BY <2>2, EntriesOfConcatenation
      <3>4. EntriesIn((resources \o sensitiveKeyReconciler) \o u) =
              EntriesIn(resources \o sensitiveKeyReconciler) \cup EntriesIn(u)
        BY <3>1, <3>3, Zenon
      <3>. QED
        BY <2>1, <3>2, <3>4
    <2>6. KeysIn(resources') =
            KeysIn(resources) \cup KeysIn(sensitiveKeyReconciler) \cup KeysIn(u)
      BY <2>5 DEF KeysIn
    <2>7. CallInv'
      BY <1>1, <2>1, <2>3, <2>5 DEF CallInv
    <2>8. /\ KeysIn(registerRBACResources) \subseteq KeysIn(resources)
          /\ \A g \in inst.spec.groups : GroupKeys(g, CurrentAuth) \subseteq KeysIn(resources)
      BY <1>1 DEF RegisterInv
    <2>9. \A e \in WantedOf(inst, classes) : e.key \in KeysIn(resources')
      BY <2>4, <2>6, <2>8
    <2>. QED
      BY <2>1, <2>7, <2>9 DEF RegisterInv, RunInv, RestInv
  <1>. QED
    BY <1>3, <1>4

\* A reconciler's step accounts for the head of the list.
LEMMA ResourceStep ==
    ASSUME TypeOK, CallInv, RunInv, classes' = classes,
           NextResource, seen' = seen, SkipExistingSecret \/ UpToDate \/ WriteResource,
           \A e \in WantedOf(inst, classes) :
              e.key # Current.key /\ Done(e.key, inst, classes, objects[e.key])
                => Done(e.key, inst, classes, objects'[e.key])
    PROVE  CallInv' /\ RegisterInv' /\ RunInv' /\ RestInv'
  <1>1. Running
    BY DEF SkipExistingSecret, UpToDate, WriteResource
  <1>2. pc = "run" /\ resources # << >> /\ resources \in Seq(Entry)
    BY <1>1 DEF Running, TypeOK
  <1>3. /\ pc' = pc /\ inst' = inst /\ todo' = todo /\ queued' = queued
        /\ resources' = Tail(resources)
    BY DEF NextResource
  <1>4. inst \in Instance /\ classes \in ClassMaps
    BY <1>2 DEF TypeOK
  <1>5. EntriesIn(resources) = {Current} \cup EntriesIn(resources')
    BY <1>2, <1>3, EntriesOfTail DEF Current
  <1>6. KeysIn(resources) = {Current.key} \cup KeysIn(resources')
    BY <1>5, Zenon DEF KeysIn
  <1>7. EntriesIn(resources) \subseteq WantedOf(inst, classes)
    BY <1>2 DEF CallInv
  <1>8. Current \in WantedOf(inst, classes)
    BY <1>5, <1>7
  <1>9. Done(Current.key, inst, classes, objects'[Current.key])
    BY <1>8, HeadDone
  <1>10. ASSUME NEW e \in WantedOf(inst, classes)
         PROVE  e.key \in KeysIn(resources') \/ Done(e.key, inst, classes, objects'[e.key])
    <2>1. CASE e.key = Current.key
      BY <1>9, <2>1
    <2>2. CASE e.key # Current.key /\ e.key \in KeysIn(resources)
      BY <1>6, <2>2
    <2>3. CASE e.key # Current.key /\ e.key \notin KeysIn(resources)
      <3>1. Done(e.key, inst, classes, objects[e.key])
        BY <1>2, <2>3 DEF RunInv
      <3>. QED
        BY <2>3, <3>1
    <2>. QED
      BY <2>1, <2>2, <2>3
  <1>11. CallInv'
    BY <1>2, <1>3, <1>5, <1>7 DEF CallInv
  <1>12. RunInv'
    BY <1>3, <1>10 DEF RunInv
  <1>. QED
    BY <1>2, <1>3, <1>11, <1>12 DEF RegisterInv, RestInv

\* A step beside the call changes no object that matches.
LEMMA StepInPlace ==
    ASSUME OnlyWatchedChanges, TypeOK, ConvInv, [Next]_vars, classes' = classes,
           UNCHANGED <<pc, inst, todo, resources>>,
           queued' = TRUE \/ UNCHANGED <<seen, queued>>
    PROVE  CallInv' /\ RegisterInv' /\ RunInv' /\ RestInv'
  <1>1. SteadyInv /\ CallInv /\ RegisterInv /\ RunInv /\ RestInv /\ ~WriteResource
    BY NoWriteInPlace DEF ConvInv
  <1>2. ASSUME NEW i \in Instance, NEW e \in WantedOf(i, classes),
               Done(e.key, i, classes, objects[e.key])
        PROVE  Done(e.key, i, classes, objects'[e.key])
    <2>1. e.key \in Key
      BY WantedAreEntries DEF Entry, TypeOK
    <2>. QED
      BY <1>1, <1>2, <2>1, DoneStays
  <1>3. CallInv'
    BY <1>1 DEF CallInv
  <1>4. RegisterInv'
    <2>1. CurrentAuth' = CurrentAuth
      BY DEF CurrentAuth
    <2>. QED
      BY <1>1, <2>1 DEF RegisterInv
  <1>5. RunInv'
    <2>1. pc = "run" => inst \in Instance
      BY DEF TypeOK
    <2>. QED
      BY <1>1, <1>2, <2>1 DEF RunInv
  <1>6. RestInv'
    <2>1. CASE queued' = TRUE
      BY <2>1 DEF RestInv
    <2>2. CASE UNCHANGED <<seen, queued>>
      <3>1. seen # None => seen \in Instance
        BY DEF TypeOK
      <3>. QED
        BY <1>1, <1>2, <2>2, <3>1 DEF RestInv
    <2>. QED
      BY <2>1, <2>2, Zenon
  <1>. QED
    BY <1>3, <1>4, <1>5, <1>6

\* The initial states satisfy the invariant.
LEMMA ConvInit ==
    ASSUME Init PROVE ConvInv
  <1>1. cr # None
    <2>1. cr \in Instance
      BY DEF Init, Instance
    <2>. QED
      BY <2>1, SomethingIsNotNone
  <1>2. \A k \in Key : objects[k] = None
    BY DEF Init
  <1>3. SteadyInv
    BY <1>1, <1>2 DEF Init, SteadyInv
  <1>4. pc = "idle" /\ seen = None
    BY DEF Init
  <1>. QED
    BY <1>3, <1>4 DEF ConvInv, CallInv, RegisterInv, RunInv, RestInv

\* Every step keeps the invariant.
LEMMA ConvStep ==
    ASSUME OnlyWatchedChanges, TypeOK, ConvInv, [Next]_vars
    PROVE  ConvInv'
  <1>1. SteadyInv' /\ classes' = classes
    BY SteadyStep DEF ConvInv
  <1>. SUFFICES CallInv' /\ RegisterInv' /\ RunInv' /\ RestInv'
    BY <1>1 DEF ConvInv
  <1>2. CASE UNCHANGED <<pc, inst, todo, resources>>
               /\ (queued' = TRUE \/ UNCHANGED <<seen, queued>>)
    BY <1>1, <1>2, StepInPlace, Zenon
  <1>3. CASE EndCall /\ queued' = TRUE
    BY <1>3 DEF EndCall, CallInv, RegisterInv, RunInv, RestInv
  <1>4. CASE IgnoreDeleted
    <2>1. pc = "idle" /\ pc' = pc /\ seen = None /\ seen' = seen
      BY <1>4 DEF IgnoreDeleted, local
    <2>. QED
      BY <2>1 DEF CallInv, RegisterInv, RunInv, RestInv
  <1>5. CASE StartReconcile
    BY <1>1, <1>5, StartStep
  <1>6. ASSUME NEW g \in RoleGroups, RegisterRoleGroup(g)
        PROVE  CallInv' /\ RegisterInv' /\ RunInv' /\ RestInv'
    BY <1>1, <1>6, RegisterStep DEF ConvInv
  <1>7. CASE FinishRegistration
    BY <1>1, <1>7, FinishStep DEF ConvInv
  <1>8. CASE EndReconcile
    <2>1. /\ pc = "run" /\ resources = << >> /\ pc' = "idle" /\ seen' = seen
          /\ objects' = objects /\ (~queued' => ~queued)
      BY <1>8, Zenon DEF EndReconcile, EndCall, TypeOK
    <2>2. KeysIn(resources) = {}
      BY <2>1, EntriesOfShortLists DEF KeysIn
    <2>3. \A e \in WantedOf(inst, classes) : Done(e.key, inst, classes, objects[e.key])
      BY <2>1, <2>2 DEF ConvInv, RunInv
    <2>4. ~queued => inst = seen
      BY <2>1 DEF ConvInv, CallInv
    <2>5. RestInv'
      BY <1>1, <2>1, <2>3, <2>4 DEF RestInv
    <2>. QED
      BY <2>1, <2>5 DEF CallInv, RegisterInv, RunInv
  <1>9. CASE /\ NextResource /\ seen' = seen
             /\ SkipExistingSecret \/ UpToDate \/ WriteResource
    <2>1. pc = "run"
      BY <1>9, Zenon DEF SkipExistingSecret, UpToDate, WriteResource, Running
    <2>2. ASSUME NEW e \in WantedOf(inst, classes), e.key # Current.key,
                 Done(e.key, inst, classes, objects[e.key])
          PROVE  Done(e.key, inst, classes, objects'[e.key])
      <3>1. e.key \in Key
        BY <2>1, WantedAreEntries DEF Entry, TypeOK
      <3>. QED
        BY <2>2, <3>1, DoneStays DEF ConvInv
    <2>. QED
      BY <1>1, <1>9, <2>2, ResourceStep, Zenon DEF ConvInv
  <1>10. SteadyInv
    BY DEF ConvInv
  <1>. QED
    BY <1>2, <1>3, <1>4, <1>5, <1>6, <1>7, <1>8, <1>9, <1>10, StepKinds, Zenon

\* Objects that match, and secrets that have their items, are what convergence means.
LEMMA DoneConverged ==
    ASSUME \A e \in WantedOf(cr, classes) : Done(e.key, cr, classes, objects[e.key]),
           \A e \in WantedOf(cr, classes) :
              e.key[1] \in SecretKinds /\ objects[e.key] # None
                => objects[e.key].body # "no item"
    PROVE  Converged
  <1>1. ASSUME NEW f \in WantedOf(cr, classes), MatchedBy(f, cr, classes, objects[f.key])
        PROVE  Matches(f)
    <2>1. CASE f.key[1] \in SecretKinds
      <3>1. objects[f.key] # None
        BY <1>1, <2>1, MatchedByCases, Zenon
      <3>. QED
        BY <2>1, <3>1, Zenon DEF Matches, SecretKinds
    <2>2. CASE f.key[1] = "Job"
      <3>1. f.key[1] \notin SecretKinds
        BY <2>2, Zenon DEF SecretKinds
      <3>. QED
        BY <1>1, <2>2, <3>1, Zenon DEF MatchedBy, Matches
    <2>3. CASE f.key[1] \notin SecretKinds /\ f.key[1] # "Job"
      BY <1>1, <2>3, Zenon DEF MatchedBy, Matches
    <2>. QED
      BY <2>1, <2>2, <2>3, Zenon
  <1>2. WantedEntries(cr.spec, ClusterAuth) = WantedOf(cr, classes)
    BY Zenon DEF WantedOf, ClusterAuth
  <1>. QED
    BY <1>1, <1>2, Zenon DEF Converged, Done

\* The invariant gives the property.
LEMMA ConvAtRest ==
    ASSUME TypeOK, ConvInv
    PROVE  QuiescentConverged
  <1>. SUFFICES ASSUME Quiescent PROVE Converged
    BY DEF QuiescentConverged
  <1>1. pc = "idle" /\ ~queued /\ seen = cr /\ cr # None /\ ~cr.spec.paused
    BY DEF Quiescent
  <1>2. \A e \in WantedOf(cr, classes) : Done(e.key, cr, classes, objects[e.key])
    BY <1>1 DEF ConvInv, RestInv
  <1>3. \A e \in WantedOf(cr, classes) : e.key \in Key
    BY <1>1, WantedAreEntries DEF Entry, TypeOK
  <1>. QED
    BY <1>2, <1>3, DoneConverged, Zenon DEF ConvInv, SteadyInv

\* When only the NifiCluster, permissions, the key, failures and restarts can change
\* things, the operator never comes to rest before the objects are what the spec asks
\* for, for any role groups, specs and number of disturbances: no edit, failed call,
\* rejected build, early end of Run or restart is forgotten.
THEOREM ComesToRestConverged ==
    ASSUME OnlyWatchedChanges
    PROVE  Spec => []QuiescentConverged
  <1>1. Init => ConvInv
    BY ConvInit
  <1>2. TypeOK /\ ConvInv /\ [Next]_vars => ConvInv'
    BY ConvStep
  <1>3. TypeOK /\ ConvInv => QuiescentConverged
    BY ConvAtRest
  <1>. QED
    BY <1>1, <1>2, <1>3, TypeCorrect, PTL DEF Spec

=============================================================================
