------------------------ MODULE OperatorSteps_proofs ------------------------
(***************************************************************************)
(* Proofs of the action properties of NifiOperator, what a step of the     *)
(* loop or of its environment may never do: replace the sensitive key,     *)
(* give an object back to an earlier NifiCluster, or leave the state in    *)
(* which everything is as wanted.                                          *)
(***************************************************************************)
EXTENDS AtRest_proofs

-----------------------------------------------------------------------------
(***************************************************************************)
(* The sensitive-properties key.  The reconcile loop implements the        *)
(* write-once secret: the key is never replaced, across edits, failures,   *)
(* restarts, deletion and re-creation of the NifiCluster.                  *)
(***************************************************************************)

KeyObjects == [owner: Nat, body: {"key", "other key"}]

\* The secret is missing or holds a key (and not a half-made object).
KeyInv == objects[SensitiveKey] \in KeyObjects \cup {None}

\* The key is an object of its own.
LEMMA SensitiveKeyFacts ==
    /\ SensitiveKey \in Key
    /\ SensitiveKey[1] = "SensitiveKey"
    /\ SensitiveKey # AdminSecret
  <1>1. SensitiveKey \in Key
    BY Keys DEF SensitiveKey, KeyOf, SecretKinds
  <1>2. /\ SensitiveKey[1] = "SensitiveKey" /\ SensitiveKey # AdminSecret
        BY DEF SensitiveKey, AdminSecret, KeyOf
  <1>. QED
    BY <1>1, <1>2

\* A run writes the key only when it is missing, and writes a proper key.
LEMMA WriteOfKey ==
    ASSUME TypeOK, WriteResource, Current.key = SensitiveKey
    PROVE  objects[SensitiveKey] = None /\ objects'[SensitiveKey] \in KeyObjects
  <1>1. Running /\ MayWrite /\ objects' = [objects EXCEPT ![Current.key] = Desired]
    BY DEF WriteResource
  <1>2. IsSecret
    BY SensitiveKeyFacts DEF IsSecret, SecretKinds
  <1>3. objects[SensitiveKey] = None
    BY <1>1, <1>2 DEF MayWrite, Stored
  <1>4. inst.uid \in Nat
    BY <1>1, RunningType DEF Instance
  <1>5. RandomKey \in {"key", "other key"}
    BY DEF RandomKey
  <1>6. Desired = [owner |-> inst.uid, body |-> RandomKey]
    BY <1>2 DEF Desired
  <1>7. Desired \in KeyObjects
    BY <1>4, <1>5, <1>6, Zenon DEF KeyObjects
  <1>8. objects'[SensitiveKey] = Desired
    BY <1>1, SensitiveKeyFacts DEF TypeOK
  <1>. QED
    BY <1>3, <1>7, <1>8

\* A step leaves the key alone, creates it where it was missing, or removes it.
LEMMA KeyStep ==
    ASSUME TypeOK, KeyInv, [Next]_vars
    PROVE  \/ objects'[SensitiveKey] = objects[SensitiveKey]
           \/ objects[SensitiveKey] = None /\ objects'[SensitiveKey] \in KeyObjects
           \/ objects[SensitiveKey] # None /\ objects'[SensitiveKey] = None
  <1>1. \/ objects'[SensitiveKey] = objects[SensitiveKey]
        \/ WriteResource /\ Current.key = SensitiveKey
        \/ objects[SensitiveKey] # None /\ objects'[SensitiveKey] = None
        \/ /\ objects[SensitiveKey] = None
           /\ objects'[SensitiveKey] = [owner |-> 0, body |-> "key"]
    BY ObjectStep, SensitiveKeyFacts, Zenon
  <1>2. [owner |-> 0, body |-> "key"] \in KeyObjects
    BY DEF KeyObjects
  <1>. QED
    BY <1>1, <1>2, WriteOfKey

\* The key is never a half-made object.
LEMMA KeyIsProper == Spec => []KeyInv
  <1>1. Init => KeyInv
    BY SensitiveKeyFacts DEF Init, KeyInv
  <1>2. TypeOK /\ KeyInv /\ [Next]_vars => KeyInv'
    BY KeyStep DEF KeyInv
  <1>. QED
    BY <1>1, <1>2, TypeCorrect, PTL DEF Spec

\* The reconcile loop implements the safety part of the write-once secret, for all
\* specs, disturbances and numbers of deletions: whatever is in flight, a key that
\* exists is not replaced ("already exists, skipping reconciliation").
THEOREM KeyIsWrittenOnce == Spec => KeyWrittenOnce
  <1>1. Init => KeyStore!Init
    BY SensitiveKeyFacts DEF Init, KeyStore!Init
  <1>2. TypeOK /\ KeyInv /\ [Next]_vars => [KeyStore!Next]_(objects[SensitiveKey])
    BY KeyStep, Zenon DEF KeyStore!Next, KeyStore!Generate, KeyStore!Remove, KeyObjects
  <1>. QED
    BY <1>1, <1>2, KeyIsProper, TypeCorrect, PTL DEF Spec, KeyWrittenOnce, KeyStore!Safe

-----------------------------------------------------------------------------
(***************************************************************************)
(* Owners.  A call works on the NifiCluster the cache held when it began,  *)
(* and the cache moves on to later ones only.  So whatever the call finds  *)
(* is owned by its own NifiCluster or an earlier one.                      *)
(***************************************************************************)

\* No object is owned by a NifiCluster later than the one with uid n.
OwnersUpTo(n) == \A k \in Key : objects[k] # None => objects[k].owner =< n

\* The inductive invariant.
OwnerInv ==
    /\ cr # None => cr.uid = uid
    /\ inst # None => OwnersUpTo(inst.uid)
    /\ seen # None => OwnersUpTo(seen.uid)
    /\ inst # None /\ seen # None => inst.uid =< seen.uid

\* How a step moves the NifiClusters that the API server, the cache and the call hold.
LEMMA InstanceStep ==
    ASSUME TypeOK, OwnerInv, [Next]_vars
    PROVE  /\ seen' = seen \/ seen' = cr
           /\ inst' = inst \/ inst' = None \/ (inst' = seen /\ UNCHANGED <<seen, objects>>)
           /\ cr' # None => cr'.uid = uid'
           /\ seen' # seen => objects' = objects
  <1>1. CASE StartReconcile
    BY <1>1 DEF StartReconcile, OwnerInv
  <1>2. CASE WatchEvent
    BY <1>2 DEF WatchEvent, local, OwnerInv
  <1>3. CASE Restart
    BY <1>3 DEF Restart, EndCall, OwnerInv
  <1>4. ASSUME NEW x \in Specs, EditSpec(x) PROVE seen' = seen /\ inst' = inst /\ cr'.uid = uid'
    BY <1>4 DEF EditSpec, local, OwnerInv, TypeOK, Instance
  <1>5. ASSUME NEW x \in Specs, CreateCluster(x)
        PROVE  seen' = seen /\ inst' = inst /\ cr'.uid = uid'
    BY <1>5 DEF CreateCluster, local
  <1>6. CASE DeleteCluster
    BY <1>6 DEF DeleteCluster, local
  <1>7. CASE WriteResource \/ SkipExistingSecret \/ UpToDate
    BY <1>7 DEF WriteResource, SkipExistingSecret, UpToDate, NextResource, EndCall, OwnerInv
  <1>8. CASE \/ RegisterRoleGroupError \/ FinishRegistrationError \/ Forbidden \/ AdminItemError
             \/ MissingKeyError \/ BuildError \/ JobUpdateRejected \/ ApiError \/ EndReconcile
    BY <1>8, Zenon DEF RegisterRoleGroupError, FinishRegistrationError, Forbidden, AdminItemError,
         MissingKeyError, BuildError, JobUpdateRejected, ApiError, EndReconcile,
         RequeueWithError, EndCall, OwnerInv
  <1>9. CASE FinishRegistration \/ \E g \in RoleGroups : RegisterRoleGroup(g)
    BY <1>9 DEF FinishRegistration, RegisterRoleGroup, EndCall, OwnerInv
  <1>10. CASE \/ IgnoreDeleted \/ Resync \/ ProvideKey \/ ProvideAdminSecret \/ UpdateGrants
              \/ \E k \in Key : GarbageCollect(k) \/ DeleteObject(k)
              \/ \E v \in V1Versions : JobExpires(v)
              \/ \E c \in AuthClasses, p \in NewProviders : EditClass(c, p)
              \/ UNCHANGED vars
    BY <1>10, Zenon DEF IgnoreDeleted, Resync, ProvideKey, ProvideAdminSecret, UpdateGrants,
         GarbageCollect, DeleteObject, JobExpires, EditClass, vars, local, OwnerInv
  <1>. QED
    BY <1>1, <1>2, <1>3, <1>4, <1>5, <1>6, <1>7, <1>8, <1>9, <1>10, NextCases

\* What the owner of an object may become.
LEMMA OwnerStep ==
    ASSUME TypeOK, [Next]_vars, NEW k \in Key, objects'[k] # None
    PROVE  \/ objects'[k] = objects[k]
           \/ inst \in Instance /\ objects'[k].owner = inst.uid
           \/ objects[k] = None /\ objects'[k].owner = 0
  <1>1. CASE WriteResource /\ Current.key = k /\ objects'[k] = Desired
    <2>1. inst \in Instance
      BY <1>1, RunningType DEF WriteResource
    <2>2. Desired.owner = inst.uid
      BY DEF Desired, DesiredObject
    <2>. QED
      BY <1>1, <2>1, <2>2
  <1>2. \A b : [owner |-> 0, body |-> b].owner = 0
    OBVIOUS
  <1>. QED
    BY <1>1, <1>2, ObjectStep, Zenon

\* The bound on the owners is kept as long as it is one for the call in flight.
LEMMA OwnersStayUpTo ==
    ASSUME TypeOK, [Next]_vars, NEW n \in Nat, OwnersUpTo(n), inst # None => inst.uid =< n
    PROVE  OwnersUpTo(n)'
  <1>. SUFFICES ASSUME NEW k \in Key, objects'[k] # None PROVE objects'[k].owner =< n
    BY DEF OwnersUpTo
  <1>1. CASE objects'[k] = objects[k]
    BY <1>1 DEF OwnersUpTo
  <1>2. CASE inst \in Instance /\ objects'[k].owner = inst.uid
    BY <1>2, SomethingIsNotNone
  <1>3. CASE objects'[k].owner = 0
    BY <1>3
  <1>. QED
    BY <1>1, <1>2, <1>3, OwnerStep

\* Every step keeps the invariant.
LEMMA OwnerInvStep ==
    ASSUME TypeOK, OwnerInv, [Next]_vars
    PROVE  OwnerInv'
  <1>1. /\ seen' = seen \/ seen' = cr
        /\ inst' = inst \/ inst' = None \/ (inst' = seen /\ UNCHANGED <<seen, objects>>)
        /\ cr' # None => cr'.uid = uid'
        /\ seen' # seen => objects' = objects
    BY InstanceStep
  <1>2. \A i \in {cr, seen, inst} : i # None => i.uid \in Nat /\ i.uid =< uid
    BY DEF TypeOK, Instance
  <1>3. OwnersUpTo(uid)
    BY DEF OwnersUpTo, TypeOK, SecretKinds
  <1>4. ASSUME inst # None, inst' = inst PROVE OwnersUpTo(inst.uid)'
    <2>1. OwnersUpTo(inst.uid) /\ inst.uid \in Nat
      BY <1>2, <1>4 DEF OwnerInv
    <2>2. ASSUME NEW n \in Nat, n = inst.uid, OwnersUpTo(n) PROVE OwnersUpTo(n)'
      BY <2>2, OwnersStayUpTo
    <2>. QED
      BY <1>4, <2>1, <2>2
  <1>5. ASSUME seen # None, seen' = seen PROVE OwnersUpTo(seen.uid)'
    <2>1. OwnersUpTo(seen.uid) /\ seen.uid \in Nat /\ (inst # None => inst.uid =< seen.uid)
      BY <1>2, <1>5 DEF OwnerInv
    <2>2. ASSUME NEW n \in Nat, n = seen.uid, OwnersUpTo(n) PROVE OwnersUpTo(n)'
      BY <2>1, <2>2, OwnersStayUpTo
    <2>. QED
      BY <1>5, <2>1, <2>2
  <1>6. ASSUME seen' # seen, seen' # None PROVE OwnersUpTo(seen.uid)'
    <2>1. seen' = cr /\ cr # None /\ cr.uid = uid /\ objects' = objects
      BY <1>1, <1>6 DEF OwnerInv
    <2>. QED
      BY <1>3, <2>1 DEF OwnersUpTo
  <1>7. ASSUME inst' # inst, inst' # None PROVE OwnersUpTo(inst.uid)'
    <2>1. inst' = seen /\ seen # None /\ objects' = objects
      BY <1>1, <1>7
    <2>. QED
      BY <2>1 DEF OwnerInv, OwnersUpTo
  <1>8. inst' # None /\ seen' # None => inst'.uid =< seen'.uid
    <2>1. cr # None => cr.uid = uid
      BY DEF OwnerInv
    <2>2. inst # None /\ seen # None => inst.uid =< seen.uid
      BY DEF OwnerInv
    <2>. QED
      BY <1>1, <1>2, <2>1, <2>2
  <1>. QED
    BY <1>1, <1>4, <1>5, <1>6, <1>7, <1>8 DEF OwnerInv

\* For any number of deletions and re-creations, with calls for any of the
\* NifiClusters in flight: the owner of an object is never an earlier one than before.
THEOREM OwnersOnlyMoveForward == Spec => OwnersMoveForward
  <1>1. Init => OwnerInv
    BY DEF Init, OwnerInv
  <1>2. TypeOK /\ OwnerInv /\ [Next]_vars => OwnerInv'
    BY OwnerInvStep
  <1>3. TypeOK /\ OwnerInv /\ [Next]_vars =>
          [\A k \in Key : objects[k] # None /\ objects'[k] # None =>
              objects'[k].owner >= objects[k].owner]_vars
    <2>. SUFFICES ASSUME TypeOK, OwnerInv, [Next]_vars, NEW k \in Key,
                         objects[k] # None, objects'[k] # None
                  PROVE  objects'[k].owner >= objects[k].owner
      OBVIOUS
    <2>1. objects[k].owner \in Nat
      BY DEF TypeOK, SecretKinds
    <2>2. ASSUME inst \in Instance, objects'[k].owner = inst.uid
          PROVE  objects'[k].owner >= objects[k].owner
      <3>1. OwnersUpTo(inst.uid) /\ inst.uid \in Nat
        BY <2>2, SomethingIsNotNone DEF OwnerInv, Instance
      <3>. QED
        BY <2>1, <2>2, <3>1 DEF OwnersUpTo
    <2>. QED
      BY <2>1, <2>2, OwnerStep
  <1>. QED
    BY <1>1, <1>2, <1>3, TypeCorrect, PTL DEF Spec, OwnersMoveForward

-----------------------------------------------------------------------------
(***************************************************************************)
(* A converged cluster stays so.  No fact about the disturbances before is *)
(* needed: from a steady state on, the calls hold what is wanted and find  *)
(* every object as they would build it.                                    *)
(***************************************************************************)

\* The role groups a call has still to register are groups of its NifiCluster.
TodoInv == pc # "idle" => todo \subseteq inst.spec.groups

\* At most one user option in each entry of git-sync.
OrdersFixed(syncs) == \A i \in DOMAIN syncs : \A a, b \in UserOptions(syncs[i]) : a = b

\* Then every call builds the same git-sync resources.
LEMMA OneBuild ==
    ASSUME NEW syncs, OrdersFixed(syncs),
           NEW x \in NewGitSyncResources(syncs), NEW y \in NewGitSyncResources(syncs)
    PROVE  x = y
  <1>1. ASSUME NEW i \in DOMAIN syncs,
               NEW f \in OptionOrders(syncs[i]), NEW h \in OptionOrders(syncs[i])
        PROVE  f = h
    <2>. DEFINE U == UserOptions(syncs[i])
                n == Cardinality(U)
    <2>1. f \in [1..n -> U] /\ h \in [1..n -> U]
      BY <1>1 DEF OptionOrders, Bijection, Injection
    <2>2. \A a, b \in U : a = b
      BY <1>1 DEF OrdersFixed
    <2>. HIDE DEF U, n
    <2>3. ASSUME NEW S PROVE \A c, d \in [S -> U] : c = d
      BY <2>2
    <2>. QED
      BY <2>1, <2>3, Zenon
  <1>2. ASSUME NEW f \in ArgOrders(syncs), NEW h \in ArgOrders(syncs) PROVE f = h
    <2>. DEFINE R == UNION {OptionOrders(syncs[i]) : i \in DOMAIN syncs}
    <2>1. /\ f \in [DOMAIN syncs -> R] /\ h \in [DOMAIN syncs -> R]
          /\ \A i \in DOMAIN syncs : f[i] \in OptionOrders(syncs[i])
          /\ \A i \in DOMAIN syncs : h[i] \in OptionOrders(syncs[i])
      BY <1>2 DEF ArgOrders
    <2>. HIDE DEF R
    <2>. QED
      BY <1>1, <2>1
  <1>3. PICK f1, f2 \in ArgOrders(syncs) : x = GitSyncResources(syncs, f1, f2)
    BY DEF NewGitSyncResources
  <1>4. PICK h1, h2 \in ArgOrders(syncs) : y = GitSyncResources(syncs, h1, h2)
    BY DEF NewGitSyncResources
  <1>. QED
    BY <1>2, <1>3, <1>4

\* An entry holds the arguments it was made from.
LEMMA EntryParts ==
    ASSUME NEW e
    PROVE  /\ \A a, b : e = Plain(a, b) => e = Plain(e.key[1], e.key[2]) /\ e.key[1] = a
           /\ \A a, b, auth : e = WithAuth(a, b, auth) =>
                 e = WithAuth(e.key[1], e.key[2], auth) /\ e.key[1] = a
           /\ \A a, b, auth, git : e = WithGit(a, b, auth, git) =>
                 e = WithGit(e.key[1], e.key[2], auth, git) /\ e.key[1] = a
  <1>1. \A a, b : Plain(a, b).key[1] = a /\ Plain(a, b).key[2] = b
    BY DEF Plain
  <1>2. \A a, b, auth : WithAuth(a, b, auth).key[1] = a /\ WithAuth(a, b, auth).key[2] = b
    BY DEF WithAuth
  <1>3. \A a, b, auth, git :
            WithGit(a, b, auth, git).key[1] = a /\ WithGit(a, b, auth, git).key[2] = b
    BY DEF WithGit
  <1>. QED
    BY <1>1, <1>2, <1>3

\* A wanted entry is determined by its key, and for a StatefulSet by the build of the
\* git-sync resources.
LEMMA EntryOfKey ==
    ASSUME NEW i \in Instance, NEW cls \in ClassMaps, NEW auth,
           auth = GetAuthentication(i.spec.authentication, cls),
           NEW e \in WantedOf(i, cls)
    PROVE  \/ /\ e = Plain(e.key[1], e.key[2])
              /\ e.key[1] \notin {"ConfigMap", "Job", "StatefulSet"}
           \/ /\ e = WithAuth(e.key[1], e.key[2], auth)
              /\ e.key[1] \in {"ConfigMap", "Job"}
           \/ /\ \E git \in NewGitSyncResources(i.spec.gitSync) :
                    e = WithGit(e.key[1], e.key[2], auth, git)
              /\ e.key[1] = "StatefulSet"
  <1>1. CASE e \in EntriesIn(registerRBACResources)
    <2>1. e \in {Plain("ServiceAccount", "cluster"), Plain("Role", "cluster"),
                  Plain("RoleBinding", "cluster")}
      BY <1>1, EntriesOfShortLists DEF registerRBACResources
    <2>2. PICK a \in {"ServiceAccount", "Role", "RoleBinding"} : e = Plain(a, "cluster")
      BY <2>1, Zenon
    <2>3. e = Plain(e.key[1], e.key[2]) /\ e.key[1] = a
      BY <2>2, EntryParts, Zenon
    <2>. QED
      BY <2>3
  <1>2. CASE e \in EntriesIn(sensitiveKeyReconciler)
    <2>1. e = Plain("SensitiveKey", "cluster")
      BY <1>2, EntriesOfShortLists DEF sensitiveKeyReconciler
    <2>. QED
      BY <2>1, EntryParts
  <1>3. CASE e \in EntriesIn(ReportingTaskResources(i.spec, auth))
    <2>1. e \in {Plain("ReportingService", "cluster"), WithAuth("Job", i.spec.version, auth)}
      BY <1>3, EntriesOfShortLists DEF ReportingTaskResources
    <2>. QED
      BY <2>1, EntryParts
  <1>4. ASSUME NEW g \in i.spec.groups, NEW git \in NewGitSyncResources(i.spec.gitSync),
               e \in EntriesIn(RoleGroupResources(g, auth, git))
        PROVE  \/ /\ e = Plain(e.key[1], e.key[2])
                  /\ e.key[1] \notin {"ConfigMap", "Job", "StatefulSet"}
               \/ /\ e = WithAuth(e.key[1], e.key[2], auth)
                  /\ e.key[1] \in {"ConfigMap", "Job"}
               \/ /\ e = WithGit(e.key[1], e.key[2], auth, git)
                  /\ e.key[1] = "StatefulSet"
    <2>1. \/ e = WithAuth("ConfigMap", g, auth) \/ e = WithGit("StatefulSet", g, auth, git)
          \/ e = Plain("Service", g) \/ e = Plain("AdminSecret", "cluster")
      BY <1>4, WantedViews, GroupEntries
    <2>. QED
      BY <2>1, EntryParts
  <1>. QED
    BY <1>1, <1>2, <1>3, <1>4, WantedCases DEF WantedOf

\* Two wanted entries for one key are the same, but for the build of git-sync.
LEMMA SameKeySameEntry ==
    ASSUME NEW i \in Instance, NEW cls \in ClassMaps,
           NEW e \in WantedOf(i, cls), NEW f \in WantedOf(i, cls), e.key = f.key
    PROVE  e = f \/ (e.key[1] = "StatefulSet" /\ ~OrdersFixed(i.spec.gitSync))
  <1>. DEFINE auth == GetAuthentication(i.spec.authentication, cls)
  <1>1. CASE e.key[1] # "StatefulSet"
    BY <1>1, EntryOfKey
  <1>2. CASE e.key[1] = "StatefulSet" /\ OrdersFixed(i.spec.gitSync)
    <2>1. PICK x \in NewGitSyncResources(i.spec.gitSync) :
              e = WithGit(e.key[1], e.key[2], auth, x)
      BY <1>2, EntryOfKey
    <2>2. PICK y \in NewGitSyncResources(i.spec.gitSync) :
              f = WithGit(f.key[1], f.key[2], auth, y)
      BY <1>2, EntryOfKey
    <2>3. x = y
      BY <1>2, OneBuild
    <2>. QED
      BY <2>1, <2>2, <2>3
  <1>. QED
    BY <1>1, <1>2

\* Steps that are no disturbance.
LEMMA QuietStep ==
    ASSUME TypeOK, seen = cr, [Next]_vars, budget' = budget
    PROVE  /\ UNCHANGED <<cr, seen, classes>>
           /\ \/ EndCall
              \/ UNCHANGED local
              \/ StartReconcile
              \/ \E g \in RoleGroups : RegisterRoleGroup(g)
              \/ FinishRegistration
              \/ /\ Running /\ NextResource
                 /\ SkipExistingSecret \/ UpToDate \/ WriteResource
           /\ \A k \in Key : ~DeleteObject(k)
           /\ ~ProvideKey /\ ~ProvideAdminSecret
  <1>1. \A kind : ~Disturb(kind)
    BY DEF Disturb, TypeOK
  <1>2. ~WatchEvent
    BY DEF WatchEvent
  <1>3. /\ ~DeleteCluster /\ ~ProvideKey /\ ~ProvideAdminSecret /\ ~ApiError /\ ~Restart
        /\ ~UpdateGrants /\ \A k \in Key : ~DeleteObject(k)
        /\ \A x \in Specs : ~EditSpec(x) /\ ~CreateCluster(x)
        /\ \A c \in AuthClasses, p \in NewProviders : ~EditClass(c, p)
    BY <1>1, Zenon
       DEF DeleteCluster, ProvideKey, ProvideAdminSecret, ApiError, Restart, UpdateGrants,
                DeleteObject, EditSpec, CreateCluster, EditClass
  <1>4. CASE \/ RegisterRoleGroupError \/ FinishRegistrationError \/ Forbidden \/ AdminItemError
             \/ MissingKeyError \/ BuildError \/ JobUpdateRejected \/ EndReconcile
    BY <1>3, <1>4, Zenon
       DEF RegisterRoleGroupError, FinishRegistrationError, Forbidden, AdminItemError,
         MissingKeyError, BuildError, JobUpdateRejected, EndReconcile, RequeueWithError
  <1>5. CASE WriteResource \/ SkipExistingSecret \/ UpToDate
    BY <1>3, <1>5 DEF WriteResource, SkipExistingSecret, UpToDate
  <1>6. CASE \/ StartReconcile \/ FinishRegistration \/ \E g \in RoleGroups : RegisterRoleGroup(g)
    BY <1>3, <1>6, Zenon DEF StartReconcile, FinishRegistration, RegisterRoleGroup
  <1>7. CASE \/ IgnoreDeleted \/ Resync \/ UNCHANGED vars
             \/ \E k \in Key : GarbageCollect(k)
             \/ \E v \in V1Versions : JobExpires(v)
    BY <1>3, <1>7, Zenon DEF IgnoreDeleted, Resync, vars, GarbageCollect, JobExpires
  <1>. QED
    BY <1>2, <1>3, <1>4, <1>5, <1>6, <1>7, NextCases

\* The entries of a call in a steady state stay wanted ones.
LEMMA SteadyCall ==
    ASSUME TypeOK, TodoInv, Steady, [Next]_vars, budget' = budget
    PROVE  pc' # "idle" =>
              inst' = cr /\ EntriesIn(resources') \subseteq WantedOf(cr, classes)
  <1>1. /\ cr \in Instance /\ seen = cr /\ classes \in ClassMaps /\ resources \in Seq(Entry)
        /\ pc # "idle" => inst = cr /\ EntriesIn(resources) \subseteq WantedOf(cr, classes)
    BY DEF Steady, TypeOK, WantedOf, ClusterAuth
  <1>. DEFINE auth == GetAuthentication(cr.spec.authentication, classes)
  <1>2. /\ cr.spec \in Specs /\ cr.spec.groups \subseteq RoleGroups /\ auth \in Views
        /\ NoAuthentication \in Views /\ NewGitSyncResources(cr.spec.gitSync) \subseteq GitViews
    BY <1>1, WantedViews
  <1>3. CASE EndCall
    BY <1>3 DEF EndCall
  <1>4. CASE UNCHANGED local
    BY <1>1, <1>4 DEF local
  <1>5. CASE StartReconcile
    <2>1. inst' = cr /\ resources' = registerRBACResources
      BY <1>1, <1>5 DEF StartReconcile
    <2>. QED
      BY <2>1, WantedCases DEF WantedOf
  <1>6. ASSUME NEW g \in RoleGroups, RegisterRoleGroup(g)
        PROVE  inst' = cr /\ EntriesIn(resources') \subseteq WantedOf(cr, classes)
    <2>1. inst = cr /\ inst' = inst /\ g \in cr.spec.groups /\ CurrentAuth = auth
      BY <1>1, <1>6 DEF RegisterRoleGroup, TodoInv, CurrentAuth
    <2>2. PICK git \in NewGitSyncResources(cr.spec.gitSync) :
            resources' = resources \o RoleGroupResources(g, auth, git)
      BY <1>6, <2>1 DEF RegisterRoleGroup
    <2>. DEFINE new == RoleGroupResources(g, auth, git)
    <2>3. EntriesIn(new) \subseteq WantedOf(cr, classes)
      BY <2>1, <2>2, WantedCases DEF WantedOf
    <2>4. new \in Seq(Entry)
      BY <1>2, RegistrationTypes
    <2>. HIDE DEF new
    <2>5. EntriesIn(resources \o new) = EntriesIn(resources) \cup EntriesIn(new)
      BY <1>1, <2>4, EntriesOfConcatenation
    <2>6. EntriesIn(resources) \subseteq WantedOf(cr, classes)
      BY <1>1, <1>6 DEF RegisterRoleGroup
    <2>. QED
      BY <2>1, <2>2, <2>3, <2>5, <2>6 DEF new
  <1>7. CASE FinishRegistration
    <2>1. pc = "register" /\ inst = cr /\ CurrentAuth = auth
      BY <1>1, <1>7 DEF FinishRegistration, CurrentAuth
    <2>2. CASE inst.spec.paused
      BY <1>7, <2>2 DEF FinishRegistration, EndCall
    <2>3. CASE ~inst.spec.paused
      <3>. DEFINE new == ReportingTaskResources(cr.spec, auth)
      <3>1. inst' = cr /\ resources' = (resources \o sensitiveKeyReconciler) \o new
        BY <1>7, <2>1, <2>3 DEF FinishRegistration
      <3>2. sensitiveKeyReconciler \in Seq(Entry) /\ new \in Seq(Entry)
        BY <1>2, RegistrationTypes
      <3>3. EntriesIn(new) \subseteq WantedOf(cr, classes)
              /\ EntriesIn(sensitiveKeyReconciler) \subseteq WantedOf(cr, classes)
        BY WantedCases DEF WantedOf
      <3>. HIDE DEF new
      <3>4. /\ resources \o sensitiveKeyReconciler \in Seq(Entry)
            /\ EntriesIn(resources \o sensitiveKeyReconciler) =
                 EntriesIn(resources) \cup EntriesIn(sensitiveKeyReconciler)
        BY <1>1, <3>2, EntriesOfConcatenation
      <3>5. \A s \in Seq(Entry) : EntriesIn(s \o new) = EntriesIn(s) \cup EntriesIn(new)
        BY <3>2, EntriesOfConcatenation
      <3>6. EntriesIn(resources) \subseteq WantedOf(cr, classes)
        BY <1>1, <2>1
      <3>. QED
        BY <3>1, <3>3, <3>4, <3>5, <3>6, Zenon
    <2>. QED
      BY <2>2, <2>3
  <1>8. CASE Running /\ NextResource
    <2>1. pc = "run" /\ resources # << >> /\ inst' = inst /\ resources' = Tail(resources)
      BY <1>8 DEF Running, NextResource
    <2>2. EntriesIn(resources) = {Head(resources)} \cup EntriesIn(Tail(resources))
      BY <1>1, <2>1, EntriesOfTail
    <2>. QED
      BY <1>1, <2>1, <2>2
  <1>. QED
    BY <1>1, <1>3, <1>4, <1>5, <1>6, <1>7, <1>8, QuietStep

\* What a wanted object may become: a Job goes or comes back, a StatefulSet may take
\* another order of the options.
LEMMA SteadyObject ==
    ASSUME TypeOK, Steady, [Next]_vars, budget' = budget, NEW e \in WantedOf(cr, classes)
    PROVE  \/ objects'[e.key] = objects[e.key]
           \/ e.key[1] = "Job" /\ objects'[e.key] = None
           \/ /\ \E f \in WantedOf(cr, classes) :
                    f.key = e.key /\ objects'[e.key] = DesiredObject(f, cr, classes)
              /\ \/ e.key[1] = "Job"
                 \/ e.key[1] = "StatefulSet" /\ ~OrdersFixed(cr.spec.gitSync)
  <1>1. /\ cr \in Instance /\ classes \in ClassMaps
        /\ seen = cr
        /\ pc # "idle" => inst = cr /\ EntriesIn(resources) \subseteq WantedOf(cr, classes)
        /\ \A x \in WantedOf(cr, classes) : objects[x.key] # None =>
              objects[x.key].owner \in {0, cr.uid}
        /\ \A x \in WantedOf(cr, classes) :
              \E f \in WantedOf(cr, classes) : f.key = x.key /\ Matches(f)
    BY DEF Steady, TypeOK, WantedOf, ClusterAuth, Converged
  <1>2. e.key \in Key
    BY <1>1, WantedAreEntries DEF Entry
  <1>3. ~GarbageCollect(e.key) /\ ~DeleteObject(e.key) /\ ~ProvideKey /\ ~ProvideAdminSecret
    <2>1. ~GarbageCollect(e.key)
      BY <1>1, SomethingIsNotNone DEF GarbageCollect
    <2>. QED
      BY <1>1, <1>2, <2>1, QuietStep
  <1>4. CASE WriteResource /\ Current.key = e.key /\ objects'[e.key] = Desired
    <2>1. Running /\ MayWrite /\ inst = cr /\ pc = "run"
      BY <1>1, <1>4 DEF WriteResource, Running
    <2>2. Current \in WantedOf(cr, classes)
      <3>1. resources \in Seq(Entry) /\ resources # << >>
        BY <2>1 DEF TypeOK, Running
      <3>2. EntriesIn(resources) = {Head(resources)} \cup EntriesIn(Tail(resources))
        BY <3>1, EntriesOfTail
      <3>. QED
        BY <1>1, <2>1, <3>2 DEF Current
    <2>3. PICK f \in WantedOf(cr, classes) : f.key = Current.key /\ Matches(f)
      BY <1>1, <2>2
    <2>4. CASE IsSecret
      <3>1. Stored = None
        BY <2>1, <2>4 DEF MayWrite
      <3>2. objects[f.key] # None
        BY <2>3, <2>4, Zenon DEF Matches, IsSecret, SecretKinds
      <3>. QED
        BY <2>3, <3>1, <3>2 DEF Stored
    <2>5. CASE ~IsSecret
      <3>1. Desired = DesiredObject(Current, cr, classes) /\ Stored # Desired
        BY <2>1, <2>5 DEF Desired, MayWrite
      <3>2. CASE e.key[1] = "Job"
        BY <1>4, <2>2, <3>1, <3>2
      <3>3. CASE e.key[1] # "Job"
        <4>1. Stored = DesiredObject(f, cr, classes)
          BY <1>4, <2>3, <2>5, <3>3 DEF Matches, IsSecret, Stored
        <4>2. f # Current
          BY <3>1, <4>1
        <4>3. Current.key[1] = "StatefulSet" /\ ~OrdersFixed(cr.spec.gitSync)
          BY <1>1, <2>2, <2>3, <4>2, SameKeySameEntry
        <4>. QED
          BY <1>4, <2>2, <3>1, <4>3
      <3>. QED
        BY <3>2, <3>3
    <2>. QED
      BY <2>4, <2>5
  <1>. QED
    BY <1>2, <1>3, <1>4, ObjectStep, Zenon

\* An object that is left alone goes on matching.
LEMMA MatchesStays ==
    ASSUME NEW f, Matches(f), objects'[f.key] = objects[f.key], cr' = cr, classes' = classes
    PROVE  Matches(f)'
  BY Zenon DEF Matches

\* A steady state leads to a steady state.
LEMMA SteadyNext ==
    ASSUME TypeOK, TodoInv, Steady, [Next]_vars, budget' = budget
    PROVE  /\ Steady'
           /\ \A e \in WantedEntries(cr.spec, ClusterAuth) :
                 \/ UNCHANGED objects[e.key]
                 \/ e.key[1] = "Job"
                 \/ e.key[1] = "StatefulSet"
                      /\ \E i \in DOMAIN cr.spec.gitSync :
                            \E a, b \in UserOptions(cr.spec.gitSync[i]) : a # b
  <1>. DEFINE W == WantedOf(cr, classes)
  <1>1. /\ cr \in Instance /\ classes \in ClassMaps /\ cr # None /\ seen = cr
        /\ WantedEntries(cr.spec, ClusterAuth) = W
        /\ \A e \in W : objects[e.key] # None => objects[e.key].owner \in {0, cr.uid}
        /\ \A e \in W : \E f \in W : f.key = e.key /\ Matches(f)
    BY DEF Steady, TypeOK, WantedOf, ClusterAuth, Converged
  <1>2. cr' = cr /\ seen' = seen /\ classes' = classes /\ ClusterAuth' = ClusterAuth
    BY <1>1, QuietStep DEF ClusterAuth
  <1>3. pc' # "idle" => inst' = cr /\ EntriesIn(resources') \subseteq W
    BY SteadyCall
  <1>4. \A e \in W : \/ objects'[e.key] = objects[e.key]
                     \/ e.key[1] = "Job" /\ objects'[e.key] = None
                     \/ /\ \E f \in W :
                             f.key = e.key /\ objects'[e.key] = DesiredObject(f, cr, classes)
                        /\ \/ e.key[1] = "Job"
                           \/ e.key[1] = "StatefulSet" /\ ~OrdersFixed(cr.spec.gitSync)
    BY SteadyObject
  <1>. HIDE DEF W
  <1>5. ASSUME NEW e \in W PROVE \E f \in W : f.key = e.key /\ Matches(f)'
    <2>1. PICK f \in W : f.key = e.key /\ Matches(f)
      BY <1>1
    <2>2. CASE objects'[e.key] = objects[e.key]
      <3>1. Matches(f)'
        BY <1>2, <2>1, <2>2, MatchesStays
      <3>. QED
        BY <2>1, <3>1, Zenon
    <2>3. CASE e.key[1] = "Job" /\ objects'[e.key] = None
      BY <1>2, <2>1, <2>3, Zenon DEF Matches, SecretKinds
    <2>4. ASSUME NEW h \in W, h.key = e.key, objects'[e.key] = DesiredObject(h, cr, classes),
                 e.key[1] \in {"Job", "StatefulSet"}
          PROVE  Matches(h)'
      BY <1>2, <2>4, Zenon DEF Matches, SecretKinds
    <2>. QED
      BY <1>4, <2>1, <2>2, <2>3, <2>4
  <1>6. ASSUME NEW e \in W, objects'[e.key] # None PROVE objects'[e.key].owner \in {0, cr.uid}
    <2>1. \A f : DesiredObject(f, cr, classes).owner = cr.uid
      BY DEF DesiredObject
    <2>2. CASE objects'[e.key] = objects[e.key]
      BY <1>1, <1>6, <2>2, Zenon
    <2>3. ASSUME NEW f, objects'[e.key] = DesiredObject(f, cr, classes)
          PROVE  objects'[e.key].owner \in {0, cr.uid}
      BY <2>1, <2>3, Zenon
    <2>. QED
      BY <1>4, <1>6, <2>2, <2>3, Zenon
  <1>7. WantedEntries(cr.spec, ClusterAuth)' = W
    BY <1>1, <1>2
  <1>8. Converged'
    BY <1>5, <1>7 DEF Converged
  <1>9. Steady'
    BY <1>1, <1>2, <1>3, <1>6, <1>7, <1>8 DEF Steady
  <1>. QED
    BY <1>1, <1>4, <1>9, Zenon DEF OrdersFixed

\* The role groups to do are always groups of the call's NifiCluster.
LEMMA TodoStep ==
    ASSUME TypeOK, TodoInv, [Next]_vars
    PROVE  TodoInv'
  <1>1. CASE StartReconcile
    BY <1>1 DEF StartReconcile, TodoInv
  <1>2. CASE FinishRegistration \/ \E g \in RoleGroups : RegisterRoleGroup(g)
    BY <1>2 DEF FinishRegistration, RegisterRoleGroup, EndCall, TodoInv
  <1>3. CASE WriteResource \/ SkipExistingSecret \/ UpToDate
    BY <1>3 DEF WriteResource, SkipExistingSecret, UpToDate, NextResource, EndCall, TodoInv
  <1>4. CASE \/ RegisterRoleGroupError \/ FinishRegistrationError \/ Forbidden \/ AdminItemError
             \/ MissingKeyError \/ BuildError \/ JobUpdateRejected \/ ApiError \/ EndReconcile
             \/ Restart
    BY <1>4, Zenon DEF RegisterRoleGroupError, FinishRegistrationError, Forbidden, AdminItemError,
         MissingKeyError, BuildError, JobUpdateRejected, ApiError, EndReconcile, Restart,
         RequeueWithError, EndCall, TodoInv
  <1>5. CASE \/ IgnoreDeleted \/ WatchEvent \/ Resync \/ DeleteCluster \/ ProvideKey
             \/ ProvideAdminSecret \/ UpdateGrants \/ UNCHANGED vars
             \/ \E k \in Key : GarbageCollect(k) \/ DeleteObject(k)
             \/ \E v \in V1Versions : JobExpires(v)
             \/ \E x \in Specs : EditSpec(x) \/ CreateCluster(x)
             \/ \E c \in AuthClasses, p \in NewProviders : EditClass(c, p)
    BY <1>5, Zenon DEF IgnoreDeleted, WatchEvent, Resync, DeleteCluster, ProvideKey,
         ProvideAdminSecret, UpdateGrants, vars, GarbageCollect, DeleteObject, JobExpires,
         EditSpec, CreateCluster, EditClass, local, TodoInv
  <1>. QED
    BY <1>1, <1>2, <1>3, <1>4, <1>5, NextCases

\* Whatever happened before, a cluster that is what its spec asks for stays so until
\* the next disturbance, and no call rewrites anything but an expired Job and
\* StatefulSets whose options have no fixed order.
THEOREM ConvergedStays == Spec => SteadyStays
  <1>1. Init => TodoInv
    BY DEF Init, TodoInv
  <1>2. TypeOK /\ TodoInv /\ [Next]_vars => TodoInv'
    BY TodoStep
  <1>3. TypeOK /\ TodoInv /\ [Next]_vars =>
          [Steady /\ budget' = budget =>
             /\ Steady'
             /\ \A e \in WantedEntries(cr.spec, ClusterAuth) :
                   \/ UNCHANGED objects[e.key]
                   \/ e.key[1] = "Job"
                   \/ e.key[1] = "StatefulSet"
                        /\ \E i \in DOMAIN cr.spec.gitSync :
                              \E a, b \in UserOptions(cr.spec.gitSync[i]) : a # b]_vars
    BY SteadyNext
  <1>. QED
    BY <1>1, <1>2, <1>3, TypeCorrect, PTL DEF Spec, SteadyStays

=============================================================================
