----------------------- MODULE UndisturbedCalls_proofs -----------------------
(***************************************************************************)
(* What one undisturbed call achieves, with no assumption on the           *)
(* disturbances before it.  A call that read the latest NifiCluster        *)
(* registers everything that is wanted, and an object it has dealt with    *)
(* stays as it is: it is now owned by the NifiCluster that exists, so the  *)
(* garbage collector leaves it alone.                                      *)
(***************************************************************************)
EXTENDS UndisturbedCalls, OperatorSteps_proofs

\* The secret obj has its item.
HasItem(obj) == obj # None /\ obj.body # "no item"

\* Every wanted secret is still to come or has its item.
ItemInv ==
    pc = "run" =>
        \A e \in WantedOf(inst, classes) :
            e.key[1] \in SecretKinds => e.key \in KeysIn(resources) \/ HasItem(objects[e.key])

\* The account an undisturbed call keeps of the wanted objects.
AccountInv == CallInv /\ RegisterInv /\ RunInv /\ CallUsable /\ ItemInv

\* The inductive invariant.
TrackInv == undisturbed => pc # "idle" /\ inst = cr /\ seen = cr /\ AccountInv

\* What a quiet step leaves of an object that the call does not write.
LEMMA UndisturbedObject ==
    ASSUME TypeOK, cr # None, seen = cr, [Next]_vars, budget' = budget, ~SecretCollected,
           NEW k \in Key, ~(WriteResource /\ Current.key = k), Done(k, cr, classes, objects[k])
    PROVE  objects'[k] = objects[k] \/ (k[1] = "Job" /\ objects'[k] = None)
  <1>1. PICK e \in WantedOf(cr, classes) : e.key = k /\ MatchedBy(e, cr, classes, objects[k])
    BY DEF Done
  <1>2. ASSUME GarbageCollect(k), objects'[k] = None PROVE k[1] = "Job"
    <2>1. objects[k] # None /\ cr.uid # objects[k].owner
      BY <1>2 DEF GarbageCollect
    <2>2. k[1] \notin SecretKinds
      BY <1>2, <2>1 DEF SecretCollected
    <2>3. objects[k] # DesiredObject(e, cr, classes)
      BY <2>1 DEF DesiredObject
    <2>. QED
      BY <1>1, <2>2, <2>3 DEF MatchedBy
  <1>3. ~DeleteObject(k) /\ ~ProvideKey /\ ~ProvideAdminSecret
    BY QuietStep
  <1>. QED
    BY <1>2, <1>3, ObjectStep, Zenon

\* So what matches goes on matching, and a secret keeps its item.
LEMMA UndisturbedStays ==
    ASSUME TypeOK, cr # None, seen = cr, [Next]_vars, budget' = budget, ~SecretCollected,
           NEW e \in WantedOf(cr, classes), ~(WriteResource /\ Current.key = e.key)
    PROVE  /\ Done(e.key, cr, classes, objects[e.key]) =>
                 Done(e.key, cr, classes, objects'[e.key])
           /\ e.key[1] \in SecretKinds /\ HasItem(objects[e.key]) => HasItem(objects'[e.key])
  <1>1. e.key \in Key
    BY WantedAreEntries DEF Entry, TypeOK
  <1>2. ASSUME Done(e.key, cr, classes, objects[e.key])
        PROVE  \/ objects'[e.key] = objects[e.key]
               \/ e.key[1] = "Job" /\ objects'[e.key] = None
    BY <1>1, <1>2, UndisturbedObject
  <1>3. e.key[1] = "Job" => Done(e.key, cr, classes, None)
    BY MatchedByCases DEF Done
  <1>4. ASSUME e.key[1] \in SecretKinds, HasItem(objects[e.key]) PROVE HasItem(objects'[e.key])
    <2>1. Done(e.key, cr, classes, objects[e.key])
      BY <1>4, MatchedByCases, Zenon DEF Done, HasItem
    <2>2. e.key[1] # "Job"
      BY <1>4 DEF SecretKinds
    <2>. QED
      BY <1>2, <1>4, <2>1, <2>2
  <1>. QED
    BY <1>2, <1>3, <1>4

\* A reconciler leaves a secret only when it has its item.
LEMMA HeadHasItem ==
    ASSUME TypeOK, KeyInv, IsSecret, SkipExistingSecret \/ UpToDate \/ WriteResource
    PROVE  HasItem(objects'[Current.key])
  <1>1. Running /\ Current.key \in Key
    BY RunningType DEF SkipExistingSecret, UpToDate, WriteResource
  <1>2. CASE SkipExistingSecret
    <2>1. Stored # None /\ ~AdminItemMissing /\ objects' = objects
      BY <1>2 DEF SkipExistingSecret
    <2>2. CASE Current.key = AdminSecret
      BY <2>1, <2>2, Zenon DEF AdminItemMissing, Stored, HasItem
    <2>3. CASE Current.key = SensitiveKey
      BY <2>1, <2>3, Zenon DEF KeyInv, KeyObjects, Stored, HasItem
    <2>4. Current.key = AdminSecret \/ Current.key = SensitiveKey
      <3>1. \E n : Current.key = <<Current.key[1], n>> /\ (IsSecret => n = "cluster")
        BY <1>1 DEF Key, IsSecret, SecretKinds, RbacKinds, GroupKinds
      <3>2. Current.key[1] = "AdminSecret" \/ Current.key[1] = "SensitiveKey"
        BY DEF IsSecret, SecretKinds
      <3>. QED
        BY <3>1, <3>2 DEF AdminSecret, SensitiveKey, KeyOf
    <2>. QED
      BY <2>2, <2>3, <2>4
  <1>3. CASE WriteResource
    <2>1. objects'[Current.key] = [owner |-> inst.uid, body |-> RandomKey]
      BY <1>1, <1>3 DEF WriteResource, Desired, TypeOK
    <2>2. RandomKey # "no item"
      BY DEF RandomKey
    <2>3. \A o, b : b # "no item" => HasItem([owner |-> o, body |-> b])
      BY SomethingIsNotNone, Zenon DEF HasItem
    <2>. QED
      BY <2>1, <2>2, <2>3, Zenon
  <1>. QED
    BY <1>2, <1>3 DEF UpToDate

\* The call reads the latest NifiCluster and starts its list.
LEMMA AccountStart ==
    ASSUME TypeOK, classes' = classes, StartReconcile
    PROVE  AccountInv'
  <1>1. pc' = "register" /\ inst' = seen /\ todo' = seen.spec.groups
    BY DEF StartReconcile
  <1>2. CallUsable' /\ ItemInv'
    BY <1>1 DEF CallUsable, ItemInv
  <1>. QED
    BY <1>2, StartStep DEF AccountInv

\* Registration.
LEMMA AccountRegister ==
    ASSUME TypeOK, AccountInv, classes' = classes,
           FinishRegistration \/ \E g \in RoleGroups : RegisterRoleGroup(g)
    PROVE  AccountInv'
  <1>1. CallUsable'
    BY CallUsableStep DEF AccountInv
  <1>2. ASSUME NEW g \in RoleGroups, RegisterRoleGroup(g) PROVE AccountInv'
    <2>1. pc' = "register"
      BY <1>2 DEF RegisterRoleGroup
    <2>2. CallInv' /\ RegisterInv' /\ RunInv'
      BY <1>2, RegisterStep DEF AccountInv
    <2>. QED
      BY <1>1, <2>1, <2>2 DEF AccountInv, ItemInv
  <1>3. CASE FinishRegistration
    <2>1. /\ CallInv' /\ RegisterInv' /\ RunInv'
          /\ pc' = "run" => \A e \in WantedOf(inst, classes) : e.key \in KeysIn(resources')
      BY <1>3, FinishStep DEF AccountInv
    <2>2. pc' = "run" => inst' = inst
      BY <1>3 DEF FinishRegistration, EndCall
    <2>3. ItemInv'
      BY <2>1, <2>2 DEF ItemInv
    <2>. QED
      BY <1>1, <2>1, <2>3 DEF AccountInv
  <1>. QED
    BY <1>2, <1>3

\* A step beside the call.
LEMMA AccountInPlace ==
    ASSUME TypeOK, AccountInv, pc # "idle", inst = cr, seen = cr, seen' = seen,
           classes' = classes, UNCHANGED local,
           [Next]_vars, budget' = budget, ~SecretCollected
    PROVE  AccountInv'
  <1>1. UNCHANGED <<pc, inst, todo, resources>> /\ cr # None /\ ~WriteResource
    BY NoWriteInPlace DEF local, TypeOK
  <1>2. \A e \in WantedOf(cr, classes) :
          /\ Done(e.key, cr, classes, objects[e.key]) =>
                Done(e.key, cr, classes, objects'[e.key])
          /\ e.key[1] \in SecretKinds /\ HasItem(objects[e.key]) => HasItem(objects'[e.key])
    BY <1>1, UndisturbedStays
  <1>3. CallInv'
    BY <1>1 DEF AccountInv, CallInv
  <1>4. RegisterInv'
    <2>1. CurrentAuth' = CurrentAuth
      BY <1>1 DEF CurrentAuth
    <2>. QED
      BY <1>1, <2>1 DEF AccountInv, RegisterInv
  <1>5. RunInv'
    BY <1>1, <1>2 DEF AccountInv, RunInv
  <1>6. ItemInv'
    BY <1>1, <1>2 DEF AccountInv, ItemInv
  <1>7. CallUsable'
    BY <1>1, CallUsableStep DEF AccountInv
  <1>. QED
    BY <1>3, <1>4, <1>5, <1>6, <1>7 DEF AccountInv

\* A reconciler's step.
LEMMA AccountResource ==
    ASSUME TypeOK, KeyInv, AccountInv, inst = cr, seen = cr, seen' = seen, classes' = classes,
           Running, NextResource, SkipExistingSecret \/ UpToDate \/ WriteResource,
           [Next]_vars, budget' = budget, ~SecretCollected
    PROVE  AccountInv'
  <1>1. pc = "run" /\ resources # << >> /\ resources \in Seq(Entry) /\ cr # None
    BY DEF Running, TypeOK
  <1>2. pc' = pc /\ inst' = inst /\ resources' = Tail(resources)
    BY DEF NextResource
  <1>3. \A e \in WantedOf(cr, classes) : e.key # Current.key =>
          /\ Done(e.key, cr, classes, objects[e.key]) =>
                Done(e.key, cr, classes, objects'[e.key])
          /\ e.key[1] \in SecretKinds /\ HasItem(objects[e.key]) => HasItem(objects'[e.key])
    BY <1>1, UndisturbedStays, Zenon
  <1>4. CallInv' /\ RegisterInv' /\ RunInv'
    BY <1>3, ResourceStep DEF AccountInv
  <1>5. ItemInv'
    <2>1. EntriesIn(resources) = {Current} \cup EntriesIn(resources')
      BY <1>1, <1>2, EntriesOfTail DEF Current
    <2>2. KeysIn(resources) = {Current.key} \cup KeysIn(resources')
      BY <2>1 DEF KeysIn
    <2>3. ASSUME NEW e \in WantedOf(cr, classes), e.key[1] \in SecretKinds
          PROVE  e.key \in KeysIn(resources') \/ HasItem(objects'[e.key])
      <3>1. CASE e.key = Current.key
        BY <2>3, <3>1, HeadHasItem DEF IsSecret
      <3>2. CASE e.key # Current.key
        <4>1. e.key \in KeysIn(resources) \/ HasItem(objects[e.key])
          BY <1>1, <2>3 DEF AccountInv, ItemInv
        <4>. QED
          BY <1>3, <2>2, <2>3, <3>2, <4>1
      <3>. QED
        BY <3>1, <3>2
    <2>. QED
      BY <1>2, <2>3 DEF ItemInv
  <1>6. CallUsable'
    BY CallUsableStep DEF AccountInv
  <1>. QED
    BY <1>4, <1>5, <1>6 DEF AccountInv

\* Every step keeps the invariant.
LEMMA TrackStep ==
    ASSUME TypeOK, KeyInv, TrackInv, [HistoryNext]_historyVars
    PROVE  TrackInv'
  <1>. SUFFICES ASSUME undisturbed'
                PROVE  pc' # "idle" /\ inst' = cr' /\ seen' = cr' /\ AccountInv'
    BY DEF TrackInv
  <1>1. /\ [Next]_vars /\ pc' # "idle" /\ budget' = budget /\ ~SecretCollected
        /\ pc # "idle" => undisturbed
        /\ pc = "idle" => seen = cr
    <2>1. CASE HistoryNext
      BY <2>1, Zenon DEF HistoryNext, Record
    <2>2. CASE UNCHANGED historyVars
      BY <2>2 DEF historyVars, vars, local, TrackInv, SecretCollected
    <2>. QED
      BY <2>1, <2>2
  <1>2. seen = cr /\ (pc # "idle" => inst = cr /\ AccountInv)
    BY <1>1 DEF TrackInv
  <1>3. /\ UNCHANGED <<cr, seen, classes>>
        /\ \/ EndCall
           \/ UNCHANGED local
           \/ StartReconcile
           \/ FinishRegistration \/ \E g \in RoleGroups : RegisterRoleGroup(g)
           \/ /\ Running /\ NextResource
              /\ SkipExistingSecret \/ UpToDate \/ WriteResource
    BY <1>1, <1>2, QuietStep
  <1>4. CASE EndCall
    BY <1>1, <1>4 DEF EndCall
  <1>5. CASE UNCHANGED local
    <2>1. pc # "idle" /\ inst' = inst
      BY <1>1, <1>5 DEF local
    <2>. QED
      BY <1>1, <1>2, <1>3, <1>5, <2>1, AccountInPlace
  <1>6. CASE StartReconcile
    <2>1. inst' = seen
      BY <1>6 DEF StartReconcile
    <2>. QED
      BY <1>1, <1>2, <1>3, <1>6, <2>1, AccountStart
  <1>7. CASE FinishRegistration \/ \E g \in RoleGroups : RegisterRoleGroup(g)
    <2>1. pc # "idle" /\ inst' = inst
      BY <1>1, <1>7 DEF FinishRegistration, RegisterRoleGroup, EndCall
    <2>. QED
      BY <1>1, <1>2, <1>3, <1>7, <2>1, AccountRegister
  <1>8. CASE Running /\ NextResource /\ (SkipExistingSecret \/ UpToDate \/ WriteResource)
    <2>1. pc # "idle" /\ inst' = inst
      BY <1>8 DEF Running, NextResource
    <2>. QED
      BY <1>1, <1>2, <1>3, <1>8, <2>1, AccountResource
  <1>. QED
    BY <1>3, <1>4, <1>5, <1>6, <1>7, <1>8

\* An undisturbed call that has gone through its list has done everything.
LEMMA TrackEnd ==
    ASSUME TypeOK, TrackInv
    PROVE  UndisturbedCallsRepair
  <1>. SUFFICES ASSUME undisturbed, pc = "run", resources = << >>
                PROVE  Converged /\ PodsFit /\ ReportingTaskFits
    BY DEF UndisturbedCallsRepair
  <1>1. inst = cr /\ AccountInv /\ inst \in Instance /\ classes \in ClassMaps
    BY DEF TrackInv, TypeOK
  <1>2. KeysIn(resources) = {}
    BY EntriesOfShortLists DEF KeysIn
  <1>3. \A e \in WantedOf(cr, classes) : Done(e.key, cr, classes, objects[e.key])
    BY <1>1, <1>2 DEF AccountInv, RunInv
  <1>4. \A e \in WantedOf(cr, classes) : e.key[1] \in SecretKinds => HasItem(objects[e.key])
    BY <1>1, <1>2 DEF AccountInv, ItemInv
  <1>5. Converged
    BY <1>3, <1>4, DoneConverged, Zenon DEF HasItem
  <1>6. CarriedOut
    BY <1>1, <1>3 DEF CarriedOut, AccountInv, CallUsable
  <1>. QED
    BY <1>5, <1>6, BuiltPodsFit, BuiltReportingTaskFits

\* The invariant holds in every reachable state.
LEMMA Tracked == HistorySpec => []TypeOK /\ []TrackInv
  <1>1. HistoryInit => Init /\ TrackInv
    BY DEF HistoryInit, TrackInv
  <1>2. [HistoryNext]_historyVars => [Next]_vars
    BY DEF HistoryNext, historyVars
  <1>3. HistorySpec => Spec
    BY <1>1, <1>2, PTL DEF HistorySpec, Spec
  <1>4. TypeOK /\ KeyInv /\ TrackInv /\ [HistoryNext]_historyVars => TrackInv'
    BY TrackStep
  <1>. QED
    BY <1>1, <1>3, <1>4, TypeCorrect, KeyIsProper, PTL DEF HistorySpec

\* Whatever happened before (deletions and re-creations of the NifiCluster, deleted
\* objects and edited classes, which the operator does not see, failures, restarts), one
\* call that read the latest NifiCluster and was not disturbed repairs everything, for
\* any role groups and specs: the resync needs no second try.
THEOREM UndisturbedCallsRepairEverything == HistorySpec => []UndisturbedCallsRepair
  <1>1. TypeOK /\ TrackInv => UndisturbedCallsRepair
    BY TrackEnd
  <1>. QED
    BY <1>1, Tracked, PTL

\* The admin secret is wanted for LDAP only.
LEMMA AdminSecretIsForLdap ==
    ASSUME NEW i \in Instance, NEW cls \in ClassMaps, NEW e \in WantedOf(i, cls),
           e.key = AdminSecret
    PROVE  GetAuthentication(i.spec.authentication, cls).type = "ldap"
  <1>. DEFINE auth == GetAuthentication(i.spec.authentication, cls)
  <1>1. AdminSecret[1] = "AdminSecret"
    BY DEF AdminSecret, KeyOf
  <1>2. \A k \in KeysIn(registerRBACResources) \cup KeysIn(sensitiveKeyReconciler) :
            k[1] # "AdminSecret"
    <2>1. /\ EntriesIn(registerRBACResources) = {Plain("ServiceAccount", "cluster"),
                   Plain("Role", "cluster"), Plain("RoleBinding", "cluster")}
          /\ EntriesIn(sensitiveKeyReconciler) = {Plain("SensitiveKey", "cluster")}
      BY EntriesOfShortLists, Zenon DEF registerRBACResources, sensitiveKeyReconciler
    <2>. QED
      BY <2>1 DEF KeysIn, Plain
  <1>3. \A k \in KeysIn(ReportingTaskResources(i.spec, auth)) : k[1] # "AdminSecret"
    <2>1. EntriesIn(ReportingTaskResources(i.spec, auth))
              \in {{}, {Plain("ReportingService", "cluster"), WithAuth("Job", i.spec.version, auth)}}
      BY EntriesOfShortLists, Zenon DEF ReportingTaskResources
    <2>. QED
      BY <2>1 DEF KeysIn, Plain, WithAuth
  <1>4. \A g : AdminSecret \in GroupKeys(g, auth) => auth.type = "ldap"
    BY <1>1 DEF GroupKeys, GroupKinds
  <1>. QED
    BY <1>1, <1>2, <1>3, <1>4, WantedKeys, Zenon

\* What an undisturbed call of a NifiCluster that can be reconciled meets.
LEMMA NothingInTheWay ==
    ASSUME TypeOK, AccountInv, inst = cr, Reconcilable, pc # "idle"
    PROVE  /\ ~RegisterRoleGroupError /\ ~FinishRegistrationError /\ ~inst.spec.paused
           /\ ~Forbidden /\ ~BuildError /\ ~AdminItemError /\ ~MissingKeyError
  <1>1. /\ inst \in Instance /\ classes \in ClassMaps
        /\ CurrentAuth = ClusterAuth /\ WantedEntries(cr.spec, ClusterAuth) = WantedOf(inst, classes)
    BY DEF TypeOK, CurrentAuth, ClusterAuth, WantedOf
  <1>2. ~RegisterRoleGroupError /\ ~FinishRegistrationError /\ ~inst.spec.paused
    BY <1>1, Zenon
       DEF RegisterRoleGroupError, FinishRegistrationError, Reconcilable, AccountInv, CallInv
  <1>3. ASSUME pc = "run", resources # << >>
        PROVE  /\ Current \in WantedOf(inst, classes)
               /\ Permitted(Current.key[1]) /\ ~BuildFails(Current, inst.spec, classes)
    <2>1. resources \in Seq(Entry)
      BY DEF TypeOK
    <2>2. EntriesIn(resources) = {Current} \cup EntriesIn(Tail(resources))
      BY <1>3, <2>1, EntriesOfTail DEF Current
    <2>3. Current \in WantedOf(inst, classes)
      BY <1>3, <2>2 DEF AccountInv, CallInv
    <2>. QED
      BY <1>1, <2>3, Zenon DEF Reconcilable
  <1>4. ~Forbidden /\ ~BuildError
    BY <1>3 DEF Forbidden, BuildError, Running
  <1>5. ~MissingKeyError
    BY Zenon DEF MissingKeyError, Stored, Reconcilable
  <1>6. ASSUME AdminItemError PROVE FALSE
    <2>1. /\ Current \in WantedOf(inst, classes) /\ Current.key = AdminSecret
          /\ objects[AdminSecret] # None /\ objects[AdminSecret].body = "no item"
      BY <1>3, <1>6, Zenon DEF AdminItemError, AdminItemMissing, Running, Stored
    <2>2. ClusterAuth.type = "ldap"
      BY <1>1, <2>1, AdminSecretIsForLdap, Zenon DEF CurrentAuth
    <2>. QED
      BY <2>1, <2>2, Zenon DEF Reconcilable
  <1>. QED
    BY <1>2, <1>4, <1>5, <1>6

\* How a call can end.
LEMMA EndOfCall ==
    ASSUME TypeOK, [Next]_vars, pc # "idle", pc' = "idle", budget' = budget
    PROVE  \/ RegisterRoleGroupError \/ FinishRegistrationError \/ inst.spec.paused
           \/ Forbidden \/ BuildError \/ AdminItemError \/ MissingKeyError
           \/ JobUpdateRejected \/ WriteResource \/ EndReconcile
  <1>1. \A kind : ~Disturb(kind)
    BY DEF Disturb, TypeOK
  <1>2. CASE SkipExistingSecret \/ UpToDate
    BY <1>2 DEF SkipExistingSecret, UpToDate, NextResource
  <1>3. CASE \/ IgnoreDeleted \/ StartReconcile \/ FinishRegistration
             \/ \E g \in RoleGroups : RegisterRoleGroup(g)
    BY <1>3 DEF IgnoreDeleted, StartReconcile, FinishRegistration, RegisterRoleGroup
  <1>4. CASE \/ DeleteCluster \/ ProvideKey \/ ProvideAdminSecret \/ ApiError \/ Restart
             \/ UpdateGrants
             \/ \E k \in Key : DeleteObject(k)
             \/ \E x \in Specs : EditSpec(x) \/ CreateCluster(x)
             \/ \E c \in AuthClasses, p \in NewProviders : EditClass(c, p)
    BY <1>1, <1>4, Zenon DEF DeleteCluster, ProvideKey, ProvideAdminSecret, ApiError, Restart,
                UpdateGrants, DeleteObject, EditSpec, CreateCluster, EditClass
  <1>5. CASE \/ WatchEvent \/ Resync \/ UNCHANGED vars
             \/ \E k \in Key : GarbageCollect(k)
             \/ \E v \in V1Versions : JobExpires(v)
    BY <1>5, Zenon DEF WatchEvent, Resync, vars, GarbageCollect, JobExpires, local
  <1>. QED
    BY <1>2, <1>3, <1>4, <1>5, NextCases

\* A write changes the object.
LEMMA WriteChanges ==
    ASSUME TypeOK, WriteResource
    PROVE  objects' # objects
  <1>1. Running /\ MayWrite /\ objects' = [objects EXCEPT ![Current.key] = Desired]
    BY DEF WriteResource
  <1>2. objects'[Current.key] = Desired
    BY <1>1, RunningType, Zenon DEF TypeOK
  <1>3. Desired # None
    BY SomethingIsNotNone, Zenon DEF Desired, DesiredObject
  <1>4. Stored # Desired
    BY <1>1, <1>3, Zenon DEF MayWrite
  <1>. QED
    BY <1>2, <1>4 DEF Stored

\* Whatever happened before, an undisturbed call of a NifiCluster that can be
\* reconciled fails nowhere, for any role groups and specs: the conditions that
\* Reconcilable names are all there are.
THEOREM ReconcilableCallsDoNotFail == HistorySpec => ReconcilableCallsGoOn
  <1>1. HistorySpec => [](TypeOK /\ TrackInv)
    BY Tracked, PTL
  <1>2. TypeOK /\ TrackInv /\ [HistoryNext]_historyVars =>
          [undisturbed /\ Reconcilable /\ pc' = "idle" /\ budget' = budget =>
             \/ pc = "run" /\ resources = << >>
             \/ objects' # objects
             \/ pc = "run" /\ Current.key[1] = "Job" /\ Stored # None]_historyVars
    <2>. SUFFICES ASSUME TypeOK, TrackInv, [HistoryNext]_historyVars,
                         undisturbed, Reconcilable, pc' = "idle", budget' = budget
                  PROVE  \/ pc = "run" /\ resources = << >>
                         \/ objects' # objects
                         \/ pc = "run" /\ Current.key[1] = "Job" /\ Stored # None
      OBVIOUS
    <2>1. [Next]_vars
      BY Zenon DEF HistoryNext, historyVars
    <2>2. pc # "idle" /\ inst = cr /\ AccountInv
      BY DEF TrackInv
    <2>3. CASE JobUpdateRejected
      BY <2>3 DEF JobUpdateRejected, Running
    <2>4. CASE EndReconcile
      BY <2>4 DEF EndReconcile
    <2>. QED
      BY <2>1, <2>2, <2>3, <2>4, EndOfCall, NothingInTheWay, WriteChanges
  <1>. QED
    BY <1>1, <1>2, PTL DEF HistorySpec, ReconcilableCallsGoOn

=============================================================================
